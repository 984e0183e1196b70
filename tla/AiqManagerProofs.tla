-------------------------- MODULE AiqManagerProofs --------------------------
(***************************************************************************)
(* Proofs about AiqManager, for any modes, calls and failing steps, and    *)
(* any number of results under way.                                        *)
(*                                                                         *)
(* A call is at a place given by what it does and by the number of its     *)
(* remaining steps (OnPath).  The parts of the camera are described place  *)
(* by place: what a stop, a start and a switch have done so far.  All of   *)
(* this but the types is for callers whose calls do not overlap.  Who      *)
(* waits for the command thread, and for how long it runs, is followed     *)
(* apart (ServedInv), for overlapping calls too.                           *)
(***************************************************************************)
EXTENDS AiqManager, SequenceTheorems, TLAPS

\* What actor a does, and how many steps of it are left.
Op(a) == call[a].op
Left(a) == Len(call[a].todo)

\* The number of steps of an operation, at most.
Longest(op) ==
  CASE op = "init" -> 5 [] op = "prepare" -> 4 [] op = "start" -> 6
    [] op = "stop" -> 5 [] op = "deInit" -> 10 [] op = "switch" -> 12
    [] OTHER -> 0

\* The step with which n steps are left, itself included.
Place(op, n) ==
  CASE op = "init" -> InitSteps[6 - n]
    [] op = "prepare" -> PrepareSteps[5 - n]
    [] op = "start" -> IF n = 6 THEN "initParams" ELSE StartSteps[6 - n]
    [] op = "stop" -> StopSteps[6 - n]
    [] op = "deInit" -> IF n > 5 THEN StopSteps[11 - n] ELSE DeInitSteps[6 - n]
    [] op = "switch" -> SwitchSteps[13 - n]
    [] OTHER -> "none"

\* The steps, and what a call does.
Names ==
  {"coreInit", "lumaInit", "hwInit", "inited", "cmdStart", "hwPrepare", "corePrepare",
   "initParams", "prepared", "coreStart", "lumaStart", "hwStart", "rstStart", "started",
   "rstStop", "coreStop", "lumaStop", "hwStop", "stoped", "cmdStop", "coreDeInit",
   "lumaDeInit", "hwDeInit", "invalid", "hwPause", "hwSwitch", "hwResume", "switched"}

\* What actor a may do.
Ops(a) == IF a = "cmd" THEN {"none", "switch"}
                       ELSE {"none", "init", "prepare", "start", "stop", "deInit"}

\* What is left of a call is the end of the list of its steps.
OnPath ==
  /\ call \in [Actors -> [op : Ops("app") \cup Ops("cmd"), todo : Seq(Names), mode : Modes \cup {NoMode},
                          by : Callers]]
  /\ \A a \in Actors :
       /\ Op(a) \in Ops(a)
       /\ Left(a) =< Longest(Op(a))
       /\ \A i \in 1..Left(a) : call[a].todo[i] = Place(Op(a), Left(a) + 1 - i)
       /\ Op(a) = "none" => call[a] = Idle
       /\ Op(a) \in {"prepare", "switch"} => call[a].mode \in Modes

\* Who waits, waits for a command of its own.
Answers ==
  /\ requests \in Seq([from : Callers, mode : Modes])
  /\ \A i \in DOMAIN requests : requests[i].from \in waiting
  /\ \A i, j \in DOMAIN requests : requests[i].from = requests[j].from => i = j
  /\ Op("cmd") = "switch" =>
       /\ call["cmd"].by \in waiting
       /\ \A i \in DOMAIN requests : requests[i].from /= call["cmd"].by

\* Polite callers are alone.
Alone ==
  /\ Op("app") /= "none" => Op("cmd") = "none" /\ waiting = {}
  /\ Op("cmd") /= "none" => requests = << >>
  /\ waiting = {} => requests = << >>
  /\ Len(requests) =< 1

\* The state of the analyzer.
CoreType == [state : PartStates, mode : Modes \cup {NoMode}, shared : BOOLEAN]
HwType == [state : (PartStates \ {"stoped"}) \cup {"stopped", "paused"}, on : BOOLEAN,
           mode : Modes \cup {NoMode}, params : Modes \cup {NoMode}]
Result == [run : Nat, mode : Modes \cup {NoMode}]

\* The types of the parts.
PartsTyped ==
  /\ state \in PartStates /\ mode \in Modes
  /\ core \in CoreType /\ luma \in PartStates /\ hw \in HwType
  /\ cmdUp \in BOOLEAN /\ rst \in BOOLEAN
  /\ results \in Seq(Result) /\ Len(results) =< MaxResults
  /\ run \in Nat

\* The type invariant.
TypeInv ==
  /\ OnPath /\ Answers /\ PartsTyped
  /\ polite \in Politeness /\ waiting \subseteq Callers /\ calls \in 0..MaxCalls

-----------------------------------------------------------------------------
(* What the parts are at each place of the only call under way *)

\* What the only call under way does, when the callers are polite.
Doing == IF Op("app") /= "none" THEN Op("app") ELSE Op("cmd")
ToDo == IF Op("app") /= "none" THEN Left("app") ELSE Left("cmd")
Wanted == IF Op("app") /= "none" THEN call["app"].mode ELSE call["cmd"].mode

\* Between these numbers of steps before the end of an operation.
In(op, m, n) == Doing = op /\ m =< ToDo /\ ToDo =< n

\* Nothing is under way that changes the parts.
Over == Doing = "none" \/ In("switch", 0, 0)

\* _state during a call.
StateInCall ==
  /\ calls = 0 => state = "invalid" /\ Doing = "none" /\ waiting = {}
  /\ Doing = "init" => state \in {"invalid", "inited"}
  /\ Doing \in {"prepare", "deInit"} => state /= "started"
  /\ In("start", 1, 6) => state /= "started"
  /\ In("switch", 1, 12) => state = "started"

\* What a stop has stopped so far.
Stopped ==
  /\ hw.state = "stopped" => ~hw.on
  /\ rst => state = "started" \/ In("start", 1, 1)
  /\ In("stop", 0, 4) => ~rst
  /\ In("stop", 0, 3) \/ In("deInit", 6, 8) => core.state /= "started"
  /\ In("stop", 0, 2) \/ In("deInit", 6, 7) => luma /= "started"
  /\ In("stop", 0, 1) \/ In("deInit", 6, 6) => ~hw.on

\* What the state says of the parts between two calls.
Truth == IF state = "started" THEN Running ELSE Quiet

\* What a call has started so far, if no step failed.
Started ==
  /\ In("start", 1, 4) => core.state = "started"
  /\ ~failed =>
       /\ Over => Truth
       /\ Doing \in {"init", "prepare", "deInit"} => Quiet
       /\ In("start", 0, 4) \/ In("switch", 1, 2) => core.state = "started"
       /\ In("start", 0, 3) \/ In("switch", 1, 1) => luma = "started"
       /\ In("start", 0, 2) \/ In("switch", 1, 4) => hw.on
       /\ In("start", 0, 1) \/ In("switch", 1, 3) => rst
       /\ In("start", 0, 0) => state = "started"
       /\ In("stop", 0, 0) => state = "stoped" /\ Quiet
       /\ In("deInit", 0, 0) => state = "invalid"

\* The results that wait are of this run of the analyzer.
Fresh ==
  /\ In("switch", 3, 10) => core.state /= "started"
  /\ In("switch", 3, 3) => results = << >>
  /\ rst => \A i \in DOMAIN results : results[i].run = run

\* The modes of the parts, unless a failure left them apart.
SameMode ==
  /\ In("prepare", 3, 3) \/ In("switch", 7, 7) => hw.mode = Wanted
  /\ ~apart =>
       /\ In("prepare", 1, 2) \/ In("switch", 1, 6) => hw.mode = Wanted /\ core.mode = hw.mode
       /\ ~In("prepare", 1, 3) /\ ~In("switch", 1, 7) =>
            /\ hw.mode = core.mode
            /\ core.state \in {"prepared", "started", "stoped"} \/ hw.on => mode = core.mode

\* The mode of the initial parameters of the hardware, unless something failed.
SameParams ==
  ~apart /\ ~failed =>
    /\ Over /\ state \in {"prepared", "started"} => hw.params = core.mode
    /\ In("prepare", 1, 1) => hw.params = core.mode
    /\ In("prepare", 0, 0) /\ state \in {"prepared", "started"} => hw.params = core.mode
    /\ In("start", 0, 5) => hw.params = core.mode
    /\ In("switch", 1, 5) => hw.params = core.mode

\* The parts, place by place.
Parts == StateInCall /\ Stopped /\ Started /\ Fresh /\ SameMode /\ SameParams

\* The invariant of callers whose calls do not overlap.
PoliteInv == polite => Alone /\ Parts
-----------------------------------------------------------------------------
(* Places *)

USE DEF Callers, Actors

\* The steps of each operation, from the last one back.
LEMMA Places ==
  /\ Place("init", 1) = "cmdStart" /\ Place("init", 2) = "inited"
  /\ Place("init", 3) = "hwInit" /\ Place("init", 4) = "lumaInit"
  /\ Place("init", 5) = "coreInit"
  /\ Place("prepare", 1) = "prepared" /\ Place("prepare", 2) = "initParams"
  /\ Place("prepare", 3) = "corePrepare" /\ Place("prepare", 4) = "hwPrepare"
  /\ Place("start", 1) = "started" /\ Place("start", 2) = "rstStart"
  /\ Place("start", 3) = "hwStart" /\ Place("start", 4) = "lumaStart"
  /\ Place("start", 5) = "coreStart" /\ Place("start", 6) = "initParams"
  /\ Place("stop", 1) = "stoped" /\ Place("stop", 2) = "hwStop"
  /\ Place("stop", 3) = "lumaStop" /\ Place("stop", 4) = "coreStop"
  /\ Place("stop", 5) = "rstStop"
  /\ Place("deInit", 1) = "invalid" /\ Place("deInit", 2) = "hwDeInit"
  /\ Place("deInit", 3) = "lumaDeInit" /\ Place("deInit", 4) = "coreDeInit"
  /\ Place("deInit", 5) = "cmdStop" /\ Place("deInit", 6) = "stoped"
  /\ Place("deInit", 7) = "hwStop" /\ Place("deInit", 8) = "lumaStop"
  /\ Place("deInit", 9) = "coreStop" /\ Place("deInit", 10) = "rstStop"
  /\ Place("switch", 1) = "switched" /\ Place("switch", 2) = "lumaStart"
  /\ Place("switch", 3) = "coreStart" /\ Place("switch", 4) = "rstStart"
  /\ Place("switch", 5) = "hwResume" /\ Place("switch", 6) = "initParams"
  /\ Place("switch", 7) = "corePrepare" /\ Place("switch", 8) = "hwSwitch"
  /\ Place("switch", 9) = "hwPause" /\ Place("switch", 10) = "lumaStop"
  /\ Place("switch", 11) = "coreStop" /\ Place("switch", 12) = "rstStop"
BY DEF Place, InitSteps, PrepareSteps, StartSteps, StopSteps, DeInitSteps, SwitchSteps

\* Where each step is taken.
LEMMA Where ==
  ASSUME NEW op, NEW n \in 1..Longest(op)
  PROVE
    /\ Place(op, n) = "cmdStart" => (op = "init" /\ n = 1)
    /\ Place(op, n) = "inited" => (op = "init" /\ n = 2)
    /\ Place(op, n) = "hwInit" => (op = "init" /\ n = 3)
    /\ Place(op, n) = "lumaInit" => (op = "init" /\ n = 4)
    /\ Place(op, n) = "coreInit" => (op = "init" /\ n = 5)
    /\ Place(op, n) = "prepared" => (op = "prepare" /\ n = 1)
    /\ Place(op, n) = "initParams" => (op = "prepare" /\ n = 2) \/ (op = "start" /\ n = 6) \/ (op = "switch" /\ n = 6)
    /\ Place(op, n) = "corePrepare" => (op = "prepare" /\ n = 3) \/ (op = "switch" /\ n = 7)
    /\ Place(op, n) = "hwPrepare" => (op = "prepare" /\ n = 4)
    /\ Place(op, n) = "started" => (op = "start" /\ n = 1)
    /\ Place(op, n) = "rstStart" => (op = "start" /\ n = 2) \/ (op = "switch" /\ n = 4)
    /\ Place(op, n) = "hwStart" => (op = "start" /\ n = 3)
    /\ Place(op, n) = "lumaStart" => (op = "start" /\ n = 4) \/ (op = "switch" /\ n = 2)
    /\ Place(op, n) = "coreStart" => (op = "start" /\ n = 5) \/ (op = "switch" /\ n = 3)
    /\ Place(op, n) = "stoped" => (op = "stop" /\ n = 1) \/ (op = "deInit" /\ n = 6)
    /\ Place(op, n) = "hwStop" => (op = "stop" /\ n = 2) \/ (op = "deInit" /\ n = 7)
    /\ Place(op, n) = "lumaStop" => (op = "stop" /\ n = 3) \/ (op = "deInit" /\ n = 8) \/ (op = "switch" /\ n = 10)
    /\ Place(op, n) = "coreStop" => (op = "stop" /\ n = 4) \/ (op = "deInit" /\ n = 9) \/ (op = "switch" /\ n = 11)
    /\ Place(op, n) = "rstStop" => (op = "stop" /\ n = 5) \/ (op = "deInit" /\ n = 10) \/ (op = "switch" /\ n = 12)
    /\ Place(op, n) = "invalid" => (op = "deInit" /\ n = 1)
    /\ Place(op, n) = "hwDeInit" => (op = "deInit" /\ n = 2)
    /\ Place(op, n) = "lumaDeInit" => (op = "deInit" /\ n = 3)
    /\ Place(op, n) = "coreDeInit" => (op = "deInit" /\ n = 4)
    /\ Place(op, n) = "cmdStop" => (op = "deInit" /\ n = 5)
    /\ Place(op, n) = "switched" => (op = "switch" /\ n = 1)
    /\ Place(op, n) = "hwResume" => (op = "switch" /\ n = 5)
    /\ Place(op, n) = "hwSwitch" => (op = "switch" /\ n = 8)
    /\ Place(op, n) = "hwPause" => (op = "switch" /\ n = 9)
<1>1. CASE op = "init"
  <2>1. n = 1 \/ n = 2 \/ n = 3 \/ n = 4 \/ n = 5
    BY <1>1 DEF Longest
  <2>2. QED
    BY <1>1, <2>1, Places
<1>2. CASE op = "prepare"
  <2>1. n = 1 \/ n = 2 \/ n = 3 \/ n = 4
    BY <1>2 DEF Longest
  <2>2. QED
    BY <1>2, <2>1, Places
<1>3. CASE op = "start"
  <2>1. n = 1 \/ n = 2 \/ n = 3 \/ n = 4 \/ n = 5 \/ n = 6
    BY <1>3 DEF Longest
  <2>2. QED
    BY <1>3, <2>1, Places
<1>4. CASE op = "stop"
  <2>1. n = 1 \/ n = 2 \/ n = 3 \/ n = 4 \/ n = 5
    BY <1>4 DEF Longest
  <2>2. QED
    BY <1>4, <2>1, Places
<1>5. CASE op = "deInit"
  <2>1. n = 1 \/ n = 2 \/ n = 3 \/ n = 4 \/ n = 5 \/ n = 6 \/ n = 7 \/ n = 8 \/ n = 9 \/ n = 10
    BY <1>5 DEF Longest
  <2>2. QED
    BY <1>5, <2>1, Places
<1>6. CASE op = "switch"
  <2>1. n = 1 \/ n = 2 \/ n = 3 \/ n = 4 \/ n = 5 \/ n = 6 \/ n = 7 \/ n = 8 \/ n = 9 \/ n = 10 \/ n = 11 \/ n = 12
    BY <1>6 DEF Longest
  <2>2. QED
    BY <1>6, <2>1, Places
<1>7. QED
  BY <1>1, <1>2, <1>3, <1>4, <1>5, <1>6 DEF Longest

\* The step an actor is about to do is the one of its place.
LEMMA AtPlace ==
  ASSUME OnPath, NEW a \in Actors, NEW s, At(a, s)
  PROVE  /\ Left(a) \in 1..Longest(Op(a))
         /\ Place(Op(a), Left(a)) = s
<1>1. call[a].todo \in Seq(Names) /\ Left(a) \in Nat
  BY DEF OnPath, Left
<1>2. Left(a) /= 0 /\ Head(call[a].todo) = call[a].todo[1]
  BY <1>1, EmptySeq DEF At, Left
<1>3. Longest(Op(a)) \in Nat
  BY DEF Longest
<1>4. QED
  BY <1>1, <1>2, <1>3 DEF OnPath, At

\* Actor a has n steps left of operation op.
Is(a, op, n) == Op(a) = op /\ Left(a) = n

\* The place of an actor that is about to do a step.
LEMMA AtStep ==
  ASSUME OnPath, NEW a \in Actors
  PROVE
    /\ At(a, "cmdStart") => Is(a, "init", 1)
    /\ At(a, "inited") => Is(a, "init", 2)
    /\ At(a, "hwInit") => Is(a, "init", 3)
    /\ At(a, "lumaInit") => Is(a, "init", 4)
    /\ At(a, "coreInit") => Is(a, "init", 5)
    /\ At(a, "prepared") => Is(a, "prepare", 1)
    /\ At(a, "initParams") => Is(a, "prepare", 2) \/ Is(a, "start", 6) \/ Is(a, "switch", 6)
    /\ At(a, "corePrepare") => Is(a, "prepare", 3) \/ Is(a, "switch", 7)
    /\ At(a, "hwPrepare") => Is(a, "prepare", 4)
    /\ At(a, "started") => Is(a, "start", 1)
    /\ At(a, "rstStart") => Is(a, "start", 2) \/ Is(a, "switch", 4)
    /\ At(a, "hwStart") => Is(a, "start", 3)
    /\ At(a, "lumaStart") => Is(a, "start", 4) \/ Is(a, "switch", 2)
    /\ At(a, "coreStart") => Is(a, "start", 5) \/ Is(a, "switch", 3)
    /\ At(a, "stoped") => Is(a, "stop", 1) \/ Is(a, "deInit", 6)
    /\ At(a, "hwStop") => Is(a, "stop", 2) \/ Is(a, "deInit", 7)
    /\ At(a, "lumaStop") => Is(a, "stop", 3) \/ Is(a, "deInit", 8) \/ Is(a, "switch", 10)
    /\ At(a, "coreStop") => Is(a, "stop", 4) \/ Is(a, "deInit", 9) \/ Is(a, "switch", 11)
    /\ At(a, "rstStop") => Is(a, "stop", 5) \/ Is(a, "deInit", 10) \/ Is(a, "switch", 12)
    /\ At(a, "invalid") => Is(a, "deInit", 1)
    /\ At(a, "hwDeInit") => Is(a, "deInit", 2)
    /\ At(a, "lumaDeInit") => Is(a, "deInit", 3)
    /\ At(a, "coreDeInit") => Is(a, "deInit", 4)
    /\ At(a, "cmdStop") => Is(a, "deInit", 5)
    /\ At(a, "switched") => Is(a, "switch", 1)
    /\ At(a, "hwResume") => Is(a, "switch", 5)
    /\ At(a, "hwSwitch") => Is(a, "switch", 8)
    /\ At(a, "hwPause") => Is(a, "switch", 9)
<1>1. \A s : At(a, s) => Left(a) \in 1..Longest(Op(a)) /\ Place(Op(a), Left(a)) = s
  BY AtPlace
<1> DEFINE op == Op(a)
           n == Left(a)
<1> HIDE DEF op, n
<1>2. CASE n \in 1..Longest(op)
  BY <1>1, <1>2, Where DEF Is, op, n
<1>3. CASE n \notin 1..Longest(op)
  BY <1>1, <1>3 DEF op, n
<1>4. QED
  BY <1>2, <1>3

\* The call of an actor is replaced.
Becomes(a, o, l, m, c) == call' = [call EXCEPT ![a] = InCall(o, l, m, c)]

\* A call whose remaining steps become l is at place Len(l) of operation o.
LEMMA Moving ==
  ASSUME OnPath, NEW a \in Actors, NEW o \in Ops(a), NEW l \in Seq(Names),
         NEW m \in Modes \cup {NoMode}, NEW c \in Callers,
         Len(l) =< Longest(o),
         \A i \in 1..Len(l) : l[i] = Place(o, Len(l) + 1 - i),
         o = "none" => InCall(o, l, m, c) = Idle,
         o \in {"prepare", "switch"} => m \in Modes,
         Becomes(a, o, l, m, c)
  PROVE  /\ OnPath'
         /\ Op(a)' = o /\ Left(a)' = Len(l) /\ call'[a].mode = m /\ call'[a].by = c
         /\ \A b \in Actors : b /= a =>
              Op(b)' = Op(b) /\ Left(b)' = Left(b) /\ call'[b] = call[b]
<1> DEFINE r == InCall(o, l, m, c)
<1>1. /\ r \in [op : Ops("app") \cup Ops("cmd"), todo : Seq(Names), mode : Modes \cup {NoMode},
                by : Callers]
      /\ r.op = o /\ r.todo = l /\ r.mode = m /\ r.by = c
  BY DEF InCall, Ops
<1> HIDE DEF r
<1>2. /\ call'[a] = r
      /\ \A b \in Actors : b /= a => call'[b] = call[b]
  BY DEF OnPath, r, Becomes
<1>3. /\ Op(a)' = o /\ Left(a)' = Len(l) /\ call'[a].mode = m /\ call'[a].by = c
      /\ \A b \in Actors : b /= a =>
           Op(b)' = Op(b) /\ Left(b)' = Left(b) /\ call'[b] = call[b]
  BY <1>1, <1>2 DEF Op, Left
<1>4. call' \in [Actors -> [op : Ops("app") \cup Ops("cmd"), todo : Seq(Names),
                            mode : Modes \cup {NoMode}, by : Callers]]
  BY <1>1 DEF OnPath, r, Becomes
<1>5. ASSUME NEW b \in Actors
      PROVE /\ Op(b)' \in Ops(b)
            /\ Left(b)' =< Longest(Op(b)')
            /\ \A i \in 1..Left(b)' : call'[b].todo[i] = Place(Op(b)', Left(b)' + 1 - i)
            /\ Op(b)' = "none" => call'[b] = Idle
            /\ Op(b)' \in {"prepare", "switch"} => call'[b].mode \in Modes
  <2>1. CASE b /= a
    BY <2>1, <1>3 DEF OnPath
  <2>2. CASE b = a
    BY <2>2, <1>1, <1>2, <1>3 DEF r
  <2>3. QED
    BY <2>1, <2>2
<1>6. QED
  BY <1>3, <1>4, <1>5 DEF OnPath

\* Actor a has done a step, the others none.
Goes(a) ==
  /\ OnPath'
  /\ Left(a)' = Left(a) - 1
  /\ \A b \in Actors : Op(b)' = Op(b) /\ call'[b].mode = call[b].mode
                         /\ call'[b].by = call[b].by
  /\ \A b \in Actors : b /= a => Left(b)' = Left(b) /\ call'[b] = call[b]

\* A call that goes on is one place further.
LEMMA Going ==
  ASSUME OnPath, NEW a \in Actors, call[a].todo /= << >>,
         call' = [call EXCEPT ![a].todo = Tail(@)]
  PROVE  Goes(a)
<1> DEFINE t == Tail(call[a].todo)
<1>1. /\ call[a] \in [op : Ops("app") \cup Ops("cmd"), todo : Seq(Names),
                       mode : Modes \cup {NoMode}, by : Callers]
      /\ call[a].todo \in Seq(Names)
  BY DEF OnPath
<1>2. /\ t \in Seq(Names) /\ Len(t) = Left(a) - 1
      /\ \A i \in 1..Len(t) : t[i] = call[a].todo[i + 1]
  BY <1>1, HeadTailProperties DEF Left
<1>3. call' = [call EXCEPT ![a] = [call[a] EXCEPT !.todo = t]]
  OBVIOUS
<1> HIDE DEF t
<1>4. [call[a] EXCEPT !.todo = t] = InCall(call[a].op, t, call[a].mode, call[a].by)
  BY <1>1 DEF InCall
<1>5. Left(a) \in Nat \ {0} /\ Longest(Op(a)) \in Nat
  BY <1>1, EmptySeq DEF Left, Longest
<1>6. Op(a) /= "none"
  <2>1. Left(a) =< Longest(Op(a))
    BY DEF OnPath
  <2>2. QED
    BY <1>5, <2>1 DEF Longest
<1>7. \A i \in 1..Len(t) : t[i] = Place(Op(a), Len(t) + 1 - i)
  <2> SUFFICES ASSUME NEW i \in 1..Len(t) PROVE t[i] = Place(Op(a), Len(t) + 1 - i)
    OBVIOUS
  <2>1. i + 1 \in 1..Left(a) /\ Left(a) + 1 - (i + 1) = Len(t) + 1 - i
    BY <1>2, <1>5
  <2>2. call[a].todo[i + 1] = Place(Op(a), Left(a) + 1 - (i + 1))
    BY <2>1 DEF OnPath
  <2>3. QED
    BY <2>1, <2>2, <1>2
<1>8. /\ Len(t) =< Longest(Op(a)) /\ Op(a) \in Ops(a)
      /\ call[a].mode \in Modes \cup {NoMode} /\ call[a].by \in Callers
      /\ Op(a) \in {"prepare", "switch"} => call[a].mode \in Modes
  BY <1>1, <1>2, <1>5 DEF OnPath
<1>9. /\ OnPath'
      /\ Op(a)' = Op(a) /\ Left(a)' = Len(t) /\ call'[a].mode = call[a].mode
      /\ call'[a].by = call[a].by
      /\ \A b \in Actors : b /= a =>
           Op(b)' = Op(b) /\ Left(b)' = Left(b) /\ call'[b] = call[b]
  <2> DEFINE o == Op(a)
             m == call[a].mode
             c == call[a].by
  <2>1. Becomes(a, o, t, m, c)
    BY <1>3, <1>4 DEF Op, Becomes
  <2>2. o \in Ops(a) /\ m \in Modes \cup {NoMode} /\ c \in Callers
        /\ (o \in {"prepare", "switch"} => m \in Modes) /\ o /= "none"
        /\ Len(t) =< Longest(o)
        /\ \A i \in 1..Len(t) : t[i] = Place(o, Len(t) + 1 - i)
    BY <1>6, <1>7, <1>8
  <2>3. /\ OnPath'
        /\ Op(a)' = o /\ Left(a)' = Len(t) /\ call'[a].mode = m /\ call'[a].by = c
        /\ \A b \in Actors : b /= a =>
             Op(b)' = Op(b) /\ Left(b)' = Left(b) /\ call'[b] = call[b]
    <3> HIDE DEF o, m, c
    <3>1. OnPath /\ t \in Seq(Names) /\ (o = "none" => InCall(o, t, m, c) = Idle)
      BY <2>2, <1>2
    <3>2. QED
      BY <3>1, <2>1, <2>2, Moving
  <2>4. QED
    BY <2>3
<1>10. QED
  BY <1>2, <1>9 DEF Goes

\* Step s is in the list once, at i.
OnlyAt(s, todo, i) ==
  i \in 1..Len(todo) /\ todo[i] = s /\ \A k \in 1..Len(todo) : todo[k] = s => k = i

\* After keeps what follows the only place of a step.
LEMMA AfterStep ==
  ASSUME NEW todo \in Seq(Names), NEW s, NEW i, OnlyAt(s, todo, i)
  PROVE  /\ After(s, todo) \in Seq(Names)
         /\ Len(After(s, todo)) = Len(todo) - i
         /\ \A k \in 1..(Len(todo) - i) : After(s, todo)[k] = todo[i + k]
<1> DEFINE P(j) == todo[j] = s /\ \A k \in 1..(j - 1) : todo[k] /= s
           c == CHOOSE j \in DOMAIN todo : P(j)
<1>1. /\ Len(todo) \in Nat /\ DOMAIN todo = 1..Len(todo) /\ i \in 1..Len(todo)
      /\ todo[i] = s /\ \A k \in 1..Len(todo) : todo[k] = s => k = i
  BY DEF OnlyAt
<1>2. P(i)
  BY <1>1
<1>3. c \in DOMAIN todo /\ P(c)
  BY <1>1, <1>2
<1>4. c = i
  BY <1>1, <1>3
<1>5. After(s, todo) = SubSeq(todo, i + 1, Len(todo))
  BY <1>4 DEF After
<1> HIDE DEF P, c
<1> DEFINE n == Len(todo)
<1>6. \A k \in (i + 1)..n : todo[k] \in Names
  BY <1>1
<1>7. n \in Nat /\ i \in Int /\ 1 =< i /\ i =< n
  BY <1>1
<1> HIDE DEF n
<1>8. /\ SubSeq(todo, i + 1, n) \in Seq(Names)
      /\ Len(SubSeq(todo, i + 1, n)) = IF i + 1 =< n THEN n - (i + 1) + 1 ELSE 0
      /\ \A k \in 1..(n - (i + 1) + 1) : SubSeq(todo, i + 1, n)[k] = todo[i + 1 + k - 1]
  BY <1>6, <1>7, SubSeqProperties
<1>9. Len(SubSeq(todo, i + 1, n)) = n - i
  BY <1>7, <1>8
<1>10. ASSUME NEW k \in 1..(n - i) PROVE SubSeq(todo, i + 1, n)[k] = todo[i + k]
  <2>1. k \in 1..(n - (i + 1) + 1) /\ i + 1 + k - 1 = i + k
    BY <1>7
  <2>2. QED
    BY <2>1, <1>8
<1>11. QED
  BY <1>5, <1>8, <1>9, <1>10 DEF n

\* A step of actor a has failed: init is undone, another call is over.
Fails(a) ==
  /\ OnPath'
  /\ Op(a) \in Ops(a) \ {"none"}
  /\ Op(a)' = IF Op(a) = "init" THEN "deInit" ELSE Op(a)
  /\ Left(a)' = IF Op(a) = "init" \/ (Op(a) = "deInit" /\ Left(a) >= 5) THEN 5 ELSE 0
  /\ Op(a) /= "init" => call'[a].mode = call[a].mode /\ call'[a].by = call[a].by
  /\ \A b \in Actors : b /= a => Op(b)' = Op(b) /\ Left(b)' = Left(b) /\ call'[b] = call[b]
  /\ failed' = (failed \/ Op(a) /= "prepare")
  /\ apart' = (apart \/ Op(a) \in {"prepare", "switch"})

\* A failing init goes on as a deInit, a failing stop inside deInit goes on with
\* the rest of deInit, and any other call is over.
LEMMA Failing ==
  ASSUME OnPath, NEW a \in Actors, call[a].todo /= << >>, Fail(a)
  PROVE  Fails(a)
<1> DEFINE todo == call[a].todo
           m == call[a].mode
           c == call[a].by
<1>1. /\ call[a] \in [op : Ops("app") \cup Ops("cmd"), todo : Seq(Names),
                       mode : Modes \cup {NoMode}, by : Callers]
      /\ todo \in Seq(Names) /\ Left(a) = Len(todo) /\ Left(a) \in Nat \ {0}
      /\ DOMAIN todo = 1..Len(todo)
      /\ m \in Modes \cup {NoMode} /\ c \in Callers /\ Op(a) = call[a].op
  BY EmptySeq DEF OnPath, Left, Op
<1>2. Longest(Op(a)) \in Nat /\ Left(a) =< Longest(Op(a)) /\ Op(a) \in Ops(a)
      /\ (Op(a) \in {"prepare", "switch"} => m \in Modes)
      /\ \A i \in 1..Len(todo) : todo[i] = Place(Op(a), Len(todo) + 1 - i)
  BY <1>1 DEF OnPath, Longest
<1>3. Op(a) /= "none"
  BY <1>1, <1>2 DEF Longest
<1>4. failed' = (failed \/ Op(a) /= "prepare") /\ apart' = (apart \/ Op(a) \in {"prepare", "switch"})
  BY <1>1 DEF Fail
<1> DEFINE stops == \E i \in DOMAIN todo : todo[i] = "cmdStop"
           rest == <<"cmdStop">> \o After("cmdStop", todo)
<1>5. call' = [call EXCEPT ![a] =
           CASE call[a].op = "init" -> InCall("deInit", DeInitSteps, NoMode, "app")
             [] call[a].op = "deInit" /\ stops -> [call[a] EXCEPT !.todo = rest]
             [] OTHER -> [call[a] EXCEPT !.todo = << >>]]
  BY DEF Fail
<1>6. \A l : [call[a] EXCEPT !.todo = l] = InCall(Op(a), l, m, c)
  BY <1>1 DEF InCall
<1> HIDE DEF todo, m, c, rest, stops
<1>7. CASE Op(a) = "init"
  <2>1. Becomes(a, "deInit", DeInitSteps, NoMode, "app")
    BY <1>1, <1>5, <1>7 DEF Becomes
  <2>2. /\ DeInitSteps \in Seq(Names) /\ Len(DeInitSteps) = 5
        /\ \A i \in 1..5 : DeInitSteps[i] = Place("deInit", 6 - i)
        /\ Len(DeInitSteps) =< Longest("deInit")
        /\ "deInit" \in Ops(a)
    <3>1. /\ DeInitSteps \in Seq(Names) /\ Len(DeInitSteps) = 5
          /\ DeInitSteps[1] = "cmdStop" /\ DeInitSteps[2] = "coreDeInit"
          /\ DeInitSteps[3] = "lumaDeInit" /\ DeInitSteps[4] = "hwDeInit"
          /\ DeInitSteps[5] = "invalid"
      BY DEF DeInitSteps, Names
    <3>2. ASSUME NEW i \in 1..5 PROVE DeInitSteps[i] = Place("deInit", 6 - i)
      <4>1. i = 1 \/ i = 2 \/ i = 3 \/ i = 4 \/ i = 5
        OBVIOUS
      <4>2. QED
        BY <4>1, <3>1, Places
    <3>3. 5 =< Longest("deInit") /\ "deInit" \in Ops(a)
      BY <1>2, <1>7 DEF Longest, Ops
    <3>4. QED
      BY <3>1, <3>2, <3>3
  <2>3. \A i \in 1..Len(DeInitSteps) : DeInitSteps[i] = Place("deInit", Len(DeInitSteps) + 1 - i)
    BY <2>2
  <2>4. /\ OnPath'
        /\ Op(a)' = "deInit" /\ Left(a)' = Len(DeInitSteps)
        /\ \A b \in Actors : b /= a =>
             Op(b)' = Op(b) /\ Left(b)' = Left(b) /\ call'[b] = call[b]
    BY <2>1, <2>2, <2>3, Moving
  <2>5. QED
    BY <2>2, <2>4, <1>2, <1>3, <1>4, <1>7 DEF Fails
<1>8. CASE Op(a) /= "init" /\ ~(Op(a) = "deInit" /\ Left(a) >= 5)
  <2>1. ~(call[a].op = "deInit" /\ stops)
    <3> SUFFICES ASSUME Op(a) = "deInit", stops PROVE FALSE
      BY <1>1
    <3>1. PICK i \in 1..Len(todo) : todo[i] = "cmdStop"
      BY <1>1 DEF stops
    <3>2. Len(todo) + 1 - i \in 1..Longest("deInit") /\ Place("deInit", Len(todo) + 1 - i) = "cmdStop"
      BY <1>1, <1>2, <3>1
    <3>3. Len(todo) + 1 - i = 5
      BY <3>2, Where
    <3>4. QED
      BY <3>3, <1>1, <1>8
  <2> DEFINE l == << >>
             o == Op(a)
  <2>2. Becomes(a, o, l, m, c)
    BY <1>1, <1>5, <1>6, <1>8, <2>1 DEF Becomes
  <2>3. l \in Seq(Names) /\ Len(l) = 0 /\ 0 =< Longest(o) /\ o \in Ops(a) /\ o /= "none"
        /\ (o \in {"prepare", "switch"} => m \in Modes)
        /\ (o = "none" => InCall(o, l, m, c) = Idle)
    BY <1>2, <1>3
  <2> HIDE DEF l, o
  <2>4. \A i \in 1..Len(l) : l[i] = Place(o, Len(l) + 1 - i)
    BY <2>3
  <2>5. /\ OnPath'
        /\ Op(a)' = o /\ Left(a)' = Len(l) /\ call'[a].mode = m /\ call'[a].by = c
        /\ \A b \in Actors : b /= a =>
             Op(b)' = Op(b) /\ Left(b)' = Left(b) /\ call'[b] = call[b]
    <3>1. OnPath /\ m \in Modes \cup {NoMode} /\ c \in Callers /\ Len(l) =< Longest(o)
      BY <1>1, <2>3
    <3>2. QED
      BY <3>1, <2>2, <2>3, <2>4, Moving
  <2>6. QED
    BY <2>3, <2>5, <1>2, <1>3, <1>4, <1>8 DEF m, c, o, Fails
<1>9. CASE Op(a) = "deInit" /\ Left(a) >= 5
  <2> DEFINE i == Left(a) - 4
  <2>1. i \in 1..Len(todo) /\ Len(todo) + 1 - i = 5
    BY <1>1, <1>9
  <2>2. todo[i] = "cmdStop"
    BY <2>1, <1>2, <1>9, Places
  <2>3. ASSUME NEW k \in 1..Len(todo), todo[k] = "cmdStop" PROVE k = i
    <3>1. Len(todo) + 1 - k \in 1..Longest("deInit") /\ Place("deInit", Len(todo) + 1 - k) = "cmdStop"
      BY <1>1, <1>2, <1>9, <2>3
    <3>2. Len(todo) + 1 - k = 5
      BY <3>1, Where
    <3>3. QED
      BY <3>2, <1>1
  <2>4. Len(todo) - i = 4
    BY <1>1
  <2> HIDE DEF i
  <2>5. /\ After("cmdStop", todo) \in Seq(Names)
        /\ Len(After("cmdStop", todo)) = 4
        /\ \A k \in 1..4 : After("cmdStop", todo)[k] = todo[i + k]
    <3>1. OnlyAt("cmdStop", todo, i)
      BY <2>1, <2>2, <2>3 DEF OnlyAt
    <3>2. QED
      <4>1. /\ Len(After("cmdStop", todo)) = Len(todo) - i
            /\ After("cmdStop", todo) \in Seq(Names)
            /\ \A k \in 1..(Len(todo) - i) : After("cmdStop", todo)[k] = todo[i + k]
        BY <3>1, <1>1, AfterStep
      <4>2. QED
        BY <4>1, <2>4
  <2>6. /\ rest \in Seq(Names) /\ Len(rest) = 5
        /\ \A k \in 1..5 : rest[k] = IF k =< 1 THEN <<"cmdStop">>[k] ELSE After("cmdStop", todo)[k - 1]
    <3> DEFINE one == <<"cmdStop">>
    <3>1. one \in Seq(Names) /\ Len(one) = 1
      BY DEF Names
    <3> HIDE DEF one
    <3>2. QED
      BY <3>1, <2>5, ConcatProperties DEF rest, one
  <2>7. \A k \in 1..Len(rest) : rest[k] = Place("deInit", Len(rest) + 1 - k)
    <3>1. ASSUME NEW k \in 1..5 PROVE rest[k] = Place("deInit", 6 - k)
      <4>1. CASE k = 1
        BY <4>1, <2>6, Places
      <4>2. CASE k > 1
        <5>1. k - 1 \in 1..4 /\ i + (k - 1) \in 1..Len(todo) /\ Len(todo) + 1 - (i + (k - 1)) = 6 - k
          BY <4>2, <2>1, <2>4, <1>1
        <5>2. rest[k] = todo[i + (k - 1)]
          <6>1. rest[k] = After("cmdStop", todo)[k - 1]
            BY <4>2, <2>6
          <6>2. QED
            BY <5>1, <6>1, <2>5
        <5>3. QED
          BY <5>1, <5>2, <1>2, <1>9
      <4>3. QED
        BY <4>1, <4>2
    <3>2. QED
      BY <3>1, <2>6
  <2>8. Becomes(a, Op(a), rest, m, c)
    <3>1. stops
      BY <1>1, <2>1, <2>2 DEF stops
    <3>2. QED
      BY <3>1, <1>1, <1>5, <1>6, <1>9 DEF Becomes
  <2> DEFINE o == Op(a)
  <2>9. /\ Len(rest) =< Longest(o) /\ \A k \in 1..Len(rest) : rest[k] = Place(o, Len(rest) + 1 - k)
        /\ o \in Ops(a) /\ o = "deInit" /\ Becomes(a, o, rest, m, c)
        /\ (o = "none" => InCall(o, rest, m, c) = Idle)
    BY <2>6, <2>7, <2>8, <1>1, <1>2, <1>9
  <2> HIDE DEF o
  <2>10. /\ OnPath'
         /\ Op(a)' = o /\ Left(a)' = Len(rest) /\ call'[a].mode = m /\ call'[a].by = c
         /\ \A b \in Actors : b /= a =>
              Op(b)' = Op(b) /\ Left(b)' = Left(b) /\ call'[b] = call[b]
    <3>1. OnPath /\ m \in Modes \cup {NoMode} /\ c \in Callers /\ rest \in Seq(Names)
          /\ (o \in {"prepare", "switch"} => m \in Modes)
      BY <1>1, <2>6, <2>9
    <3>2. QED
      BY <3>1, <2>9, Moving
  <2>11. QED
    BY <2>6, <2>10, <1>2, <1>3, <1>4, <1>9 DEF m, c, o, Fails
<1>10. QED
  BY <1>7, <1>8, <1>9

\* A switch the hardware refuses goes on with the restart of what it stopped.
LEMMA Jumping ==
  ASSUME OnPath, NEW a \in Actors, At(a, "hwSwitch"),
         call' = [call EXCEPT ![a].todo = After("initParams", @)]
  PROVE  /\ OnPath'
         /\ Op(a)' = Op(a) /\ Left(a)' = 5 /\ call'[a].mode = call[a].mode /\ call'[a].by = call[a].by
         /\ \A b \in Actors : b /= a => Op(b)' = Op(b) /\ Left(b)' = Left(b) /\ call'[b] = call[b]
<1> DEFINE todo == call[a].todo
           m == call[a].mode
           c == call[a].by
           o == Op(a)
           l == After("initParams", todo)
<1>1. /\ call[a] \in [op : Ops("app") \cup Ops("cmd"), todo : Seq(Names),
                       mode : Modes \cup {NoMode}, by : Callers]
      /\ todo \in Seq(Names) /\ Left(a) = Len(todo) /\ o = call[a].op
      /\ m \in Modes \cup {NoMode} /\ c \in Callers
  BY DEF OnPath, Left, Op
<1>2. o = "switch" /\ Len(todo) = 8
  BY <1>1, AtStep DEF Is
<1>3. /\ \A i \in 1..8 : todo[i] = Place("switch", 9 - i)
      /\ m \in Modes /\ o \in Ops(a)
  <2>1. /\ Op(a) \in Ops(a) /\ (Op(a) = "switch" => call[a].mode \in Modes)
        /\ \A i \in 1..Left(a) : call[a].todo[i] = Place(Op(a), Left(a) + 1 - i)
    BY DEF OnPath
  <2>2. \A i \in 1..8 : todo[i] = Place(o, 8 + 1 - i)
    BY <1>1, <1>2, <2>1
  <2>3. QED
    BY <1>2, <2>1, <2>2
<1> HIDE DEF todo, m, c, l, o
<1>4. OnlyAt("initParams", todo, 3)
  <2>1. todo[3] = "initParams"
    BY <1>3, Places
  <2>2. ASSUME NEW k \in 1..8, todo[k] = "initParams" PROVE k = 3
    <3>1. 9 - k \in 1..Longest("switch") /\ Place("switch", 9 - k) = "initParams"
      BY <1>3, <2>2 DEF Longest
    <3>2. 9 - k = 6
      BY <3>1, Where
    <3>3. QED
      BY <3>2
  <2>3. QED
    BY <2>1, <2>2, <1>2 DEF OnlyAt
<1>5. /\ l \in Seq(Names) /\ Len(l) = Len(todo) - 3
      /\ \A k \in 1..(Len(todo) - 3) : l[k] = todo[3 + k]
  BY <1>1, <1>4, AfterStep DEF l
<1>6. Len(l) = 5 /\ \A k \in 1..5 : l[k] = todo[3 + k]
  BY <1>2, <1>5
<1>7. \A k \in 1..Len(l) : l[k] = Place(o, Len(l) + 1 - k)
  <2>1. ASSUME NEW k \in 1..5 PROVE l[k] = Place("switch", 6 - k)
    <3>1. 3 + k \in 1..8 /\ 9 - (3 + k) = 6 - k
      OBVIOUS
    <3>2. QED
      BY <3>1, <1>3, <1>6
  <2>2. QED
    BY <2>1, <1>2, <1>6
<1>8. Becomes(a, o, l, m, c)
  <2>1. call' = [call EXCEPT ![a] = [call[a] EXCEPT !.todo = l]]
    BY DEF l, todo
  <2>2. [call[a] EXCEPT !.todo = l] = InCall(o, l, m, c)
    BY <1>1 DEF InCall, m, c
  <2>3. QED
    BY <2>1, <2>2 DEF Becomes
<1>9. /\ Len(l) =< Longest(o) /\ (o \in {"prepare", "switch"} => m \in Modes)
      /\ (o = "none" => InCall(o, l, m, c) = Idle)
      /\ OnPath /\ o \in Ops(a) /\ l \in Seq(Names) /\ m \in Modes \cup {NoMode} /\ c \in Callers
  BY <1>1, <1>2, <1>3, <1>5, <1>6 DEF Longest
<1>10. /\ OnPath'
       /\ Op(a)' = o /\ Left(a)' = Len(l) /\ call'[a].mode = m /\ call'[a].by = c
       /\ \A b \in Actors : b /= a => Op(b)' = Op(b) /\ Left(b)' = Left(b) /\ call'[b] = call[b]
  BY <1>7, <1>8, <1>9, Moving
<1>11. QED
  BY <1>6, <1>10 DEF m, c, o

\* List l is the end of the steps of operation o.
Path(o, l) ==
  /\ l \in Seq(Names) /\ Len(l) =< Longest(o)
  /\ \A i \in 1..Len(l) : l[i] = Place(o, Len(l) + 1 - i)

\* List l is s followed by t.
Joins(l, s, t, m, n) ==
  /\ l \in Seq(Names) /\ Len(l) = m + n
  /\ \A i \in 1..(m + n) : l[i] = IF i =< m THEN s[i] ELSE t[i - m]

\* One list of steps after another.
LEMMA Joined ==
  ASSUME NEW s \in Seq(Names), NEW t \in Seq(Names), NEW m \in Nat, NEW n \in Nat,
         Len(s) = m, Len(t) = n
  PROVE  Joins(s \o t, s, t, m, n)
<1> DEFINE l == s \o t
<1>1. /\ l \in Seq(Names) /\ Len(l) = Len(s) + Len(t)
      /\ \A i \in 1..(Len(s) + Len(t)) : l[i] = IF i =< Len(s) THEN s[i] ELSE t[i - Len(s)]
  BY ConcatProperties
<1> HIDE DEF l
<1>2. /\ l \in Seq(Names) /\ Len(l) = m + n
      /\ \A i \in 1..(m + n) : l[i] = IF i =< m THEN s[i] ELSE t[i - m]
  BY <1>1
<1>3. QED
  BY <1>2 DEF l, Joins

\* The lists of steps a call starts with are those of its operation.
LEMMA Lists ==
  /\ Path("init", InitSteps) /\ Len(InitSteps) = 5
  /\ Path("prepare", PrepareSteps) /\ Len(PrepareSteps) = 4
  /\ Path("start", StartSteps) /\ Len(StartSteps) = 5
  /\ Path("start", RestartSteps) /\ Len(RestartSteps) = 6
  /\ Path("stop", StopSteps) /\ Len(StopSteps) = 5
  /\ Path("deInit", << >> \o DeInitSteps) /\ Len(<< >> \o DeInitSteps) = 5
  /\ Path("deInit", StopSteps \o DeInitSteps) /\ Len(StopSteps \o DeInitSteps) = 10
  /\ Path("switch", SwitchSteps) /\ Len(SwitchSteps) = 12
<1>1. ASSUME NEW i \in 1..5 PROVE i = 1 \/ i = 2 \/ i = 3 \/ i = 4 \/ i = 5
  OBVIOUS
<1>2. /\ InitSteps \in Seq(Names) /\ Len(InitSteps) = 5
      /\ InitSteps[1] = "coreInit" /\ InitSteps[2] = "lumaInit" /\ InitSteps[3] = "hwInit"
      /\ InitSteps[4] = "inited" /\ InitSteps[5] = "cmdStart"
  BY DEF InitSteps, Names
<1>3. Path("init", InitSteps)
  <2>1. \A i \in 1..5 : InitSteps[i] = Place("init", 6 - i)
    BY <1>1, <1>2, Places
  <2>2. QED
    BY <2>1, <1>2 DEF Path, Longest
<1>4. /\ PrepareSteps \in Seq(Names) /\ Len(PrepareSteps) = 4
      /\ PrepareSteps[1] = "hwPrepare" /\ PrepareSteps[2] = "corePrepare"
      /\ PrepareSteps[3] = "initParams" /\ PrepareSteps[4] = "prepared"
  BY DEF PrepareSteps, Names
<1>5. Path("prepare", PrepareSteps)
  <2>1. ASSUME NEW i \in 1..4 PROVE PrepareSteps[i] = Place("prepare", 5 - i)
    <3>1. i = 1 \/ i = 2 \/ i = 3 \/ i = 4
      OBVIOUS
    <3>2. QED
      BY <3>1, <1>4, Places
  <2>2. QED
    BY <2>1, <1>4 DEF Path, Longest
<1>6. /\ StartSteps \in Seq(Names) /\ Len(StartSteps) = 5
      /\ StartSteps[1] = "coreStart" /\ StartSteps[2] = "lumaStart" /\ StartSteps[3] = "hwStart"
      /\ StartSteps[4] = "rstStart" /\ StartSteps[5] = "started"
  BY DEF StartSteps, Names
<1>7. \A i \in 1..5 : StartSteps[i] = Place("start", 6 - i)
  BY <1>1, <1>6, Places
<1>8. Path("start", StartSteps)
  BY <1>6, <1>7 DEF Path, Longest
<1>9. Path("start", RestartSteps) /\ Len(RestartSteps) = 6
  <2> DEFINE one == <<"initParams">>
  <2>1. one \in Seq(Names) /\ Len(one) = 1 /\ one[1] = "initParams"
    BY DEF Names
  <2> HIDE DEF one
  <2>2. /\ RestartSteps \in Seq(Names) /\ Len(RestartSteps) = 6
        /\ \A i \in 1..6 : RestartSteps[i] = IF i =< 1 THEN one[i] ELSE StartSteps[i - 1]
    <3> DEFINE l == one \o StartSteps
    <3>1. Joins(l, one, StartSteps, 1, 5)
      BY <2>1, <1>6, Joined
    <3>2. RestartSteps = l
      BY DEF RestartSteps, one
    <3> HIDE DEF l
    <3>3. QED
      BY <3>1, <3>2 DEF Joins
  <2>3. ASSUME NEW i \in 1..6 PROVE RestartSteps[i] = Place("start", 7 - i)
    <3>1. CASE i = 1
      BY <3>1, <2>1, <2>2, Places
    <3>2. CASE i /= 1
      <4>1. i - 1 \in 1..5 /\ 6 - (i - 1) = 7 - i /\ ~(i =< 1)
        BY <3>2
      <4>2. QED
        BY <4>1, <2>2, <1>7
    <3>3. QED
      BY <3>1, <3>2
  <2>4. QED
    BY <2>2, <2>3 DEF Path, Longest
<1>10. /\ StopSteps \in Seq(Names) /\ Len(StopSteps) = 5
       /\ StopSteps[1] = "rstStop" /\ StopSteps[2] = "coreStop" /\ StopSteps[3] = "lumaStop"
       /\ StopSteps[4] = "hwStop" /\ StopSteps[5] = "stoped"
  BY DEF StopSteps, Names
<1>11. Path("stop", StopSteps)
  <2>1. \A i \in 1..5 : StopSteps[i] = Place("stop", 6 - i)
    BY <1>1, <1>10, Places
  <2>2. QED
    BY <2>1, <1>10 DEF Path, Longest
<1>12. /\ DeInitSteps \in Seq(Names) /\ Len(DeInitSteps) = 5
       /\ DeInitSteps[1] = "cmdStop" /\ DeInitSteps[2] = "coreDeInit"
       /\ DeInitSteps[3] = "lumaDeInit" /\ DeInitSteps[4] = "hwDeInit"
       /\ DeInitSteps[5] = "invalid"
  BY DEF DeInitSteps, Names
<1>13. \A i \in 1..5 : DeInitSteps[i] = Place("deInit", 6 - i)
  BY <1>1, <1>12, Places
<1>14. Path("deInit", << >> \o DeInitSteps) /\ Len(<< >> \o DeInitSteps) = 5
  <2> DEFINE l == << >> \o DeInitSteps
  <2>1. l = DeInitSteps
    BY <1>12, ConcatEmptySeq
  <2> HIDE DEF l
  <2>2. Path("deInit", l) /\ Len(l) = 5
    BY <2>1, <1>12, <1>13 DEF Path, Longest
  <2>3. QED
    BY <2>2 DEF l
<1>15. Path("deInit", StopSteps \o DeInitSteps) /\ Len(StopSteps \o DeInitSteps) = 10
  <2> DEFINE l == StopSteps \o DeInitSteps
  <2>1. /\ l \in Seq(Names) /\ Len(l) = 10
        /\ \A i \in 1..10 : l[i] = IF i =< 5 THEN StopSteps[i] ELSE DeInitSteps[i - 5]
    <3>1. Joins(l, StopSteps, DeInitSteps, 5, 5)
      BY <1>10, <1>12, Joined
    <3> HIDE DEF l
    <3>2. QED
      BY <3>1 DEF Joins
  <2> HIDE DEF l
  <2>2. ASSUME NEW i \in 1..10 PROVE l[i] = Place("deInit", 11 - i)
    <3>1. CASE i =< 5
      <4>1. i = 1 \/ i = 2 \/ i = 3 \/ i = 4 \/ i = 5
        BY <3>1
      <4>2. QED
        BY <3>1, <4>1, <2>1, <1>10, Places
    <3>2. CASE ~(i =< 5)
      <4>1. i - 5 \in 1..5 /\ 6 - (i - 5) = 11 - i
        BY <3>2
      <4>2. QED
        BY <3>2, <4>1, <2>1, <1>13
    <3>3. QED
      BY <3>1, <3>2
  <2>3. Path("deInit", l) /\ Len(l) = 10
    BY <2>1, <2>2 DEF Path, Longest
  <2>4. QED
    BY <2>3 DEF l
<1>16. /\ SwitchSteps \in Seq(Names) /\ Len(SwitchSteps) = 12
       /\ SwitchSteps[1] = "rstStop" /\ SwitchSteps[2] = "coreStop" /\ SwitchSteps[3] = "lumaStop"
       /\ SwitchSteps[4] = "hwPause" /\ SwitchSteps[5] = "hwSwitch"
       /\ SwitchSteps[6] = "corePrepare" /\ SwitchSteps[7] = "initParams"
       /\ SwitchSteps[8] = "hwResume" /\ SwitchSteps[9] = "rstStart"
       /\ SwitchSteps[10] = "coreStart" /\ SwitchSteps[11] = "lumaStart"
       /\ SwitchSteps[12] = "switched"
  BY DEF SwitchSteps, Names
<1>17. Path("switch", SwitchSteps)
  <2>1. ASSUME NEW i \in 1..12 PROVE SwitchSteps[i] = Place("switch", 13 - i)
    <3>1. i = 1 \/ i = 2 \/ i = 3 \/ i = 4 \/ i = 5 \/ i = 6 \/ i = 7 \/ i = 8 \/ i = 9 \/ i = 10
            \/ i = 11 \/ i = 12
      OBVIOUS
    <3>2. QED
      BY <3>1, <1>16, Places
  <2>2. QED
    BY <2>1, <1>16 DEF Path, Longest
<1>18. QED
  BY <1>2, <1>3, <1>4, <1>5, <1>6, <1>8, <1>9, <1>10, <1>11, <1>14, <1>15, <1>16, <1>17

\* A call begins at the place its list of steps says.
Begins(a, o, n, m, c) ==
  /\ OnPath'
  /\ Op(a)' = o /\ Left(a)' = n /\ call'[a].mode = m /\ call'[a].by = c
  /\ \A b \in Actors : b /= a => Op(b)' = Op(b) /\ Left(b)' = Left(b) /\ call'[b] = call[b]

\* So does one that becomes a call with such a list.
LEMMA Beginning ==
  ASSUME OnPath, NEW a \in Actors, NEW o \in Ops(a), o /= "none", NEW l, Path(o, l),
         NEW m \in Modes \cup {NoMode}, NEW c \in Callers,
         o \in {"prepare", "switch"} => m \in Modes,
         Becomes(a, o, l, m, c)
  PROVE  Begins(a, o, Len(l), m, c)
<1>1. /\ l \in Seq(Names) /\ Len(l) =< Longest(o)
      /\ \A i \in 1..Len(l) : l[i] = Place(o, Len(l) + 1 - i)
  BY DEF Path
<1>2. o = "none" => InCall(o, l, m, c) = Idle
  OBVIOUS
<1>3. QED
  BY <1>1, <1>2, Moving DEF Begins

\* A call that returns leaves its actor idle.
LEMMA Returning ==
  ASSUME OnPath, NEW a \in Actors, call' = [call EXCEPT ![a] = Idle]
  PROVE  Begins(a, "none", 0, NoMode, "app")
<1> DEFINE l == << >>
           o == "none"
<1>1. InCall(o, l, NoMode, "app") = Idle
  BY DEF InCall, Idle
<1>2. Becomes(a, o, l, NoMode, "app")
  BY <1>1 DEF Becomes
<1>3. /\ l \in Seq(Names) /\ Len(l) = 0 /\ Len(l) =< Longest(o) /\ o \in Ops(a)
      /\ o \notin {"prepare", "switch"}
  BY DEF Longest, Ops
<1> HIDE DEF l, o
<1>4. \A i \in 1..Len(l) : l[i] = Place(o, Len(l) + 1 - i)
  BY <1>3
<1>5. NoMode \in Modes \cup {NoMode} /\ "app" \in Callers
  OBVIOUS
<1>6. Begins(a, o, Len(l), NoMode, "app")
  BY <1>1, <1>2, <1>3, <1>4, <1>5, Moving DEF Begins
<1>7. QED
  BY <1>3, <1>6 DEF o

-----------------------------------------------------------------------------
(* Types *)

\* A step that is done or skipped moves its call on; one that fails ends it.
LEMMA Steps ==
  ASSUME OnPath, NEW a \in Actors, call[a].todo /= << >>
  PROVE  /\ GoOn(a) => Goes(a) /\ failed' = failed /\ apart' = apart
         /\ GoOnWith(a, TRUE) => Goes(a) /\ failed' = failed /\ apart'
         /\ GoOnWith(a, FALSE) => Goes(a) /\ failed' = failed /\ ~apart'
         /\ Fail(a) => Fails(a)
<1>1. GoOn(a) => Goes(a) /\ failed' = failed /\ apart' = apart
  <2> SUFFICES ASSUME GoOn(a) PROVE Goes(a) /\ failed' = failed /\ apart' = apart
    OBVIOUS
  <2>1. call' = [call EXCEPT ![a].todo = Tail(@)] /\ failed' = failed /\ apart' = apart
    BY DEF GoOn, failures
  <2>2. QED
    BY <2>1, Going
<1>2. GoOnWith(a, TRUE) => Goes(a) /\ failed' = failed /\ apart'
  <2> SUFFICES ASSUME GoOnWith(a, TRUE) PROVE Goes(a) /\ failed' = failed /\ apart'
    OBVIOUS
  <2>1. call' = [call EXCEPT ![a].todo = Tail(@)] /\ failed' = failed /\ apart'
    BY DEF GoOnWith
  <2>2. QED
    BY <2>1, Going
<1>3. GoOnWith(a, FALSE) => Goes(a) /\ failed' = failed /\ ~apart'
  <2> SUFFICES ASSUME GoOnWith(a, FALSE) PROVE Goes(a) /\ failed' = failed /\ ~apart'
    OBVIOUS
  <2>1. call' = [call EXCEPT ![a].todo = Tail(@)] /\ failed' = failed /\ ~apart'
    BY DEF GoOnWith
  <2>2. QED
    BY <2>1, Going
<1>4. QED
  BY <1>1, <1>2, <1>3, Failing

\* A step of a call leaves the commands that wait as they are.
LEMMA TypeKept ==
  ASSUME TypeInv, NEW a \in Actors, Goes(a) \/ Fails(a), PartsTyped',
         UNCHANGED <<polite, requests, waiting, calls>>
  PROVE  TypeInv'
<1>1. OnPath'
  BY DEF Goes, Fails
<1>2. Op("cmd")' = Op("cmd") /\ call'["cmd"].by = call["cmd"].by
  <2>1. Op("cmd") /= "init"
    BY DEF TypeInv, OnPath, Ops
  <2>2. QED
    BY <2>1 DEF Goes, Fails
<1>3. QED
  BY <1>1, <1>2 DEF TypeInv, Answers

\* The types hold at the start.
LEMMA TypeStart == ASSUME Init PROVE TypeInv
<1>1. Idle \in [op : Ops("app") \cup Ops("cmd"), todo : Seq(Names), mode : Modes \cup {NoMode},
                by : Callers] /\ Idle.op = "none" /\ Len(Idle.todo) = 0
  BY DEF Idle, Ops
<1>2. \A a \in Actors : call[a] = Idle /\ Op(a) = "none" /\ Left(a) = 0
  BY <1>1 DEF Init, Op, Left
<1>3. OnPath
  BY <1>1, <1>2 DEF Init, OnPath, Ops, Longest
<1>4. Answers
  BY <1>2 DEF Init, Answers
<1>5. PartsTyped
  <2>1. core \in CoreType /\ hw \in HwType
    BY DEF Init, CoreType, HwType, PartStates
  <2>2. results \in Seq(Result) /\ Len(results) =< MaxResults
    BY ManagerAssumption DEF Init
  <2>3. QED
    BY <2>1, <2>2 DEF Init, PartsTyped, PartStates
<1>6. QED
  BY <1>3, <1>4, <1>5, ManagerAssumption DEF Init, TypeInv

\* Each step of a call keeps the types.
LEMMA TypeStep ==
  ASSUME TypeInv, NEW a \in Actors, Step(a) PROVE TypeInv'
<1>1. CASE CoreInit(a)
  <2>1. Goes(a) \/ Fails(a)
    BY <1>1, Steps DEF CoreInit, At, TypeInv
  <2>2. core' \in CoreType
    BY <1>1 DEF CoreInit, TypeInv, PartsTyped, CoreType, PartStates
  <2>3. PartsTyped' /\ UNCHANGED <<polite, requests, waiting, calls>>
    BY <1>1, <2>2 DEF CoreInit, untouched, others, parts, TypeInv, PartsTyped
  <2>4. QED
    BY <2>1, <2>3, TypeKept
<1>2. CASE CorePrepare(a)
  <2>1. Goes(a) \/ Fails(a)
    BY <1>2, Steps DEF CorePrepare, At, TypeInv
  <2>2. call[a].mode \in Modes \cup {NoMode}
    BY DEF TypeInv, OnPath
  <2>3. core' \in CoreType
    BY <1>2, <2>2 DEF CorePrepare, TypeInv, PartsTyped, CoreType, PartStates
  <2>4. PartsTyped' /\ UNCHANGED <<polite, requests, waiting, calls>>
    BY <1>2, <2>2, <2>3 DEF CorePrepare, untouched, others, parts, TypeInv, PartsTyped
  <2>5. QED
    BY <2>1, <2>4, TypeKept
<1>3. CASE CoreStart(a)
  <2>1. Goes(a) \/ Fails(a)
    BY <1>3, Steps DEF CoreStart, At, TypeInv
  <2>2. core' \in CoreType
    BY <1>3 DEF CoreStart, TypeInv, PartsTyped, CoreType, PartStates
  <2>3. PartsTyped' /\ UNCHANGED <<polite, requests, waiting, calls>>
    BY <1>3, <2>2 DEF CoreStart, untouched, others, parts, TypeInv, PartsTyped
  <2>4. QED
    BY <2>1, <2>3, TypeKept
<1>4. CASE CoreStop(a)
  <2>1. Goes(a) \/ Fails(a)
    BY <1>4, Steps DEF CoreStop, At, TypeInv
  <2>2. core' \in CoreType
    BY <1>4 DEF CoreStop, TypeInv, PartsTyped, CoreType, PartStates
  <2>3. PartsTyped' /\ UNCHANGED <<polite, requests, waiting, calls>>
    BY <1>4, <2>2 DEF CoreStop, untouched, others, parts, TypeInv, PartsTyped
  <2>4. QED
    BY <2>1, <2>3, TypeKept
<1>5. CASE CoreDeInit(a)
  <2>1. Goes(a) \/ Fails(a)
    BY <1>5, Steps DEF CoreDeInit, At, TypeInv
  <2>2. core' \in CoreType
    BY <1>5 DEF CoreDeInit, TypeInv, PartsTyped, CoreType, PartStates
  <2>3. PartsTyped' /\ UNCHANGED <<polite, requests, waiting, calls>>
    BY <1>5, <2>2 DEF CoreDeInit, untouched, others, parts, TypeInv, PartsTyped
  <2>4. QED
    BY <2>1, <2>3, TypeKept
<1>6. CASE LumaInit(a)
  <2>1. Goes(a) \/ Fails(a)
    BY <1>6, Steps DEF LumaInit, At, TypeInv
  <2>2. PartsTyped' /\ UNCHANGED <<polite, requests, waiting, calls>>
    BY <1>6 DEF LumaInit, untouched, others, parts, TypeInv, PartsTyped, PartStates
  <2>3. QED
    BY <2>1, <2>2, TypeKept
<1>7. CASE LumaStart(a)
  <2>1. Goes(a) \/ Fails(a)
    BY <1>7, Steps DEF LumaStart, At, TypeInv
  <2>2. PartsTyped' /\ UNCHANGED <<polite, requests, waiting, calls>>
    BY <1>7 DEF LumaStart, untouched, others, parts, TypeInv, PartsTyped, PartStates
  <2>3. QED
    BY <2>1, <2>2, TypeKept
<1>8. CASE LumaStop(a)
  <2>1. Goes(a) \/ Fails(a)
    BY <1>8, Steps DEF LumaStop, At, TypeInv
  <2>2. PartsTyped' /\ UNCHANGED <<polite, requests, waiting, calls>>
    BY <1>8 DEF LumaStop, untouched, others, parts, TypeInv, PartsTyped, PartStates
  <2>3. QED
    BY <2>1, <2>2, TypeKept
<1>9. CASE LumaDeInit(a)
  <2>1. Goes(a) \/ Fails(a)
    BY <1>9, Steps DEF LumaDeInit, At, TypeInv
  <2>2. PartsTyped' /\ UNCHANGED <<polite, requests, waiting, calls>>
    BY <1>9 DEF LumaDeInit, untouched, others, parts, TypeInv, PartsTyped, PartStates
  <2>3. QED
    BY <2>1, <2>2, TypeKept
<1>10. CASE HwInit(a)
  <2>1. Goes(a) \/ Fails(a)
    BY <1>10, Steps DEF HwInit, At, TypeInv
  <2>2. hw' \in HwType
    BY <1>10 DEF HwInit, TypeInv, PartsTyped, HwType, PartStates
  <2>3. PartsTyped' /\ UNCHANGED <<polite, requests, waiting, calls>>
    BY <1>10, <2>2 DEF HwInit, untouched, others, parts, TypeInv, PartsTyped
  <2>4. QED
    BY <2>1, <2>3, TypeKept
<1>11. CASE HwPrepare(a)
  <2>1. Goes(a) \/ Fails(a)
    BY <1>11, Steps DEF HwPrepare, At, TypeInv
  <2>2. call[a].mode \in Modes \cup {NoMode}
    BY DEF TypeInv, OnPath
  <2>3. hw' \in HwType
    BY <1>11, <2>2 DEF HwPrepare, TypeInv, PartsTyped, HwType, PartStates
  <2>4. PartsTyped' /\ UNCHANGED <<polite, requests, waiting, calls>>
    BY <1>11, <2>2, <2>3 DEF HwPrepare, untouched, others, parts, TypeInv, PartsTyped
  <2>5. QED
    BY <2>1, <2>4, TypeKept
<1>12. CASE InitParams(a)
  <2>1. Goes(a) \/ Fails(a)
    BY <1>12, Steps DEF InitParams, At, TypeInv
  <2>2. hw' \in HwType
    BY <1>12 DEF InitParams, TypeInv, PartsTyped, CoreType, HwType, PartStates
  <2>3. PartsTyped' /\ UNCHANGED <<polite, requests, waiting, calls>>
    BY <1>12, <2>2 DEF InitParams, untouched, others, parts, TypeInv, PartsTyped
  <2>4. QED
    BY <2>1, <2>3, TypeKept
<1>13. CASE HwStart(a)
  <2>1. Goes(a) \/ Fails(a)
    BY <1>13, Steps DEF HwStart, At, TypeInv
  <2>2. hw' \in HwType
    BY <1>13 DEF HwStart, TypeInv, PartsTyped, HwType, PartStates
  <2>3. PartsTyped' /\ UNCHANGED <<polite, requests, waiting, calls>>
    BY <1>13, <2>2 DEF HwStart, untouched, others, parts, TypeInv, PartsTyped
  <2>4. QED
    BY <2>1, <2>3, TypeKept
<1>14. CASE HwStop(a)
  <2>1. Goes(a) \/ Fails(a)
    BY <1>14, Steps DEF HwStop, At, TypeInv
  <2>2. hw' \in HwType
    BY <1>14 DEF HwStop, TypeInv, PartsTyped, HwType, PartStates
  <2>3. PartsTyped' /\ UNCHANGED <<polite, requests, waiting, calls>>
    BY <1>14, <2>2 DEF HwStop, untouched, others, parts, TypeInv, PartsTyped
  <2>4. QED
    BY <2>1, <2>3, TypeKept
<1>15. CASE HwPause(a)
  <2>1. Goes(a) \/ Fails(a)
    BY <1>15, Steps DEF HwPause, At, TypeInv
  <2>2. hw' \in HwType
    BY <1>15 DEF HwPause, TypeInv, PartsTyped, HwType, PartStates
  <2>3. PartsTyped' /\ UNCHANGED <<polite, requests, waiting, calls>>
    BY <1>15, <2>2 DEF HwPause, untouched, others, parts, TypeInv, PartsTyped
  <2>4. QED
    BY <2>1, <2>3, TypeKept
<1>16. CASE HwResume(a)
  <2>1. Goes(a) \/ Fails(a)
    BY <1>16, Steps DEF HwResume, At, TypeInv
  <2>2. hw' \in HwType
    BY <1>16 DEF HwResume, TypeInv, PartsTyped, HwType, PartStates
  <2>3. PartsTyped' /\ UNCHANGED <<polite, requests, waiting, calls>>
    BY <1>16, <2>2 DEF HwResume, untouched, others, parts, TypeInv, PartsTyped
  <2>4. QED
    BY <2>1, <2>3, TypeKept
<1>17. CASE HwDeInit(a)
  <2>1. Goes(a) \/ Fails(a)
    BY <1>17, Steps DEF HwDeInit, At, TypeInv
  <2>2. hw' \in HwType
    BY <1>17 DEF HwDeInit, TypeInv, PartsTyped, HwType, PartStates
  <2>3. PartsTyped' /\ UNCHANGED <<polite, requests, waiting, calls>>
    BY <1>17, <2>2 DEF HwDeInit, untouched, others, parts, TypeInv, PartsTyped
  <2>4. QED
    BY <2>1, <2>3, TypeKept
<1>18. CASE RstStart(a)
  <2>1. Goes(a) \/ Fails(a)
    BY <1>18, Steps DEF RstStart, At, TypeInv
  <2>2. rst' \in BOOLEAN /\ results' \in Seq(Result) /\ Len(results') =< MaxResults
    <3>1. << >> \in Seq(Result) /\ Len(<< >>) =< MaxResults
      BY ManagerAssumption
    <3>2. (results' = << >>) /\ rst' \in BOOLEAN
      BY <1>18 DEF RstStart, TypeInv, PartsTyped
    <3>3. results \in Seq(Result) /\ Len(results) =< MaxResults
      BY DEF TypeInv, PartsTyped
    <3>4. QED
      BY <3>1, <3>2, <3>3
  <2>3. PartsTyped' /\ UNCHANGED <<polite, requests, waiting, calls>>
    BY <1>18, <2>2 DEF RstStart, untouched, others, parts, TypeInv, PartsTyped
  <2>4. QED
    BY <2>1, <2>3, TypeKept
<1>19. CASE RstStop(a)
  <2>1. Goes(a) \/ Fails(a)
    BY <1>19, Steps DEF RstStop, At, TypeInv
  <2>2. rst' \in BOOLEAN /\ results' \in Seq(Result) /\ Len(results') =< MaxResults
    <3>1. << >> \in Seq(Result) /\ Len(<< >>) =< MaxResults
      BY ManagerAssumption
    <3>2. (results' = << >> \/ results' = results) /\ rst' \in BOOLEAN
      BY <1>19 DEF RstStop, TypeInv, PartsTyped
    <3>3. results \in Seq(Result) /\ Len(results) =< MaxResults
      BY DEF TypeInv, PartsTyped
    <3>4. QED
      BY <3>1, <3>2, <3>3
  <2>3. PartsTyped' /\ UNCHANGED <<polite, requests, waiting, calls>>
    BY <1>19, <2>2 DEF RstStop, untouched, others, parts, TypeInv, PartsTyped
  <2>4. QED
    BY <2>1, <2>3, TypeKept
<1>20. CASE CmdStart(a)
  <2>1. Goes(a) \/ Fails(a)
    BY <1>20, Steps DEF CmdStart, At, TypeInv
  <2>2. PartsTyped' /\ UNCHANGED <<polite, requests, waiting, calls>>
    BY <1>20 DEF CmdStart, untouched, others, parts, TypeInv, PartsTyped, PartStates
  <2>3. QED
    BY <2>1, <2>2, TypeKept
<1>21. CASE SetState(a)
  <2>1. call[a].todo /= << >> /\ call' = [call EXCEPT ![a].todo = Tail(@)]
    BY <1>21 DEF SetState, At
  <2>2. Goes(a)
    BY <2>1, Going DEF TypeInv
  <2>3. At(a, "prepared") => call[a].mode \in Modes
    BY AtStep DEF TypeInv, OnPath, Is
  <2>4. PartsTyped' /\ UNCHANGED <<polite, requests, waiting, calls>>
    BY <1>21, <2>3 DEF SetState, others, parts, TypeInv, PartsTyped, PartStates
  <2>5. QED
    BY <2>2, <2>4, TypeKept
<1>22. CASE SetMode(a)
  <2>1. Goes(a) \/ Fails(a)
    BY <1>22, Steps DEF SetMode, At, TypeInv
  <2>2. call[a].mode \in Modes
    BY <1>22, AtStep DEF SetMode, TypeInv, OnPath, Is
  <2>3. PartsTyped' /\ UNCHANGED <<polite, requests, waiting, calls>>
    BY <1>22, <2>2 DEF SetMode, others, parts, TypeInv, PartsTyped
  <2>4. QED
    BY <2>1, <2>3, TypeKept
<1>23. CASE HwSwitch(a)
  <2>1. call[a].mode \in Modes /\ OnPath
    BY <1>23, AtStep DEF HwSwitch, TypeInv, OnPath, Is
  <2>2. PartsTyped' /\ UNCHANGED <<polite, requests, waiting, calls>>
    <3>1. hw' \in HwType
      BY <1>23, <2>1 DEF HwSwitch, TypeInv, PartsTyped, HwType
    <3>2. QED
      BY <1>23, <3>1 DEF HwSwitch, untouched, others, parts, TypeInv, PartsTyped
  <2>3. CASE GoOn(a)
    <3>1. Goes(a)
      BY <1>23, <2>1, <2>3, Steps DEF HwSwitch, At
    <3>2. QED
      BY <2>2, <3>1, TypeKept
  <2>4. CASE ~GoOn(a)
    <3>1. call' = [call EXCEPT ![a].todo = After("initParams", @)] /\ At(a, "hwSwitch")
      BY <1>23, <2>4 DEF HwSwitch
    <3>2. /\ OnPath'
          /\ \A b \in Actors : Op(b)' = Op(b) /\ call'[b].by = call[b].by
      BY <2>1, <3>1, Jumping
    <3>3. QED
      BY <2>2, <3>2 DEF TypeInv, Answers
  <2>5. QED
    BY <2>3, <2>4
<1>24. CASE CmdStop(a)
  <2>1. Goes(a)
    BY <1>24, Steps DEF CmdStop, At, TypeInv
  <2>2. PartsTyped' /\ requests' = << >> /\ UNCHANGED <<polite, waiting, calls>>
    BY <1>24 DEF CmdStop, parts, TypeInv, PartsTyped
  <2>3. QED
    BY <2>1, <2>2 DEF TypeInv, Answers, Goes
<1>25. CASE Return(a)
  <2>1. Begins(a, "none", 0, NoMode, "app")
    BY <1>25, Returning DEF Return, TypeInv
  <2>2. PartsTyped' /\ UNCHANGED <<polite, requests, calls>> /\ waiting' \subseteq Callers
    BY <1>25 DEF Return, parts, TypeInv, PartsTyped
  <2>3. Answers'
    <3>1. CASE a = "cmd"
      <4>1. Op("cmd") = "switch" /\ waiting' = waiting \ {call["cmd"].by} /\ Op("cmd")' = "none"
        BY <1>25, <2>1, <3>1 DEF Return, TypeInv, OnPath, Ops, Op, Begins
      <4>2. QED
        BY <2>2, <4>1 DEF TypeInv, Answers
    <3>2. CASE a /= "cmd"
      <4>1. waiting' = waiting /\ Op("cmd")' = Op("cmd") /\ call'["cmd"] = call["cmd"]
        BY <1>25, <2>1, <3>2 DEF Return, Begins
      <4>2. QED
        BY <2>2, <4>1 DEF TypeInv, Answers
    <3>3. QED
      BY <3>1, <3>2
  <2>4. QED
    BY <2>1, <2>2, <2>3 DEF TypeInv, Begins
<1>26. QED
  BY <1>1, <1>2, <1>3, <1>4, <1>5, <1>6, <1>7, <1>8, <1>9, <1>10, <1>11, <1>12, <1>13, <1>14, <1>15, <1>16, <1>17, <1>18, <1>19, <1>20, <1>21, <1>22, <1>23, <1>24, <1>25 DEF Step

\* A call of the application begins at the first step of its list.
LEMMA AppCalls ==
  ASSUME OnPath, CallInit \/ CallPrepare \/ CallStart \/ CallStop \/ CallDeInit
  PROVE  \/ Begins("app", "init", 5, NoMode, "app") /\ CallInit
         \/ \E m \in Modes : Begins("app", "prepare", 4, m, "app") /\ CallPrepare
         \/ \E n \in {5, 6} : /\ Begins("app", "start", n, NoMode, "app") /\ CallStart
                              /\ state /= "started" /\ (n = 5) = (state /= "stoped")
         \/ Begins("app", "stop", 5, NoMode, "app") /\ CallStop /\ state /= "stoped"
         \/ \E n \in {5, 10} : /\ Begins("app", "deInit", n, NoMode, "app") /\ CallDeInit
                               /\ (n = 10) = (state = "prepared")
         \/ /\ (CallStart /\ state = "started") \/ (CallStop /\ state = "stoped")
            /\ UNCHANGED call
<1> DEFINE L(o, l, m) == call' = [call EXCEPT !["app"] = InCall(o, l, m, "app")]
<1>1. ASSUME NEW o \in Ops("app"), o /= "none", NEW l, Path(o, l), NEW m \in Modes \cup {NoMode},
             o = "prepare" => m \in Modes, L(o, l, m)
      PROVE  Begins("app", o, Len(l), m, "app")
  <2>1. Becomes("app", o, l, m, "app") /\ (o \in {"prepare", "switch"} => m \in Modes)
        /\ "app" \in Actors /\ "app" \in Callers
    BY <1>1 DEF Becomes, Ops
  <2>2. QED
    BY <2>1, <1>1, Beginning
<1>2. NoMode \in Modes \cup {NoMode} /\ {"init", "prepare", "start", "stop", "deInit"} \subseteq Ops("app")
  BY DEF Ops
<1>3. CASE CallInit
  <2>1. L("init", InitSteps, NoMode)
    BY <1>3 DEF CallInit
  <2> HIDE DEF L
  <2>2. QED
    BY <2>1, <1>1, <1>2, <1>3, Lists
<1>4. CASE CallPrepare
  <2>1. PICK m \in Modes : L("prepare", PrepareSteps, m)
    BY <1>4 DEF CallPrepare
  <2> HIDE DEF L
  <2>2. Begins("app", "prepare", 4, m, "app")
    BY <2>1, <1>1, <1>2, Lists
  <2>3. QED
    BY <2>2, <1>4
<1>5. CASE CallStart
  <2>1. CASE state = "started"
    <3>1. UNCHANGED call
      BY <2>1, <1>5 DEF CallStart
    <3> HIDE DEF L
    <3>2. QED
      <4>1. /\ (CallStart /\ state = "started") \/ (CallStop /\ state = "stoped")
            /\ UNCHANGED call
        BY <3>1, <2>1, <1>5
      <4>2. QED
        BY <4>1
  <2>2. CASE state = "stoped"
    <3>1. L("start", RestartSteps, NoMode)
      BY <2>2, <1>5 DEF CallStart
    <3> HIDE DEF L
    <3>2. Begins("app", "start", 6, NoMode, "app")
      BY <3>1, <1>1, <1>2, Lists
    <3>3. QED
      BY <3>2, <2>2, <1>5
  <2>3. CASE state \notin {"started", "stoped"}
    <3>1. L("start", StartSteps, NoMode)
      BY <2>3, <1>5 DEF CallStart
    <3> HIDE DEF L
    <3>2. Begins("app", "start", 5, NoMode, "app")
      BY <3>1, <1>1, <1>2, Lists
    <3>3. QED
      BY <3>2, <2>3, <1>5
  <2>4. QED
    BY <2>1, <2>2, <2>3
<1>6. CASE CallStop
  <2>1. CASE state = "stoped"
    <3>1. UNCHANGED call
      BY <2>1, <1>6 DEF CallStop
    <3> HIDE DEF L
    <3>2. QED
      BY <3>1, <2>1, <1>6
  <2>2. CASE state /= "stoped"
    <3>1. L("stop", StopSteps, NoMode)
      BY <2>2, <1>6 DEF CallStop
    <3> HIDE DEF L
    <3>2. QED
      BY <3>1, <2>2, <1>1, <1>2, <1>6, Lists
  <2>3. QED
    BY <2>1, <2>2
<1>7. CASE CallDeInit
  <2>1. CASE state = "prepared"
    <3>1. L("deInit", StopSteps \o DeInitSteps, NoMode)
      BY <2>1, <1>7 DEF CallDeInit
    <3> HIDE DEF L
    <3>2. Begins("app", "deInit", 10, NoMode, "app")
      BY <3>1, <1>1, <1>2, Lists
    <3>3. QED
      BY <3>2, <2>1, <1>7
  <2>2. CASE state /= "prepared"
    <3>1. L("deInit", << >> \o DeInitSteps, NoMode)
      BY <2>2, <1>7 DEF CallDeInit
    <3> HIDE DEF L
    <3>2. Begins("app", "deInit", 5, NoMode, "app")
      BY <3>1, <1>1, <1>2, Lists
    <3>3. QED
      BY <3>2, <2>2, <1>7
  <2>3. QED
    BY <2>1, <2>2
<1>8. QED
  BY <1>3, <1>4, <1>5, <1>6, <1>7

\* The command thread begins a switch it has to do, or one that is not needed.
LEMMA CmdBegins ==
  ASSUME TypeInv, CmdBegin
  PROVE  \E n \in {0, 12} :
           /\ Begins("cmd", "switch", n, Head(requests).mode, Head(requests).from)
           /\ (n = 12) = (Head(requests).mode /= mode /\ state = "started")
<1> DEFINE m == Head(requests).mode
           c == Head(requests).from
           does == m /= mode /\ state = "started"
           none == << >>
           l == IF does THEN SwitchSteps ELSE none
<1>1. Head(requests) \in [from : Callers, mode : Modes]
  BY HeadTailProperties DEF CmdBegin, TypeInv, Answers
<1>2. m \in Modes /\ c \in Callers
  BY <1>1
<1>3. Path("switch", none) /\ Len(none) = 0
  BY DEF Path, Longest
<1>4. Path("switch", l) /\ Len(l) = IF does THEN 12 ELSE 0
  <2> HIDE DEF none
  <2>1. QED
    BY <1>3, Lists
<1>5. Becomes("cmd", "switch", l, m, c)
  BY DEF CmdBegin, Becomes
<1>6. OnPath /\ "switch" \in Ops("cmd") /\ "cmd" \in Actors
  BY DEF TypeInv, Ops
<1> HIDE DEF m, c, does, l
<1>7. Begins("cmd", "switch", Len(l), m, c)
  BY <1>2, <1>4, <1>5, <1>6, Beginning
<1>8. QED
  BY <1>4, <1>7 DEF m, c, does

\* Every step keeps the types.
LEMMA TypeNext == ASSUME TypeInv, [Next]_vars PROVE TypeInv'
<1>1. CASE CallInit \/ CallPrepare \/ CallStart \/ CallStop \/ CallDeInit
  <2>1. /\ PartsTyped' /\ UNCHANGED <<polite, requests, waiting>> /\ calls' = calls + 1
        /\ calls < MaxCalls
    BY <1>1 DEF CallInit, CallPrepare, CallStart, CallStop, CallDeInit, AppMay, parts, TypeInv, PartsTyped
  <2>2. OnPath' /\ Op("cmd")' = Op("cmd") /\ call'["cmd"].by = call["cmd"].by
    <3>1. OnPath
      BY DEF TypeInv
    <3>2. CASE \E o, n, m, c : Begins("app", o, n, m, c)
      BY <3>2 DEF Begins
    <3>3. CASE UNCHANGED call
      BY <3>1, <3>3 DEF OnPath, Op, Left
    <3>4. QED
      BY <3>1, <3>2, <3>3, <1>1, AppCalls
  <2>3. calls' \in 0..MaxCalls
    BY <2>1, ManagerAssumption DEF TypeInv
  <2>4. QED
    BY <2>1, <2>2, <2>3 DEF TypeInv, Answers
<1>2. ASSUME NEW c \in Callers, Request(c) PROVE TypeInv'
  <2>1. /\ PartsTyped' /\ UNCHANGED <<polite, call>> /\ calls' = calls + 1
        /\ calls < MaxCalls /\ c \notin waiting /\ waiting' = waiting \cup {c}
    BY <1>2 DEF Request, parts, TypeInv, PartsTyped
  <2>2. PICK m \in Modes : requests' = Append(requests, [from |-> c, mode |-> m])
    BY <1>2 DEF Request
  <2> DEFINE r == [from |-> c, mode |-> m]
  <2>3. /\ requests \in Seq([from : Callers, mode : Modes])
        /\ r \in [from : Callers, mode : Modes] /\ r.from = c /\ requests' = Append(requests, r)
    BY <2>2 DEF TypeInv, Answers
  <2> HIDE DEF r
  <2>4. /\ requests' \in Seq([from : Callers, mode : Modes]) /\ Len(requests) \in Nat
        /\ DOMAIN requests = 1..Len(requests) /\ DOMAIN requests' = 1..(Len(requests) + 1)
        /\ \A i \in 1..Len(requests) : requests'[i] = requests[i]
        /\ requests'[Len(requests) + 1] = r
    BY <2>3, AppendProperties
  <2>5. \A i \in DOMAIN requests' : \/ (i = Len(requests) + 1 /\ requests'[i].from = c)
                                 \/ (i \in DOMAIN requests /\ requests'[i] = requests[i])
    BY <2>3, <2>4
  <2>6. OnPath' /\ Op("cmd")' = Op("cmd")
    BY <2>1 DEF TypeInv, OnPath, Op, Left
  <2>7. Answers'
    <3>1. \A i \in DOMAIN requests' : requests'[i].from \in waiting'
      BY <2>1, <2>5 DEF TypeInv, Answers
    <3>2. \A i, j \in DOMAIN requests' : requests'[i].from = requests'[j].from => i = j
      BY <2>1, <2>5 DEF TypeInv, Answers
    <3>3. Op("cmd") = "switch" =>
            /\ call["cmd"].by \in waiting'
            /\ \A i \in DOMAIN requests' : requests'[i].from /= call["cmd"].by
      BY <2>1, <2>5 DEF TypeInv, Answers
    <3>4. QED
      BY <3>1, <3>2, <3>3, <2>1, <2>4, <2>6 DEF Answers
  <2>8. calls' \in 0..MaxCalls
    BY <2>1, ManagerAssumption DEF TypeInv
  <2>9. QED
    BY <2>1, <2>6, <2>7, <2>8 DEF TypeInv
<1>3. CASE CmdBegin
  <2>1. /\ PartsTyped' /\ UNCHANGED <<polite, waiting, calls>>
        /\ requests /= << >> /\ requests' = Tail(requests) /\ call["cmd"] = Idle
    BY <1>3 DEF CmdBegin, parts, TypeInv, PartsTyped
  <2>2. requests \in Seq([from : Callers, mode : Modes])
    BY DEF TypeInv, Answers
  <2>3. /\ requests' \in Seq([from : Callers, mode : Modes]) /\ Len(requests) \in Nat \ {0}
        /\ DOMAIN requests = 1..Len(requests) /\ DOMAIN requests' = 1..(Len(requests) - 1)
        /\ \A i \in 1..(Len(requests) - 1) : requests'[i] = requests[i + 1]
        /\ Head(requests) = requests[1]
    BY <2>1, <2>2, HeadTailProperties, EmptySeq
  <2>4. /\ OnPath' /\ Op("cmd")' = "switch" /\ call'["cmd"].by = requests[1].from
    BY <1>3, <2>3, CmdBegins DEF Begins
  <2>5. \A i \in DOMAIN requests' : i + 1 \in DOMAIN requests /\ requests'[i] = requests[i + 1]
                                /\ i + 1 /= 1
    BY <2>3
  <2>6. 1 \in DOMAIN requests
    BY <2>3
  <2>7. Answers'
    <3>1. /\ \A i \in DOMAIN requests : requests[i].from \in waiting
          /\ \A i, j \in DOMAIN requests : requests[i].from = requests[j].from => i = j
      BY DEF TypeInv, Answers
    <3>2. \A i \in DOMAIN requests' : requests'[i].from \in waiting'
      BY <2>1, <2>5, <3>1
    <3>3. \A i, j \in DOMAIN requests' : requests'[i].from = requests'[j].from => i = j
      <4> SUFFICES ASSUME NEW i \in DOMAIN requests', NEW j \in DOMAIN requests',
                          requests'[i].from = requests'[j].from
                   PROVE i = j
        OBVIOUS
      <4>1. i + 1 = j + 1
        BY <2>5, <3>1
      <4>2. QED
        BY <4>1, <2>3
    <3>4. /\ requests[1].from \in waiting'
          /\ \A i \in DOMAIN requests' : requests'[i].from /= requests[1].from
      BY <2>1, <2>5, <2>6, <3>1
    <3>5. QED
      BY <3>2, <3>3, <3>4, <2>3, <2>4 DEF Answers
  <2>8. QED
    BY <2>1, <2>4, <2>7 DEF TypeInv
<1>4. CASE CalcDone
  <2>1. [run |-> run, mode |-> core.mode] \in Result /\ results \in Seq(Result)
    BY DEF TypeInv, PartsTyped, CoreType, Result
  <2>2. results' = Append(results, [run |-> run, mode |-> core.mode]) /\ Len(results) < MaxResults
    BY <1>4 DEF CalcDone
  <2>3. results' \in Seq(Result) /\ Len(results') =< MaxResults
    BY <2>1, <2>2, AppendProperties, LenProperties, ManagerAssumption
  <2>4. UNCHANGED <<polite, requests, waiting, calls, call, state, mode, core, luma, hw, cmdUp, rst, run>>
    BY <1>4 DEF CalcDone, untouched, others
  <2>5. QED
    BY <2>3, <2>4 DEF TypeInv, PartsTyped, OnPath, Answers, Op, Left
<1>5. CASE Apply
  <2>1. results \in Seq(Result) /\ results /= << >> /\ results' = Tail(results) /\ Len(results) =< MaxResults
    BY <1>5 DEF Apply, TypeInv, PartsTyped
  <2>2. results' \in Seq(Result) /\ Len(results') =< MaxResults
    BY <2>1, HeadTailProperties, LenProperties, ManagerAssumption
  <2>3. UNCHANGED <<polite, requests, waiting, calls, call, state, mode, core, luma, hw, cmdUp, rst, run>>
    BY <1>5 DEF Apply, untouched, others
  <2>4. QED
    BY <2>2, <2>3 DEF TypeInv, PartsTyped, OnPath, Answers, Op, Left
<1>6. CASE UNCHANGED vars
  BY <1>6 DEF vars, parts, failures, TypeInv, PartsTyped, OnPath, Answers, Op, Left
<1>7. QED
  BY <1>1, <1>2, <1>3, <1>4, <1>5, <1>6, TypeStep DEF Next, Call

\* The types of the state hold in every behaviour: each call has its mode and its
\* caller, and every command of the queue has a caller that waits for it.
THEOREM TypeCorrect == FairSpec => []TypeOK
<1>1. TypeInv => TypeOK
  BY DEF TypeInv, TypeOK, OnPath, Answers, PartsTyped, CoreType, HwType
<1>2. QED
  BY <1>1, TypeStart, TypeNext, PTL DEF FairSpec, Spec

-----------------------------------------------------------------------------
(* Polite callers: the steps *)

\* What a call may be.
Operations == {"init", "prepare", "start", "stop", "deInit", "switch"}

\* What a step of operation o makes of the only call under way.
Turned(a, o, n) ==
  /\ Doing = o /\ ToDo = n /\ Wanted = call[a].mode
  /\ Goes(a) => Doing' = o /\ ToDo' = n - 1 /\ Wanted' = Wanted
  /\ Fails(a) =>
       /\ IF o = "init" THEN Doing' = "deInit" ELSE Doing' = o /\ Wanted' = Wanted
       /\ ToDo' = IF o = "init" \/ (o = "deInit" /\ n >= 5) THEN 5 ELSE 0
       /\ failed' <=> failed \/ o /= "prepare"
       /\ apart' <=> apart \/ o \in {"prepare", "switch"}
  /\ (Goes(a) \/ Fails(a)) /\ UNCHANGED <<requests, waiting>> => Alone'

\* The only call under way is still the only one after its step.
LEMMA Turns ==
  ASSUME TypeInv, Alone, NEW a \in Actors, NEW o \in Operations, NEW n \in Nat \ {0}, Is(a, o, n)
  PROVE  Turned(a, o, n)
<1> DEFINE b == IF o = "switch" THEN "app" ELSE "cmd"
<1>1. /\ Op(a) = o /\ Left(a) = n /\ a = (IF o = "switch" THEN "cmd" ELSE "app") /\ b /= a /\ b \in Actors
  BY DEF Operations, Ops, Is, TypeInv, OnPath
<1>2. Op(b) = "none"
  BY DEF Alone, Operations, Ops, Is, TypeInv, OnPath
<1>3. Doing = o /\ ToDo = n /\ Wanted = call[a].mode
  BY <1>1, <1>2 DEF Doing, ToDo, Wanted, Operations
<1>4. ASSUME Goes(a) PROVE Doing' = o /\ ToDo' = n - 1 /\ Wanted' = Wanted
  <2>1. Op(a)' = o /\ Left(a)' = n - 1 /\ Op(b)' = "none" /\ call'[a].mode = call[a].mode
    BY <1>1, <1>2, <1>4 DEF Goes
  <2>2. QED
    BY <2>1, <1>1, <1>3 DEF Doing, ToDo, Wanted, Operations
<1>5. ASSUME Fails(a)
      PROVE  /\ IF o = "init" THEN Doing' = "deInit" ELSE Doing' = o /\ Wanted' = Wanted
             /\ ToDo' = IF o = "init" \/ (o = "deInit" /\ n >= 5) THEN 5 ELSE 0
             /\ failed' <=> failed \/ o /= "prepare"
             /\ apart' <=> apart \/ o \in {"prepare", "switch"}
  <2>1. /\ Op(a)' = (IF o = "init" THEN "deInit" ELSE o) /\ Op(b)' = "none"
        /\ Left(a)' = IF o = "init" \/ (o = "deInit" /\ n >= 5) THEN 5 ELSE 0
        /\ o /= "init" => call'[a].mode = call[a].mode
        /\ failed' <=> failed \/ o /= "prepare"
        /\ apart' <=> apart \/ o \in {"prepare", "switch"}
    BY <1>1, <1>2, <1>5 DEF Fails
  <2>2. QED
    BY <2>1, <1>1, <1>3 DEF Doing, ToDo, Wanted, Operations
<1>6. ASSUME Goes(a) \/ Fails(a), UNCHANGED <<requests, waiting>> PROVE Alone'
  <2>1. \A x \in Actors : Op(x)' = "none" <=> Op(x) = "none"
    BY <1>6, <1>1, <1>2 DEF Goes, Fails
  <2>2. QED
    BY <2>1, <1>6 DEF Alone
<1>7. QED
  BY <1>3, <1>4, <1>5, <1>6 DEF Turned

\* The analyzer is made.
LEMMA CoreInitKeeps ==
  ASSUME TypeInv, Alone, Parts, NEW a \in Actors, CoreInit(a)
  PROVE  Alone' /\ Parts'
<1>1. /\ UNCHANGED <<requests, waiting>>
      /\ UNCHANGED <<state, mode, luma, hw, rst, results, run, calls>>
      /\ Goes(a) /\ failed' = failed /\ apart' = apart
      /\ core'.state = "inited" /\ core'.mode = core.mode
  <2>1. OnPath /\ call[a].todo /= << >> /\ core \in CoreType /\ hw \in HwType
    BY DEF CoreInit, TypeInv, PartsTyped, At
  <2>2. QED
    BY <2>1, Steps DEF CoreInit, untouched, others, parts, CoreType, HwType
<1>2. CASE Is(a, "init", 5)
  <2>1. Turned(a, "init", 5)
    BY <1>2, Turns DEF Operations
  <2>2. QED
    BY <1>1, <2>1 DEF Turned, Parts, In, Over, StateInCall, Stopped, Started, Fresh, SameMode, SameParams,
                       Truth, Running, Quiet
<1>3. QED
  BY <1>2, AtStep DEF CoreInit, TypeInv

\* The analyzer takes the mode of the call, fails with it, or is not asked because it runs.
LEMMA CorePrepareKeeps ==
  ASSUME TypeInv, Alone, Parts, NEW a \in Actors, CorePrepare(a)
  PROVE  Alone' /\ Parts'
<1>1. /\ UNCHANGED <<requests, waiting>>
      /\ UNCHANGED <<state, mode, luma, hw, rst, results, run, calls>>
      /\ \/ /\ core'.state = "prepared" /\ core'.mode = call[a].mode
            /\ Goes(a) /\ failed' = failed /\ ~apart'
         \/ core'.state = core.state /\ core'.mode = call[a].mode /\ Fails(a)
         \/ core' = core /\ Goes(a) /\ failed' = failed /\ apart'
  <2>1. OnPath /\ call[a].todo /= << >> /\ core \in CoreType /\ hw \in HwType
    BY DEF CorePrepare, TypeInv, PartsTyped, At
  <2>2. /\ GoOnWith(a, FALSE) => Goes(a) /\ failed' = failed /\ ~apart'
        /\ GoOnWith(a, TRUE) => Goes(a) /\ failed' = failed /\ apart'
        /\ Fail(a) => Fails(a)
    BY <2>1, Steps
  <2>3. QED
    BY <2>1, <2>2 DEF CorePrepare, untouched, others, CoreType
<1>2. Is(a, "prepare", 3) \/ Is(a, "switch", 7)
  BY AtStep DEF CorePrepare, TypeInv
<1>3. CASE Is(a, "prepare", 3)
  <2>1. Turned(a, "prepare", 3)
    BY <1>3, Turns DEF Operations
  <2>2. QED
    BY <1>1, <2>1 DEF Turned, Parts, In, Over, StateInCall, Stopped, Started, Fresh, SameMode, SameParams,
                       Truth, Running, Quiet
<1>4. CASE Is(a, "switch", 7)
  <2>1. Turned(a, "switch", 7)
    BY <1>4, Turns DEF Operations
  <2>2. QED
    BY <1>1, <2>1 DEF Turned, Parts, In, Over, StateInCall, Stopped, Started, Fresh, SameMode, SameParams,
                       Truth, Running, Quiet
<1>5. QED
  BY <1>3, <1>4, <1>2

\* The analyzer starts a run: no result of an earlier one waits where results are applied.
LEMMA CoreStartKeeps ==
  ASSUME TypeInv, Alone, Parts, NEW a \in Actors, CoreStart(a)
  PROVE  Alone' /\ Parts'
<1>1. /\ UNCHANGED <<requests, waiting>>
      /\ UNCHANGED <<state, mode, luma, hw, rst, results, calls>>
      /\ \/ /\ core.state \in {"prepared", "stoped"}
            /\ core'.state = "started" /\ core'.mode = core.mode /\ run' = run + 1
            /\ Goes(a) /\ failed' = failed /\ apart' = apart
         \/ Fails(a) /\ UNCHANGED <<core, run>>
  <2>1. OnPath /\ call[a].todo /= << >> /\ core \in CoreType /\ hw \in HwType
    BY DEF CoreStart, TypeInv, PartsTyped, At
  <2>2. QED
    BY <2>1, Steps DEF CoreStart, untouched, others, parts, CoreType, HwType
<1>2. Is(a, "start", 5) \/ Is(a, "switch", 3)
  BY AtStep DEF CoreStart, TypeInv
<1>3. CASE Is(a, "start", 5)
  <2>1. Turned(a, "start", 5)
    BY <1>3, Turns DEF Operations
  <2>2. QED
    BY <1>1, <2>1 DEF Turned, Parts, In, Over, StateInCall, Stopped, Started, Fresh, SameMode, SameParams,
                       Truth, Running, Quiet
<1>4. CASE Is(a, "switch", 3)
  <2>1. Turned(a, "switch", 3)
    BY <1>4, Turns DEF Operations
  <2>2. QED
    BY <1>1, <2>1 DEF Turned, Parts, In, Over, StateInCall, Stopped, Started, Fresh, SameMode, SameParams,
                       Truth, Running, Quiet
<1>5. QED
  BY <1>3, <1>4, <1>2

\* The analyzer is stopped.
LEMMA CoreStopKeeps ==
  ASSUME TypeInv, Alone, Parts, NEW a \in Actors, CoreStop(a)
  PROVE  Alone' /\ Parts'
<1>1. /\ UNCHANGED <<requests, waiting>>
      /\ UNCHANGED <<state, mode, luma, hw, rst, results, run, calls>>
      /\ Goes(a) /\ failed' = failed /\ apart' = apart
      /\ core'.state = (IF core.state = "started" THEN "stoped" ELSE core.state) /\ core'.mode = core.mode
  <2>1. OnPath /\ call[a].todo /= << >> /\ core \in CoreType /\ hw \in HwType
    BY DEF CoreStop, TypeInv, PartsTyped, At
  <2>2. QED
    BY <2>1, Steps DEF CoreStop, untouched, others, parts, CoreType, HwType
<1>2. Is(a, "stop", 4) \/ Is(a, "deInit", 9) \/ Is(a, "switch", 11)
  BY AtStep DEF CoreStop, TypeInv
<1>3. CASE Is(a, "stop", 4)
  <2>1. Turned(a, "stop", 4)
    BY <1>3, Turns DEF Operations
  <2>2. QED
    BY <1>1, <2>1 DEF Turned, Parts, In, Over, StateInCall, Stopped, Started, Fresh, SameMode, SameParams,
                       Truth, Running, Quiet
<1>4. CASE Is(a, "deInit", 9)
  <2>1. Turned(a, "deInit", 9)
    BY <1>4, Turns DEF Operations
  <2>2. QED
    BY <1>1, <2>1 DEF Turned, Parts, In, Over, StateInCall, Stopped, Started, Fresh, SameMode, SameParams,
                       Truth, Running, Quiet
<1>5. CASE Is(a, "switch", 11)
  <2>1. Turned(a, "switch", 11)
    BY <1>5, Turns DEF Operations
  <2>2. QED
    BY <1>1, <2>1 DEF Turned, Parts, In, Over, StateInCall, Stopped, Started, Fresh, SameMode, SameParams,
                       Truth, Running, Quiet
<1>6. QED
  BY <1>3, <1>4, <1>5, <1>2

\* The analyzer is given up, unless it runs.
LEMMA CoreDeInitKeeps ==
  ASSUME TypeInv, Alone, Parts, NEW a \in Actors, CoreDeInit(a)
  PROVE  Alone' /\ Parts'
<1>1. /\ UNCHANGED <<requests, waiting>>
      /\ UNCHANGED <<state, mode, luma, hw, rst, results, run, calls>>
      /\ core'.mode = core.mode
      /\ \/ core.state = "started" /\ core'.state = core.state /\ Fails(a)
         \/ core'.state = "invalid" /\ Goes(a) /\ failed' = failed /\ apart' = apart
  <2>1. OnPath /\ call[a].todo /= << >> /\ core \in CoreType /\ hw \in HwType
    BY DEF CoreDeInit, TypeInv, PartsTyped, At
  <2>2. QED
    BY <2>1, Steps DEF CoreDeInit, untouched, others, parts, CoreType, HwType
<1>2. CASE Is(a, "deInit", 4)
  <2>1. Turned(a, "deInit", 4)
    BY <1>2, Turns DEF Operations
  <2>2. QED
    BY <1>1, <2>1 DEF Turned, Parts, In, Over, StateInCall, Stopped, Started, Fresh, SameMode, SameParams,
                       Truth, Running, Quiet
<1>3. QED
  BY <1>2, AtStep DEF CoreDeInit, TypeInv

\* The luma core is made.
LEMMA LumaInitKeeps ==
  ASSUME TypeInv, Alone, Parts, NEW a \in Actors, LumaInit(a)
  PROVE  Alone' /\ Parts'
<1>1. /\ UNCHANGED <<requests, waiting>>
      /\ UNCHANGED <<state, mode, core, hw, rst, results, run, calls>>
      /\ Goes(a) /\ failed' = failed /\ apart' = apart
      /\ luma' = "inited"
  <2>1. OnPath /\ call[a].todo /= << >> /\ core \in CoreType /\ hw \in HwType
    BY DEF LumaInit, TypeInv, PartsTyped, At
  <2>2. QED
    BY <2>1, Steps DEF LumaInit, untouched, others, parts, CoreType, HwType
<1>2. CASE Is(a, "init", 4)
  <2>1. Turned(a, "init", 4)
    BY <1>2, Turns DEF Operations
  <2>2. QED
    BY <1>1, <2>1 DEF Turned, Parts, In, Over, StateInCall, Stopped, Started, Fresh, SameMode, SameParams,
                       Truth, Running, Quiet
<1>3. QED
  BY <1>2, AtStep DEF LumaInit, TypeInv

\* The luma core starts.
LEMMA LumaStartKeeps ==
  ASSUME TypeInv, Alone, Parts, NEW a \in Actors, LumaStart(a)
  PROVE  Alone' /\ Parts'
<1>1. /\ UNCHANGED <<requests, waiting>>
      /\ UNCHANGED <<state, mode, core, hw, rst, results, run, calls>>
      /\ \/ luma' = "started" /\ Goes(a) /\ failed' = failed /\ apart' = apart
         \/ luma' = luma /\ Fails(a)
  <2>1. OnPath /\ call[a].todo /= << >> /\ core \in CoreType /\ hw \in HwType
    BY DEF LumaStart, TypeInv, PartsTyped, At
  <2>2. QED
    BY <2>1, Steps DEF LumaStart, untouched, others, parts, CoreType, HwType
<1>2. Is(a, "start", 4) \/ Is(a, "switch", 2)
  BY AtStep DEF LumaStart, TypeInv
<1>3. CASE Is(a, "start", 4)
  <2>1. Turned(a, "start", 4)
    BY <1>3, Turns DEF Operations
  <2>2. QED
    BY <1>1, <2>1 DEF Turned, Parts, In, Over, StateInCall, Stopped, Started, Fresh, SameMode, SameParams,
                       Truth, Running, Quiet
<1>4. CASE Is(a, "switch", 2)
  <2>1. Turned(a, "switch", 2)
    BY <1>4, Turns DEF Operations
  <2>2. QED
    BY <1>1, <2>1 DEF Turned, Parts, In, Over, StateInCall, Stopped, Started, Fresh, SameMode, SameParams,
                       Truth, Running, Quiet
<1>5. QED
  BY <1>3, <1>4, <1>2

\* The luma core is stopped.
LEMMA LumaStopKeeps ==
  ASSUME TypeInv, Alone, Parts, NEW a \in Actors, LumaStop(a)
  PROVE  Alone' /\ Parts'
<1>1. /\ UNCHANGED <<requests, waiting>>
      /\ UNCHANGED <<state, mode, core, hw, rst, results, run, calls>>
      /\ Goes(a) /\ failed' = failed /\ apart' = apart
      /\ luma' = IF luma = "started" THEN "stoped" ELSE luma
  <2>1. OnPath /\ call[a].todo /= << >> /\ core \in CoreType /\ hw \in HwType
    BY DEF LumaStop, TypeInv, PartsTyped, At
  <2>2. QED
    BY <2>1, Steps DEF LumaStop, untouched, others, parts, CoreType, HwType
<1>2. Is(a, "stop", 3) \/ Is(a, "deInit", 8) \/ Is(a, "switch", 10)
  BY AtStep DEF LumaStop, TypeInv
<1>3. CASE Is(a, "stop", 3)
  <2>1. Turned(a, "stop", 3)
    BY <1>3, Turns DEF Operations
  <2>2. QED
    BY <1>1, <2>1 DEF Turned, Parts, In, Over, StateInCall, Stopped, Started, Fresh, SameMode, SameParams,
                       Truth, Running, Quiet
<1>4. CASE Is(a, "deInit", 8)
  <2>1. Turned(a, "deInit", 8)
    BY <1>4, Turns DEF Operations
  <2>2. QED
    BY <1>1, <2>1 DEF Turned, Parts, In, Over, StateInCall, Stopped, Started, Fresh, SameMode, SameParams,
                       Truth, Running, Quiet
<1>5. CASE Is(a, "switch", 10)
  <2>1. Turned(a, "switch", 10)
    BY <1>5, Turns DEF Operations
  <2>2. QED
    BY <1>1, <2>1 DEF Turned, Parts, In, Over, StateInCall, Stopped, Started, Fresh, SameMode, SameParams,
                       Truth, Running, Quiet
<1>6. QED
  BY <1>3, <1>4, <1>5, <1>2

\* The luma core is given up, unless it runs.
LEMMA LumaDeInitKeeps ==
  ASSUME TypeInv, Alone, Parts, NEW a \in Actors, LumaDeInit(a)
  PROVE  Alone' /\ Parts'
<1>1. /\ UNCHANGED <<requests, waiting>>
      /\ UNCHANGED <<state, mode, core, hw, rst, results, run, calls>>
      /\ \/ luma' = "invalid" /\ Goes(a) /\ failed' = failed /\ apart' = apart
         \/ luma' = luma /\ Fails(a)
  <2>1. OnPath /\ call[a].todo /= << >> /\ core \in CoreType /\ hw \in HwType
    BY DEF LumaDeInit, TypeInv, PartsTyped, At
  <2>2. QED
    BY <2>1, Steps DEF LumaDeInit, untouched, others, parts, CoreType, HwType
<1>2. CASE Is(a, "deInit", 3)
  <2>1. Turned(a, "deInit", 3)
    BY <1>2, Turns DEF Operations
  <2>2. QED
    BY <1>1, <2>1 DEF Turned, Parts, In, Over, StateInCall, Stopped, Started, Fresh, SameMode, SameParams,
                       Truth, Running, Quiet
<1>3. QED
  BY <1>2, AtStep DEF LumaDeInit, TypeInv

\* The hardware is opened.
LEMMA HwInitKeeps ==
  ASSUME TypeInv, Alone, Parts, NEW a \in Actors, HwInit(a)
  PROVE  Alone' /\ Parts'
<1>1. /\ UNCHANGED <<requests, waiting>>
      /\ UNCHANGED <<state, mode, core, luma, rst, results, run, calls>>
      /\ \/ hw'.state = "inited" /\ hw'.on = hw.on /\ hw'.mode = hw.mode /\ hw'.params = hw.params /\ Goes(a) /\ failed' = failed /\ apart' = apart
         \/ hw' = hw /\ Fails(a)
  <2>1. OnPath /\ call[a].todo /= << >> /\ core \in CoreType /\ hw \in HwType
    BY DEF HwInit, TypeInv, PartsTyped, At
  <2>2. QED
    BY <2>1, Steps DEF HwInit, untouched, others, parts, CoreType, HwType
<1>2. CASE Is(a, "init", 3)
  <2>1. Turned(a, "init", 3)
    BY <1>2, Turns DEF Operations
  <2>2. QED
    BY <1>1, <2>1 DEF Turned, Parts, In, Over, StateInCall, Stopped, Started, Fresh, SameMode, SameParams,
                       Truth, Running, Quiet
<1>3. QED
  BY <1>2, AtStep DEF HwInit, TypeInv

\* The hardware takes the mode of the call, even when it fails.
LEMMA HwPrepareKeeps ==
  ASSUME TypeInv, Alone, Parts, NEW a \in Actors, HwPrepare(a)
  PROVE  Alone' /\ Parts'
<1>1. /\ UNCHANGED <<requests, waiting>>
      /\ UNCHANGED <<state, mode, core, luma, rst, results, run, calls>>
      /\ hw'.state \in {hw.state, "prepared"} /\ hw'.mode = call[a].mode
      /\ hw'.on = hw.on /\ hw'.params = hw.params
      /\ (Goes(a) /\ failed' = failed /\ apart' = apart) \/ Fails(a)
  <2>1. OnPath /\ call[a].todo /= << >> /\ core \in CoreType /\ hw \in HwType
    BY DEF HwPrepare, TypeInv, PartsTyped, At
  <2>2. QED
    BY <2>1, Steps DEF HwPrepare, untouched, others, parts, CoreType, HwType
<1>2. CASE Is(a, "prepare", 4)
  <2>1. Turned(a, "prepare", 4)
    BY <1>2, Turns DEF Operations
  <2>2. QED
    BY <1>1, <2>1 DEF Turned, Parts, In, Over, StateInCall, Stopped, Started, Fresh, SameMode, SameParams,
                       Truth, Running, Quiet
<1>3. QED
  BY <1>2, AtStep DEF HwPrepare, TypeInv

\* The hardware gets the initial parameters of the analyzer's mode.
LEMMA InitParamsKeeps ==
  ASSUME TypeInv, Alone, Parts, NEW a \in Actors, InitParams(a)
  PROVE  Alone' /\ Parts'
<1>1. /\ UNCHANGED <<requests, waiting>>
      /\ UNCHANGED <<state, mode, core, luma, rst, results, run, calls>>
      /\ Goes(a) /\ failed' = failed /\ apart' = apart
      /\ hw'.params = core.mode /\ hw'.state = hw.state /\ hw'.on = hw.on /\ hw'.mode = hw.mode
  <2>1. OnPath /\ call[a].todo /= << >> /\ core \in CoreType /\ hw \in HwType
    BY DEF InitParams, TypeInv, PartsTyped, At
  <2>2. QED
    BY <2>1, Steps DEF InitParams, untouched, others, parts, CoreType, HwType
<1>2. Is(a, "prepare", 2) \/ Is(a, "start", 6) \/ Is(a, "switch", 6)
  BY AtStep DEF InitParams, TypeInv
<1>3. CASE Is(a, "prepare", 2)
  <2>1. Turned(a, "prepare", 2)
    BY <1>3, Turns DEF Operations
  <2>2. QED
    BY <1>1, <2>1 DEF Turned, Parts, In, Over, StateInCall, Stopped, Started, Fresh, SameMode, SameParams,
                       Truth, Running, Quiet
<1>4. CASE Is(a, "start", 6)
  <2>1. Turned(a, "start", 6)
    BY <1>4, Turns DEF Operations
  <2>2. QED
    BY <1>1, <2>1 DEF Turned, Parts, In, Over, StateInCall, Stopped, Started, Fresh, SameMode, SameParams,
                       Truth, Running, Quiet
<1>5. CASE Is(a, "switch", 6)
  <2>1. Turned(a, "switch", 6)
    BY <1>5, Turns DEF Operations
  <2>2. QED
    BY <1>1, <2>1 DEF Turned, Parts, In, Over, StateInCall, Stopped, Started, Fresh, SameMode, SameParams,
                       Truth, Running, Quiet
<1>6. QED
  BY <1>3, <1>4, <1>5, <1>2

\* The hardware starts, with or without an error.
LEMMA HwStartKeeps ==
  ASSUME TypeInv, Alone, Parts, NEW a \in Actors, HwStart(a)
  PROVE  Alone' /\ Parts'
<1>1. /\ UNCHANGED <<requests, waiting>>
      /\ UNCHANGED <<state, mode, core, luma, rst, results, run, calls>>
      /\ \/ /\ hw'.state = "started" /\ hw'.on /\ hw'.mode = hw.mode /\ hw'.params = hw.params
            /\ (Goes(a) /\ failed' = failed /\ apart' = apart) \/ Fails(a)
         \/ hw' = hw /\ Fails(a)
  <2>1. OnPath /\ call[a].todo /= << >> /\ core \in CoreType /\ hw \in HwType
    BY DEF HwStart, TypeInv, PartsTyped, At
  <2>2. QED
    BY <2>1, Steps DEF HwStart, untouched, others, parts, CoreType, HwType
<1>2. CASE Is(a, "start", 3)
  <2>1. Turned(a, "start", 3)
    BY <1>2, Turns DEF Operations
  <2>2. QED
    BY <1>1, <2>1 DEF Turned, Parts, In, Over, StateInCall, Stopped, Started, Fresh, SameMode, SameParams,
                       Truth, Running, Quiet
<1>3. QED
  BY <1>2, AtStep DEF HwStart, TypeInv

\* The hardware is stopped, with or without an error.
LEMMA HwStopKeeps ==
  ASSUME TypeInv, Alone, Parts, NEW a \in Actors, HwStop(a)
  PROVE  Alone' /\ Parts'
<1>1. /\ UNCHANGED <<requests, waiting>>
      /\ UNCHANGED <<state, mode, core, luma, rst, results, run, calls>>
      /\ \/ hw.state = "stopped" /\ hw' = hw /\ Goes(a) /\ failed' = failed /\ apart' = apart
         \/ /\ hw'.state = "stopped" /\ ~hw'.on /\ hw'.mode = hw.mode /\ hw'.params = NoMode
            /\ (Goes(a) /\ failed' = failed /\ apart' = apart) \/ Fails(a)
  <2>1. OnPath /\ call[a].todo /= << >> /\ core \in CoreType /\ hw \in HwType
    BY DEF HwStop, TypeInv, PartsTyped, At
  <2>2. QED
    BY <2>1, Steps DEF HwStop, untouched, others, parts, CoreType, HwType
<1>2. Is(a, "stop", 2) \/ Is(a, "deInit", 7)
  BY AtStep DEF HwStop, TypeInv
<1>3. CASE Is(a, "stop", 2)
  <2>1. Turned(a, "stop", 2)
    BY <1>3, Turns DEF Operations
  <2>2. QED
    BY <1>1, <2>1 DEF Turned, Parts, In, Over, StateInCall, Stopped, Started, Fresh, SameMode, SameParams,
                       Truth, Running, Quiet
<1>4. CASE Is(a, "deInit", 7)
  <2>1. Turned(a, "deInit", 7)
    BY <1>4, Turns DEF Operations
  <2>2. QED
    BY <1>1, <2>1 DEF Turned, Parts, In, Over, StateInCall, Stopped, Started, Fresh, SameMode, SameParams,
                       Truth, Running, Quiet
<1>5. QED
  BY <1>3, <1>4, <1>2

\* The hardware pauses.
LEMMA HwPauseKeeps ==
  ASSUME TypeInv, Alone, Parts, NEW a \in Actors, HwPause(a)
  PROVE  Alone' /\ Parts'
<1>1. /\ UNCHANGED <<requests, waiting>>
      /\ UNCHANGED <<state, mode, core, luma, rst, results, run, calls>>
      /\ Goes(a) /\ failed' = failed /\ apart' = apart
      /\ hw'.state = "paused" /\ ~hw'.on /\ hw'.mode = hw.mode /\ hw'.params = NoMode
  <2>1. OnPath /\ call[a].todo /= << >> /\ core \in CoreType /\ hw \in HwType
    BY DEF HwPause, TypeInv, PartsTyped, At
  <2>2. QED
    BY <2>1, Steps DEF HwPause, untouched, others, parts, CoreType, HwType
<1>2. CASE Is(a, "switch", 9)
  <2>1. Turned(a, "switch", 9)
    BY <1>2, Turns DEF Operations
  <2>2. QED
    BY <1>1, <2>1 DEF Turned, Parts, In, Over, StateInCall, Stopped, Started, Fresh, SameMode, SameParams,
                       Truth, Running, Quiet
<1>3. QED
  BY <1>2, AtStep DEF HwPause, TypeInv

\* The hardware goes on, with or without an error.
LEMMA HwResumeKeeps ==
  ASSUME TypeInv, Alone, Parts, NEW a \in Actors, HwResume(a)
  PROVE  Alone' /\ Parts'
<1>1. /\ UNCHANGED <<requests, waiting>>
      /\ UNCHANGED <<state, mode, core, luma, rst, results, run, calls>>
      /\ hw'.state = "started" /\ hw'.on /\ hw'.mode = hw.mode /\ hw'.params = hw.params
      /\ (Goes(a) /\ failed' = failed /\ apart' = apart) \/ Fails(a)
  <2>1. OnPath /\ call[a].todo /= << >> /\ core \in CoreType /\ hw \in HwType
    BY DEF HwResume, TypeInv, PartsTyped, At
  <2>2. QED
    BY <2>1, Steps DEF HwResume, untouched, others, parts, CoreType, HwType
<1>2. CASE Is(a, "switch", 5)
  <2>1. Turned(a, "switch", 5)
    BY <1>2, Turns DEF Operations
  <2>2. QED
    BY <1>1, <2>1 DEF Turned, Parts, In, Over, StateInCall, Stopped, Started, Fresh, SameMode, SameParams,
                       Truth, Running, Quiet
<1>3. QED
  BY <1>2, AtStep DEF HwResume, TypeInv

\* The hardware is closed.
LEMMA HwDeInitKeeps ==
  ASSUME TypeInv, Alone, Parts, NEW a \in Actors, HwDeInit(a)
  PROVE  Alone' /\ Parts'
<1>1. /\ UNCHANGED <<requests, waiting>>
      /\ UNCHANGED <<state, mode, core, luma, rst, results, run, calls>>
      /\ Goes(a) /\ failed' = failed /\ apart' = apart
      /\ hw'.state = "invalid" /\ hw'.on = hw.on /\ hw'.mode = hw.mode /\ hw'.params = hw.params
  <2>1. OnPath /\ call[a].todo /= << >> /\ core \in CoreType /\ hw \in HwType
    BY DEF HwDeInit, TypeInv, PartsTyped, At
  <2>2. QED
    BY <2>1, Steps DEF HwDeInit, untouched, others, parts, CoreType, HwType
<1>2. CASE Is(a, "deInit", 2)
  <2>1. Turned(a, "deInit", 2)
    BY <1>2, Turns DEF Operations
  <2>2. QED
    BY <1>1, <2>1 DEF Turned, Parts, In, Over, StateInCall, Stopped, Started, Fresh, SameMode, SameParams,
                       Truth, Running, Quiet
<1>3. QED
  BY <1>2, AtStep DEF HwDeInit, TypeInv

\* The thread that applies results starts with an empty queue.
LEMMA RstStartKeeps ==
  ASSUME TypeInv, Alone, Parts, NEW a \in Actors, RstStart(a)
  PROVE  Alone' /\ Parts'
<1>1. /\ UNCHANGED <<requests, waiting>>
      /\ UNCHANGED <<state, mode, core, luma, hw, run, calls>>
      /\ results' = << >>
      /\ (rst' /\ Goes(a) /\ failed' = failed /\ apart' = apart) \/ (rst' = rst /\ ~rst /\ Fails(a))
  <2>1. OnPath /\ call[a].todo /= << >> /\ core \in CoreType /\ hw \in HwType
    BY DEF RstStart, TypeInv, PartsTyped, At
  <2>2. QED
    BY <2>1, Steps DEF RstStart, untouched, others, parts, CoreType, HwType
<1>2. Is(a, "start", 2) \/ Is(a, "switch", 4)
  BY AtStep DEF RstStart, TypeInv
<1>3. CASE Is(a, "start", 2)
  <2>1. Turned(a, "start", 2)
    BY <1>3, Turns DEF Operations
  <2>2. QED
    BY <1>1, <2>1 DEF Turned, Parts, In, Over, StateInCall, Stopped, Started, Fresh, SameMode, SameParams,
                       Truth, Running, Quiet
<1>4. CASE Is(a, "switch", 4)
  <2>1. Turned(a, "switch", 4)
    BY <1>4, Turns DEF Operations
  <2>2. QED
    BY <1>1, <2>1 DEF Turned, Parts, In, Over, StateInCall, Stopped, Started, Fresh, SameMode, SameParams,
                       Truth, Running, Quiet
<1>5. QED
  BY <1>3, <1>4, <1>2

\* The thread that applies results is joined.
LEMMA RstStopKeeps ==
  ASSUME TypeInv, Alone, Parts, NEW a \in Actors, RstStop(a)
  PROVE  Alone' /\ Parts'
<1>1. /\ UNCHANGED <<requests, waiting>>
      /\ UNCHANGED <<state, mode, core, luma, hw, run, calls>>
      /\ Goes(a) /\ failed' = failed /\ apart' = apart
      /\ ~rst' /\ results' = IF rst THEN << >> ELSE results
  <2>1. OnPath /\ call[a].todo /= << >> /\ core \in CoreType /\ hw \in HwType
    BY DEF RstStop, TypeInv, PartsTyped, At
  <2>2. QED
    BY <2>1, Steps DEF RstStop, untouched, others, parts, CoreType, HwType
<1>2. Is(a, "stop", 5) \/ Is(a, "deInit", 10) \/ Is(a, "switch", 12)
  BY AtStep DEF RstStop, TypeInv
<1>3. CASE Is(a, "stop", 5)
  <2>1. Turned(a, "stop", 5)
    BY <1>3, Turns DEF Operations
  <2>2. QED
    BY <1>1, <2>1 DEF Turned, Parts, In, Over, StateInCall, Stopped, Started, Fresh, SameMode, SameParams,
                       Truth, Running, Quiet
<1>4. CASE Is(a, "deInit", 10)
  <2>1. Turned(a, "deInit", 10)
    BY <1>4, Turns DEF Operations
  <2>2. QED
    BY <1>1, <2>1 DEF Turned, Parts, In, Over, StateInCall, Stopped, Started, Fresh, SameMode, SameParams,
                       Truth, Running, Quiet
<1>5. CASE Is(a, "switch", 12)
  <2>1. Turned(a, "switch", 12)
    BY <1>5, Turns DEF Operations
  <2>2. QED
    BY <1>1, <2>1 DEF Turned, Parts, In, Over, StateInCall, Stopped, Started, Fresh, SameMode, SameParams,
                       Truth, Running, Quiet
<1>6. QED
  BY <1>3, <1>4, <1>5, <1>2

\* The command thread starts.
LEMMA CmdStartKeeps ==
  ASSUME TypeInv, Alone, Parts, NEW a \in Actors, CmdStart(a)
  PROVE  Alone' /\ Parts'
<1>1. /\ UNCHANGED <<requests, waiting>>
      /\ UNCHANGED <<state, mode, core, luma, hw, rst, results, run, calls>>
      /\ (Goes(a) /\ failed' = failed /\ apart' = apart) \/ Fails(a)
  <2>1. OnPath /\ call[a].todo /= << >> /\ core \in CoreType /\ hw \in HwType
    BY DEF CmdStart, TypeInv, PartsTyped, At
  <2>2. QED
    BY <2>1, Steps DEF CmdStart, untouched, others, parts, CoreType, HwType
<1>2. CASE Is(a, "init", 1)
  <2>1. Turned(a, "init", 1)
    BY <1>2, Turns DEF Operations
  <2>2. QED
    BY <1>1, <2>1 DEF Turned, Parts, In, Over, StateInCall, Stopped, Started, Fresh, SameMode, SameParams,
                       Truth, Running, Quiet
<1>3. QED
  BY <1>2, AtStep DEF CmdStart, TypeInv

\* A switch is over.
LEMMA SetModeKeeps ==
  ASSUME TypeInv, Alone, Parts, NEW a \in Actors, SetMode(a)
  PROVE  Alone' /\ Parts'
<1>1. /\ UNCHANGED <<requests, waiting>>
      /\ UNCHANGED <<state, core, luma, hw, rst, results, run, calls>>
      /\ Goes(a) /\ failed' = failed /\ apart' = apart
      /\ mode' = call[a].mode
  <2>1. OnPath /\ call[a].todo /= << >> /\ core \in CoreType /\ hw \in HwType
    BY DEF SetMode, TypeInv, PartsTyped, At
  <2>2. QED
    BY <2>1, Steps DEF SetMode, untouched, others, parts, CoreType, HwType
<1>2. CASE Is(a, "switch", 1)
  <2>1. Turned(a, "switch", 1)
    BY <1>2, Turns DEF Operations
  <2>2. QED
    BY <1>1, <2>1 DEF Turned, Parts, In, Over, StateInCall, Stopped, Started, Fresh, SameMode, SameParams,
                       Truth, Running, Quiet
<1>3. QED
  BY <1>2, AtStep DEF SetMode, TypeInv

\* _state is set at the end of a call.
LEMMA SetStateKeeps ==
  ASSUME TypeInv, Alone, Parts, NEW a \in Actors, SetState(a)
  PROVE  Alone' /\ Parts'
<1>1. /\ UNCHANGED <<requests, waiting, core, luma, hw, rst, results, run, calls>>
      /\ Goes(a) /\ apart' = apart
  <2>1. OnPath /\ call[a].todo /= << >> /\ call' = [call EXCEPT ![a].todo = Tail(@)]
    BY DEF SetState, TypeInv, At
  <2>2. Goes(a)
    BY <2>1, Going
  <2>3. QED
    BY <2>2 DEF SetState, others, parts
<1>2. \/ Is(a, "init", 2) /\ state' = "inited" /\ mode' = mode /\ (failed' <=> failed)
      \/ Is(a, "prepare", 1) /\ state' = "prepared" /\ mode' = call[a].mode /\ (failed' <=> failed)
      \/ Is(a, "start", 1) /\ state' = "started" /\ mode' = mode /\ (failed' <=> failed)
      \/ (Is(a, "stop", 1) \/ Is(a, "deInit", 6)) /\ state' = "stoped" /\ mode' = mode /\ ~failed'
      \/ Is(a, "deInit", 1) /\ state' = "invalid" /\ mode' = mode /\ (failed' <=> failed)
  <2>1. PICK s \in {"inited", "prepared", "started", "stoped", "invalid"} :
          /\ At(a, s) /\ state' = s
          /\ mode' = IF s = "prepared" THEN call[a].mode ELSE mode
          /\ failed' = (failed /\ s /= "stoped")
    BY DEF SetState
  <2>2. failed' <=> failed /\ s /= "stoped"
    BY <2>1
  <2>3. QED
    BY <2>1, <2>2, AtStep DEF TypeInv
<1>3. CASE Is(a, "init", 2)
  <2>1. Turned(a, "init", 2)
    BY <1>3, Turns DEF Operations
  <2>2. state' = "inited" /\ mode' = mode /\ (failed' <=> failed)
    BY <1>2, <1>3 DEF Is
  <2>3. QED
    BY <1>1, <2>1, <2>2 DEF Turned, Parts, In, Over, StateInCall, Stopped, Started, Fresh, SameMode, SameParams,
                       Truth, Running, Quiet
<1>4. CASE Is(a, "prepare", 1)
  <2>1. Turned(a, "prepare", 1)
    BY <1>4, Turns DEF Operations
  <2>2. state' = "prepared" /\ mode' = call[a].mode /\ (failed' <=> failed)
    BY <1>2, <1>4 DEF Is
  <2>3. QED
    BY <1>1, <2>1, <2>2 DEF Turned, Parts, In, Over, StateInCall, Stopped, Started, Fresh, SameMode, SameParams,
                       Truth, Running, Quiet
<1>5. CASE Is(a, "start", 1)
  <2>1. Turned(a, "start", 1)
    BY <1>5, Turns DEF Operations
  <2>2. state' = "started" /\ mode' = mode /\ (failed' <=> failed)
    BY <1>2, <1>5 DEF Is
  <2>3. QED
    BY <1>1, <2>1, <2>2 DEF Turned, Parts, In, Over, StateInCall, Stopped, Started, Fresh, SameMode, SameParams,
                       Truth, Running, Quiet
<1>6. CASE Is(a, "stop", 1)
  <2>1. Turned(a, "stop", 1)
    BY <1>6, Turns DEF Operations
  <2>2. state' = "stoped" /\ mode' = mode /\ ~failed'
    BY <1>2, <1>6 DEF Is
  <2>3. QED
    BY <1>1, <2>1, <2>2 DEF Turned, Parts, In, Over, StateInCall, Stopped, Started, Fresh, SameMode, SameParams,
                       Truth, Running, Quiet
<1>7. CASE Is(a, "deInit", 6)
  <2>1. Turned(a, "deInit", 6)
    BY <1>7, Turns DEF Operations
  <2>2. state' = "stoped" /\ mode' = mode /\ ~failed'
    BY <1>2, <1>7 DEF Is
  <2>3. QED
    BY <1>1, <2>1, <2>2 DEF Turned, Parts, In, Over, StateInCall, Stopped, Started, Fresh, SameMode, SameParams,
                       Truth, Running, Quiet
<1>8. CASE Is(a, "deInit", 1)
  <2>1. Turned(a, "deInit", 1)
    BY <1>8, Turns DEF Operations
  <2>2. state' = "invalid" /\ mode' = mode /\ (failed' <=> failed)
    BY <1>2, <1>8 DEF Is
  <2>3. QED
    BY <1>1, <2>1, <2>2 DEF Turned, Parts, In, Over, StateInCall, Stopped, Started, Fresh, SameMode, SameParams,
                       Truth, Running, Quiet
<1>9. QED
  BY <1>2, <1>3, <1>4, <1>5, <1>6, <1>7, <1>8

\* The hardware takes the new mode, or refuses it.
LEMMA HwSwitchKeeps ==
  ASSUME TypeInv, Alone, Parts, NEW a \in Actors, HwSwitch(a)
  PROVE  Alone' /\ Parts'
<1>1. OnPath /\ call[a].todo /= << >> /\ hw \in HwType /\ Is(a, "switch", 8)
  BY AtStep DEF HwSwitch, TypeInv, PartsTyped, At
<1>2. UNCHANGED <<requests, waiting, state, mode, core, luma, rst, results, run, calls>>
  BY DEF HwSwitch, untouched, others
<1>3. Turned(a, "switch", 8)
  BY <1>1, Turns DEF Operations
<1>4. CASE GoOn(a) /\ hw' = [hw EXCEPT !.mode = call[a].mode]
  <2>1. /\ Goes(a) /\ failed' = failed /\ apart' = apart
        /\ hw'.mode = call[a].mode /\ hw'.on = hw.on /\ hw'.state = hw.state
    BY <1>1, <1>4, Steps DEF HwType
  <2>2. QED
    BY <1>2, <1>3, <2>1 DEF Turned, Parts, In, Over, StateInCall, Stopped, Started, Fresh, SameMode, SameParams,
                       Truth, Running, Quiet
<1>5. CASE call' = [call EXCEPT ![a].todo = After("initParams", @)] /\ apart' = TRUE
           /\ UNCHANGED <<hw, failed>>
  <2>1. /\ OnPath' /\ Op(a)' = Op(a) /\ Left(a)' = 5 /\ call'[a].mode = call[a].mode
        /\ \A b \in Actors : b /= a => Op(b)' = Op(b)
    BY <1>1, <1>5, Jumping DEF HwSwitch
  <2>2. a = "cmd" /\ Op("app") = "none" /\ Op("cmd") = "switch"
    BY <1>1 DEF Is, TypeInv, OnPath, Ops, Alone
  <2>3. Doing' = "switch" /\ ToDo' = 5 /\ Wanted' = Wanted /\ Alone'
    BY <1>2, <2>1, <2>2 DEF Doing, ToDo, Wanted, Alone
  <2>4. QED
    BY <1>2, <1>3, <1>5, <2>3 DEF Turned, Parts, In, Over, StateInCall, Stopped, Started, Fresh, SameMode, SameParams,
                       Truth, Running, Quiet
<1>6. QED
  BY <1>4, <1>5 DEF HwSwitch

\* The command thread is joined when no command is under way.
LEMMA CmdStopKeeps ==
  ASSUME TypeInv, Alone, Parts, NEW a \in Actors, CmdStop(a)
  PROVE  Alone' /\ Parts'
<1>1. /\ UNCHANGED <<waiting, state, mode, core, luma, hw, rst, results, run, calls>>
      /\ requests' = << >>
      /\ Goes(a) /\ failed' = failed /\ apart' = apart
  BY Steps DEF CmdStop, parts, TypeInv, At
<1>2. Is(a, "deInit", 5)
  BY AtStep DEF CmdStop, TypeInv
<1>3. Turned(a, "deInit", 5)
  BY <1>2, Turns DEF Operations
<1>4. Parts'
  BY <1>1, <1>3 DEF Turned, Parts, In, Over, StateInCall, Stopped, Started, Fresh, SameMode, SameParams,
                       Truth, Running, Quiet
<1>5. Alone'
  <2>1. Len(<< >>) =< 1
    OBVIOUS
  <2>2. QED
    BY <1>1, <2>1 DEF Alone, Goes
<1>6. QED
  BY <1>4, <1>5

\* A call is over.
LEMMA ReturnKeeps ==
  ASSUME TypeInv, Alone, Parts, NEW a \in Actors, Return(a)
  PROVE  Alone' /\ Parts'
<1>1. /\ UNCHANGED <<requests, state, mode, core, luma, hw, rst, results, run, calls, failed, apart>>
      /\ waiting' = IF a = "cmd" THEN waiting \ {call["cmd"].by} ELSE waiting
      /\ Op(a) /= "none" /\ Left(a) = 0
  BY EmptySeq DEF Return, parts, failures, Op, Left
<1>2. Op(a)' = "none" /\ \A b \in Actors : b /= a => Op(b)' = Op(b)
  BY Returning DEF Return, TypeInv, Begins
<1>3. \A b \in Actors : b /= a => Op(b) = "none"
  BY <1>1 DEF Alone
<1>4. Alone'
  <2>1. Op("app")' = "none" /\ Op("cmd")' = "none"
    BY <1>2, <1>3
  <2>2. waiting' = {} => requests = << >>
    BY <1>1 DEF Alone
  <2>3. QED
    BY <1>1, <2>1, <2>2 DEF Alone
<1>5. Doing' = "none" /\ Doing = Op(a) /\ ToDo = 0
  BY <1>1, <1>2, <1>3 DEF Doing, ToDo
<1>6. Op(a) \in {"init", "prepare", "start", "stop", "deInit", "switch"}
  BY <1>1 DEF TypeInv, OnPath, Ops
<1>7. Parts'
  <2>1. StateInCall' /\ Stopped'
    BY <1>1, <1>5, <1>6 DEF Parts, In, StateInCall, Stopped
  <2>2. Started'
    BY <1>1, <1>5, <1>6 DEF Parts, In, Over, StateInCall, Started, Truth, Running, Quiet
  <2>3. Fresh' /\ SameMode'
    BY <1>1, <1>5, <1>6 DEF Parts, In, Fresh, SameMode
  <2>4. SameParams'
    BY <1>1, <1>5, <1>6 DEF Parts, In, Over, StateInCall, Started, SameParams, Truth, Running, Quiet
  <2>5. QED
    BY <2>1, <2>2, <2>3, <2>4 DEF Parts
<1>8. QED
  BY <1>4, <1>7

\* A call of the application begins when no call is under way.
LEMMA CallKeeps ==
  ASSUME TypeInv, Alone, Parts, polite,
         CallInit \/ CallPrepare \/ CallStart \/ CallStop \/ CallDeInit
  PROVE  Alone' /\ Parts'
<1>1. /\ UNCHANGED <<requests, waiting, state, mode, core, luma, hw, rst, results, run, failed, apart>>
      /\ calls' = calls + 1 /\ calls \in Nat
      /\ call["app"] = Idle /\ call["cmd"] = Idle /\ waiting = {}
  <2>1. /\ AppMay /\ calls' = calls + 1
        /\ UNCHANGED <<polite, state, mode, cmdUp, requests, waiting, parts, failures>>
    BY DEF CallInit, CallPrepare, CallStart, CallStop, CallDeInit
  <2>2. calls \in Nat
    BY ManagerAssumption DEF TypeInv
  <2>3. QED
    BY <2>1, <2>2 DEF AppMay, parts, failures
<1>2. Op("app") = "none" /\ Op("cmd") = "none" /\ Doing = "none"
  BY <1>1 DEF Op, Idle, Doing
<1>3. /\ CallInit => state = "invalid"
      /\ CallPrepare => state \in {"inited", "prepared", "stoped"}
      /\ CallDeInit => state \in {"inited", "prepared", "stoped"}
      /\ CallStart => state \in {"prepared", "stoped", "started"}
  BY DEF CallInit, CallPrepare, CallDeInit, CallStart, Parts, StateInCall
<1>4. CASE \E n, m : Begins("app", "init", n, m, "app") /\ CallInit /\ n = 5
  <2>1. Doing' = "init" /\ ToDo' = 5 /\ Op("cmd")' = "none" /\ Op("app")' = "init"
    BY <1>2, <1>4 DEF Begins, Doing, ToDo
  <2>2. QED
    BY <1>1, <1>2, <1>3, <1>4, <2>1 DEF Alone, Parts, In, Over, StateInCall, Stopped, Started, Fresh, SameMode, SameParams,
                       Truth, Running, Quiet
<1>5. CASE \E m \in Modes : Begins("app", "prepare", 4, m, "app") /\ CallPrepare
  <2>1. Doing' = "prepare" /\ ToDo' = 4 /\ Op("cmd")' = "none" /\ Op("app")' = "prepare"
    BY <1>2, <1>5 DEF Begins, Doing, ToDo
  <2>2. QED
    BY <1>1, <1>2, <1>3, <1>5, <2>1 DEF Alone, Parts, In, Over, StateInCall, Stopped, Started, Fresh, SameMode, SameParams,
                       Truth, Running, Quiet
<1>6. CASE \E n \in {5, 6} : /\ Begins("app", "start", n, NoMode, "app") /\ CallStart
                             /\ state /= "started" /\ (n = 5) = (state /= "stoped")
  <2>1. Doing' = "start" /\ Op("cmd")' = "none" /\ Op("app")' = "start" /\ CallStart /\ state /= "started"
        /\ ((ToDo' = 5 /\ state /= "stoped") \/ ToDo' = 6)
    BY <1>2, <1>6 DEF Begins, Doing, ToDo
  <2>2. QED
    BY <1>1, <1>2, <1>3, <2>1 DEF Alone, Parts, In, Over, StateInCall, Stopped, Started, Fresh, SameMode, SameParams,
                       Truth, Running, Quiet
<1>7. CASE Begins("app", "stop", 5, NoMode, "app")
  <2>1. Doing' = "stop" /\ ToDo' = 5 /\ Op("cmd")' = "none" /\ Op("app")' = "stop"
    BY <1>2, <1>7 DEF Begins, Doing, ToDo
  <2>2. QED
    BY <1>1, <1>2, <2>1 DEF Alone, Parts, In, Over, StateInCall, Stopped, Started, Fresh, SameMode, SameParams,
                       Truth, Running, Quiet
<1>8. CASE \E n \in {5, 10} : Begins("app", "deInit", n, NoMode, "app") /\ CallDeInit
  <2>1. Doing' = "deInit" /\ ToDo' \in {5, 10} /\ Op("cmd")' = "none" /\ Op("app")' = "deInit" /\ CallDeInit
    BY <1>2, <1>8 DEF Begins, Doing, ToDo
  <2>2. QED
    BY <1>1, <1>2, <1>3, <2>1 DEF Alone, Parts, In, Over, StateInCall, Stopped, Started, Fresh, SameMode, SameParams,
                       Truth, Running, Quiet
<1>9. CASE UNCHANGED call
  <2>1. Doing' = Doing /\ Op("cmd")' = Op("cmd") /\ Op("app")' = Op("app")
    BY <1>9 DEF Doing, Op
  <2>2. QED
    BY <1>1, <1>2, <2>1 DEF Alone, Parts, In, Over, StateInCall, Stopped, Started, Fresh, SameMode, SameParams,
                       Truth, Running, Quiet
<1>10. QED
  BY <1>4, <1>5, <1>6, <1>7, <1>8, <1>9, AppCalls DEF TypeInv

\* A command is queued when no call is under way.
LEMMA RequestKeeps ==
  ASSUME TypeInv, Alone, Parts, polite, NEW c \in Callers, Request(c)
  PROVE  Alone' /\ Parts'
<1>1. /\ UNCHANGED <<call, state, mode, core, luma, hw, rst, results, run, failed, apart>>
      /\ calls' = calls + 1 /\ calls \in Nat
      /\ call = [a \in Actors |-> Idle] /\ waiting = {} /\ waiting' = {c}
  <2>1. calls \in Nat
    BY ManagerAssumption DEF TypeInv
  <2>2. QED
    BY <2>1 DEF Request, parts, failures
<1>2. PICK m \in Modes : requests' = Append(requests, [from |-> c, mode |-> m])
  BY DEF Request
<1>3. Len(requests') = 1
  <2>1. requests = << >>
    BY <1>1 DEF Alone
  <2>2. << >> \in Seq([from : Callers, mode : Modes]) /\ Len(<< >>) = 0
        /\ [from |-> c, mode |-> m] \in [from : Callers, mode : Modes]
    OBVIOUS
  <2>3. QED
    BY <1>2, <2>1, <2>2, AppendProperties
<1>4. Op("app") = "none" /\ Op("cmd") = "none" /\ Doing = "none"
      /\ Op("app")' = "none" /\ Op("cmd")' = "none" /\ Doing' = "none"
  BY <1>1 DEF Op, Idle, Doing
<1>5. QED
  BY <1>1, <1>3, <1>4 DEF Alone, Parts, In, Over, StateInCall, Stopped, Started, Fresh, SameMode, SameParams,
           Truth, Running, Quiet

\* The command thread takes the only command.
LEMMA CmdBeginKeeps ==
  ASSUME TypeInv, Alone, Parts, CmdBegin
  PROVE  Alone' /\ Parts'
<1>1. /\ UNCHANGED <<waiting, state, mode, core, luma, hw, rst, results, run, calls, failed, apart>>
      /\ requests /= << >> /\ requests' = Tail(requests) /\ Op("cmd") = "none"
  BY DEF CmdBegin, parts, failures, Op, Idle
<1>2. Op("app") = "none"
  BY <1>1 DEF Alone
<1>3. PICK n \in {0, 12} : /\ Op("cmd")' = "switch" /\ Left("cmd")' = n /\ Op("app")' = "none"
                           /\ n = 12 => state = "started"
  BY <1>2, CmdBegins DEF Begins
<1>4. Doing = "none" /\ Doing' = "switch" /\ ToDo' = n
  BY <1>1, <1>2, <1>3 DEF Doing, ToDo
<1>5. requests' = << >> /\ Len(requests') =< 1
  <2>1. requests \in Seq([from : Callers, mode : Modes]) /\ Len(requests) =< 1
    BY DEF TypeInv, Answers, Alone
  <2>2. /\ Tail(requests) \in Seq([from : Callers, mode : Modes])
        /\ Len(Tail(requests)) = Len(requests) - 1
    BY <1>1, <2>1, HeadTailProperties
  <2>3. Len(requests) \in Nat /\ Len(Tail(requests)) \in Nat
    BY <2>1, <2>2, LenProperties
  <2>4. Len(Tail(requests)) = 0
    BY <2>1, <2>2, <2>3
  <2>5. QED
    BY <1>1, <2>2, <2>4, EmptySeq
<1>6. QED
  BY <1>1, <1>3, <1>4, <1>5 DEF Alone, Parts, In, Over, StateInCall, Stopped, Started, Fresh, SameMode, SameParams,
           Truth, Running, Quiet

\* A result is published, or applied, while a call may be under way.
LEMMA ResultKeeps ==
  ASSUME TypeInv, Alone, Parts, CalcDone \/ Apply
  PROVE  Alone' /\ Parts'
<1>1. UNCHANGED <<call, requests, waiting, calls, state, mode, core, luma, hw, rst, run, failed, apart>>
  BY DEF CalcDone, Apply, untouched, others, failures
<1>2. /\ \A a \in Actors : Op(a)' = Op(a)
      /\ Doing' = Doing /\ ToDo' = ToDo /\ Wanted' = Wanted
  BY <1>1 DEF Op, Left, Doing, ToDo, Wanted
<1>3. results \in Seq(Result)
  BY DEF TypeInv, PartsTyped
<1>4. Fresh'
  <2>1. CASE CalcDone
    <3> DEFINE r == [run |-> run, mode |-> core.mode]
    <3>1. r \in Result /\ r.run = run /\ results' = Append(results, r) /\ core.state = "started"
      BY <2>1 DEF CalcDone, TypeInv, PartsTyped, CoreType, Result
    <3> HIDE DEF r
    <3>2. /\ DOMAIN results' = 1..(Len(results) + 1) /\ DOMAIN results = 1..Len(results) /\ Len(results) \in Nat
          /\ \A i \in 1..Len(results) : results'[i] = results[i]
          /\ results'[Len(results) + 1] = r
      BY <1>3, <3>1, AppendProperties
    <3>3. \A i \in DOMAIN results' : \/ i \in DOMAIN results /\ results'[i] = results[i]
                                  \/ results'[i] = r
      BY <3>2
    <3>4. \A i \in DOMAIN results : rst => results[i].run = run
      BY DEF Parts, Fresh
    <3>5. rst' => \A i \in DOMAIN results' : results'[i].run = run'
      BY <1>1, <3>1, <3>3, <3>4
    <3>6. ~In("switch", 3, 10) /\ ~In("switch", 3, 3)
      <4>1. ToDo \in Nat
        BY LenProperties DEF ToDo, Left, TypeInv, OnPath
      <4>2. ~In("switch", 3, 10)
        BY <3>1 DEF Parts, Fresh
      <4>3. QED
        BY <4>1, <4>2 DEF In
    <3>7. In("switch", 3, 10)' = In("switch", 3, 10) /\ In("switch", 3, 3)' = In("switch", 3, 3)
      BY <1>2 DEF In
    <3>8. QED
      BY <3>5, <3>6, <3>7 DEF Fresh
  <2>2. CASE Apply
    <3>1. rst /\ results /= << >> /\ results' = Tail(results)
      BY <2>2 DEF Apply
    <3>2. /\ results' \in Seq(Result) /\ Len(results') = Len(results) - 1 /\ Len(results) \in Nat
          /\ \A i \in 1..Len(results') : results'[i] = results[i + 1]
      BY <1>3, <3>1, HeadTailProperties
    <3>3. \A i \in DOMAIN results' : i + 1 \in DOMAIN results /\ results'[i] = results[i + 1]
      BY <1>3, <3>2
    <3>4. QED
      BY <1>1, <1>2, <3>1, <3>3 DEF Parts, Fresh, In
  <2>3. QED
    BY <2>1, <2>2
<1>5. Alone'
  BY <1>1, <1>2 DEF Alone
<1>6. StateInCall' /\ Stopped' /\ Started' /\ SameMode' /\ SameParams'
  BY <1>1, <1>2 DEF Parts, In, Over, StateInCall, Stopped, Started, Fresh, SameMode, SameParams,
           Truth, Running, Quiet
<1>7. QED
  BY <1>4, <1>5, <1>6 DEF Parts

\* When nothing has been called nothing is under way and nothing runs.
LEMMA PoliteStart == ASSUME Init PROVE PoliteInv
<1>1. \A a \in Actors : Op(a) = "none" /\ Left(a) = 0
  <2>1. Idle.op = "none" /\ Idle.todo = << >> /\ Len(<< >>) = 0
    BY DEF Idle
  <2>2. QED
    BY <2>1 DEF Init, Op, Left
<1>2. Doing = "none"
  BY <1>1 DEF Doing
<1>3. /\ state = "invalid" /\ waiting = {} /\ requests = << >> /\ results = << >> /\ ~rst
      /\ core.state = "invalid" /\ core.mode = NoMode /\ luma = "invalid"
      /\ hw.state = "invalid" /\ ~hw.on /\ hw.mode = NoMode
  BY DEF Init
<1>4. Alone
  <2>1. Len(<< >>) =< 1
    OBVIOUS
  <2>2. QED
    BY <1>1, <1>3, <2>1 DEF Alone
<1>5. Parts
  BY <1>2, <1>3 DEF Parts, In, Over, StateInCall, Stopped, Started, Fresh, SameMode, SameParams,
           Truth, Running, Quiet
<1>6. QED
  BY <1>4, <1>5 DEF PoliteInv

\* Every step of polite callers keeps what is said of the parts.
LEMMA PoliteNext == ASSUME TypeInv, PoliteInv, [Next]_vars PROVE PoliteInv'
<1>1. polite' = polite
  BY DEF Next, Call, Step, vars, SetState, SetMode, Return, CoreInit, CorePrepare, CoreStart, CoreStop, CoreDeInit, LumaInit, LumaStart, LumaStop, LumaDeInit, HwInit, HwPrepare, InitParams, HwStart, HwStop, HwPause, HwSwitch, HwResume, HwDeInit, CmdStart, CmdStop, RstStart, RstStop, CallInit, CallPrepare,
         CallStart, CallStop, CallDeInit, Request, CmdBegin, CalcDone, Apply, untouched, others
<1> SUFFICES ASSUME polite PROVE Alone' /\ Parts'
  BY <1>1 DEF PoliteInv
<1>2. Alone /\ Parts
  BY DEF PoliteInv
<1>3. CASE Call
  BY <1>2, <1>3, CallKeeps, RequestKeeps DEF Call
<1>4. ASSUME NEW a \in Actors, Step(a) PROVE Alone' /\ Parts'
  BY <1>2, <1>4, SetStateKeeps, SetModeKeeps, ReturnKeeps, CoreInitKeeps, CorePrepareKeeps, CoreStartKeeps, CoreStopKeeps, CoreDeInitKeeps, LumaInitKeeps, LumaStartKeeps, LumaStopKeeps, LumaDeInitKeeps, HwInitKeeps, HwPrepareKeeps, InitParamsKeeps, HwStartKeeps, HwStopKeeps, HwPauseKeeps, HwSwitchKeeps, HwResumeKeeps, HwDeInitKeeps, CmdStartKeeps, CmdStopKeeps, RstStartKeeps, RstStopKeeps DEF Step
<1>5. CASE CmdBegin
  BY <1>2, <1>5, CmdBeginKeeps
<1>6. CASE CalcDone \/ Apply
  BY <1>2, <1>6, ResultKeeps
<1>7. CASE UNCHANGED vars
  <2>1. /\ UNCHANGED <<call, requests, waiting, calls, state, mode>>
        /\ UNCHANGED <<core, luma, hw, rst, results, run, failed, apart>>
    BY <1>7 DEF vars, parts, failures
  <2>2. /\ \A a \in Actors : Op(a)' = Op(a)
        /\ Doing' = Doing /\ ToDo' = ToDo /\ Wanted' = Wanted
    BY <2>1 DEF Op, Left, Doing, ToDo, Wanted
  <2>3. Alone'
    BY <1>2, <2>1, <2>2 DEF Alone
  <2>4. QED
    BY <1>2, <2>1, <2>2, <2>3 DEF Parts, In, Over, StateInCall, Stopped, Started, Fresh, SameMode, SameParams,
           Truth, Running, Quiet
<1>8. QED
  BY <1>3, <1>4, <1>5, <1>6, <1>7 DEF Next

\* What is always so.
LEMMA Invariant == FairSpec => [](TypeInv /\ PoliteInv)
<1>1. Init => TypeInv /\ PoliteInv
  BY TypeStart, PoliteStart
<1>2. TypeInv /\ PoliteInv /\ [Next]_vars => (TypeInv /\ PoliteInv)'
  BY TypeNext, PoliteNext
<1>3. QED
  BY <1>1, <1>2, PTL DEF FairSpec, Spec

-----------------------------------------------------------------------------
(* What it means for the camera *)

\* When no call is under way.
LEMMA Resting ==
  ASSUME Rest
  PROVE  Doing = "none" /\ Over /\ \A op \in {"prepare", "switch"}, m, n \in 0..12 : ~In(op, m, n)
<1>1. Op("app") = "none" /\ Op("cmd") = "none"
  BY DEF Rest, Op, Idle
<1>2. QED
  BY <1>1 DEF Doing, Over, In

\* Between two calls the state the manager reports is that of its parts: all of
\* the camera runs in state STARTED and none of it in another, unless a start, a
\* stop or a switch failed half-way.  (RkAiqManager, _state)
THEOREM StateTrue == FairSpec => []StateIsTrue
<1>1. PoliteInv => StateIsTrue
  BY Resting DEF PoliteInv, StateIsTrue, Parts, Started, Truth
<1>2. QED
  BY <1>1, Invariant, PTL

\* The thread that applies results finds none of an earlier run of the analyzer,
\* whatever the analyzer published while that thread was gone: the queue is empty
\* whenever the thread starts, and the analyzer starts no new run before the
\* thread of the run before is joined.  (RkAiqRstApplyThread)
THEOREM NoResultStale == FairSpec => []NoStaleResult
<1>1. PoliteInv => NoStaleResult
  BY DEF PoliteInv, NoStaleResult, Parts, Fresh
<1>2. QED
  BY <1>1, Invariant, PTL

\* While the streams run between two calls, the hardware, the analyzer and the
\* manager are of one mode, and the hardware got initial parameters of that mode.
\* (prepare, start and swWorkingModeDyn)
THEOREM ModesAgreed == FairSpec => []ModesAgree
<1>1. PoliteInv => ModesAgree
  <2> SUFFICES ASSUME PoliteInv, polite, Rest, hw.on, ~apart
               PROVE  /\ hw.mode = core.mode /\ hw.mode = mode
                      /\ hw.params = hw.mode \/ failed
    BY DEF ModesAgree
  <2>1. hw.mode = core.mode /\ mode = core.mode
    BY Resting DEF PoliteInv, Parts, SameMode
  <2>2. ~failed => state = "started"
    BY Resting DEF PoliteInv, Parts, Started, Truth, Quiet
  <2>3. ~failed => hw.params = core.mode
    BY <2>2, Resting DEF PoliteInv, Parts, SameParams
  <2>4. QED
    BY <2>1, <2>3
<1>2. QED
  BY <1>1, Invariant, PTL

\* Only the end of a call sets _state.
LEMMA StateSet ==
  ASSUME [Next]_vars, state' /= state
  PROVE  \E a \in Actors : SetState(a)
BY DEF Next, Call, Step, vars, SetMode, Return, CoreInit, CorePrepare, CoreStart, CoreStop, 
       CoreDeInit, LumaInit, LumaStart, LumaStop, LumaDeInit, HwInit, 
       HwPrepare, InitParams, HwStart, HwStop, HwPause, HwSwitch, HwResume, 
       HwDeInit, CmdStart, CmdStop, RstStart, RstStop,
       CallInit, CallPrepare, CallStart, CallStop, CallDeInit, Request, CmdBegin, CalcDone,
       Apply, untouched, others

\* A stop that succeeds leaves nothing of the camera running, whatever had failed
\* before it, and so does the stop in a deinit: when the state becomes STOPED the
\* analyzer, the luma core, the streams and the thread that applies results have
\* all been stopped.  (RkAiqManager::stop)
THEOREM StopCompletes == FairSpec => StopIsComplete
<1> DEFINE A == polite /\ state' = "stoped" /\ state /= "stoped" => Quiet'
<1>1. ASSUME TypeInv, PoliteInv, [Next]_vars PROVE A
  <2> SUFFICES ASSUME polite, state' = "stoped", state /= "stoped" PROVE Quiet'
    OBVIOUS
  <2>1. PICK a \in Actors : SetState(a)
    BY <1>1, StateSet
  <2>2. At(a, "stoped") /\ UNCHANGED <<core, luma, hw, rst>>
    BY <2>1 DEF SetState, parts
  <2>3. Is(a, "stop", 1) \/ Is(a, "deInit", 6)
    BY <1>1, <2>2, AtStep DEF TypeInv
  <2>4. Alone /\ Parts
    BY <1>1 DEF PoliteInv
  <2>5. \/ Doing = "stop" /\ ToDo = 1
        \/ Doing = "deInit" /\ ToDo = 6
    <3>1. CASE Is(a, "stop", 1)
      BY <1>1, <2>4, <3>1, Turns DEF Turned, Operations
    <3>2. CASE Is(a, "deInit", 6)
      BY <1>1, <2>4, <3>2, Turns DEF Turned, Operations
    <3>3. QED
      BY <2>3, <3>1, <3>2
  <2>6. Quiet
    BY <2>4, <2>5 DEF Parts, StateInCall, Stopped, In, Quiet
  <2>7. QED
    BY <2>2, <2>6 DEF Quiet
<1>2. TypeInv /\ PoliteInv /\ [Next]_vars => [A]_vars
  BY <1>1
<1>3. QED
  BY <1>2, Invariant, PTL DEF FairSpec, Spec, StopIsComplete

\* Only the analyzer's deinit deletes the shared parameters.
LEMMA SharedDeleted ==
  ASSUME TypeInv, [Next]_vars, core.shared, ~core'.shared
  PROVE  \E a \in Actors : CoreDeInit(a)
<1>1. core \in CoreType
  BY DEF TypeInv, PartsTyped
<1>2. ASSUME NEW a \in Actors, CoreInit(a) \/ CorePrepare(a) \/ CoreStart(a) \/ CoreStop(a)
      PROVE  core'.shared
  BY <1>1, <1>2 DEF CoreInit, CorePrepare, CoreStart, CoreStop, CoreType
<1>3. core' = core \/ \E a \in Actors : CoreInit(a) \/ CorePrepare(a) \/ CoreStart(a) \/ CoreStop(a) \/ CoreDeInit(a)
  BY DEF Next, Call, Step, vars, parts, SetState, SetMode, Return, LumaInit, LumaStart, LumaStop, LumaDeInit, HwInit, 
         HwPrepare, InitParams, HwStart, HwStop, HwPause, HwSwitch, HwResume, 
         HwDeInit, CmdStart, CmdStop, RstStart, RstStop,
         CallInit, CallPrepare, CallStart, CallStop, CallDeInit, Request, CmdBegin, CalcDone, Apply
<1>4. QED
  BY <1>2, <1>3

\* The parameters the groups of the analyzer share are deleted when no group
\* runs, unless a call had failed, although deInit() deletes them before it looks
\* at the state of the analyzer.  (RkAiqCore::deInit)
THEOREM SharedParamsUnused == FairSpec => SharedUnused
<1> DEFINE A == polite /\ core.shared /\ ~core'.shared => core.state /= "started" \/ failed
<1>1. ASSUME TypeInv, PoliteInv, [Next]_vars PROVE A
  <2> SUFFICES ASSUME polite, core.shared, ~core'.shared, ~failed PROVE core.state /= "started"
    OBVIOUS
  <2>1. PICK a \in Actors : CoreDeInit(a)
    BY <1>1, SharedDeleted
  <2>2. Is(a, "deInit", 4)
    BY <1>1, <2>1, AtStep DEF TypeInv, CoreDeInit
  <2>3. Alone /\ Parts
    BY <1>1 DEF PoliteInv
  <2>4. Doing = "deInit"
    BY <1>1, <2>2, <2>3, Turns DEF Turned, Operations
  <2>5. QED
    BY <2>3, <2>4 DEF Parts, Started, Quiet
<1>2. TypeInv /\ PoliteInv /\ [Next]_vars => [A]_vars
  BY <1>1
<1>3. QED
  BY <1>2, Invariant, PTL DEF FairSpec, Spec, SharedUnused
-----------------------------------------------------------------------------
(* Who waits is served *)

\* Neither the analyzer nor the luma core runs.
Dark == core.state /= "started" /\ luma /= "started"

\* Who waits has a command that is queued or under way.
Known ==
  \A c \in waiting :
    \/ Op("cmd") /= "none" /\ call["cmd"].by = c
    \/ cmdUp /\ \E i \in DOMAIN requests : requests[i].from = c
    \/ ~polite /\ ~cmdUp

\* Nobody waits before the command thread runs.
Early == calls = 0 \/ Op("app") = "init" => waiting = {}

\* The command thread runs from the end of init() to deInit(); the deinit of an init
\* that failed is not one the application called, and it does not fail.
CmdLife ==
  /\ calls = 0 => Op("app") = "none" /\ Dark
  /\ Op("app") = "init" => Dark /\ (Left("app") = 0 => cmdUp)
  /\ Op("app") = "deInit" /\ last /= "deInit" =>
       /\ Left("app") =< 5 /\ Dark
       /\ Left("app") = 0 => state = "invalid"
  /\ last = "deInit" => Op("app") \in {"none", "deInit"}
  /\ Op("app") \in {"prepare", "start", "stop"} => cmdUp
  /\ Op("app") = "none" /\ last /= "deInit" /\ state /= "invalid" => cmdUp

ServedInv == Known /\ Early /\ (polite => CmdLife)

\* What the steps have in common that neither set _state nor end the call nor start
\* or stop the command thread.
Ordinary(a) ==
  /\ UNCHANGED <<polite, cmdUp, requests, waiting, calls, last, state>>
  /\ \A b \in Actors : b /= a => Op(b)' = Op(b) /\ Left(b)' = Left(b) /\ call'[b] = call[b]
  /\ Op(a) /= "none"
  /\ Op(a) /= "init" => Op(a)' = Op(a) /\ call'[a].by = call[a].by
  /\ Op(a) = "init" => \/ Op(a)' = "init" /\ Left(a)' /= 0
                       \/ Op(a)' = "deInit" /\ Left(a)' = 5
  /\ Op(a) \in {"init", "deInit"} /\ Dark => Dark'
  /\ Op(a) = "deInit" /\ Left(a) =< 5 /\ Dark => Left(a)' \in 1..5

\* Every other step is ordinary.
LEMMA OrdinarySteps ==
  ASSUME TypeInv, NEW a \in Actors, Step(a),
         ~SetState(a), ~Return(a), ~CmdStart(a), ~CmdStop(a)
  PROVE  Ordinary(a)
<1> USE DEF Ordinary, Is, Dark
<1>0. OnPath
  BY DEF TypeInv
<1>1. CASE CoreInit(a)
  <2>1. Goes(a)
    BY <1>0, <1>1, Steps DEF CoreInit, At
  <2>2. At(a, "coreInit") /\ UNCHANGED <<polite, cmdUp, requests, waiting, calls, last, state>>
    BY <1>1 DEF CoreInit, untouched, others
  <2>3. core \in CoreType
    BY DEF TypeInv, PartsTyped
  <2>4. Dark => Dark'
    BY <1>1, <2>3 DEF CoreInit, CoreType
  <2>5. QED
    BY <1>0, <2>1, <2>2, <2>4, AtStep DEF Goes, Fails
<1>2. CASE CorePrepare(a)
  <2>1. Goes(a) \/ Fails(a)
    BY <1>0, <1>2, Steps DEF CorePrepare, At
  <2>2. At(a, "corePrepare") /\ UNCHANGED <<polite, cmdUp, requests, waiting, calls, last, state>>
    BY <1>2 DEF CorePrepare, untouched, others
  <2>3. QED
    BY <1>0, <2>1, <2>2, AtStep DEF Goes, Fails
<1>3. CASE CoreStart(a)
  <2>1. Goes(a) \/ Fails(a)
    BY <1>0, <1>3, Steps DEF CoreStart, At
  <2>2. At(a, "coreStart") /\ UNCHANGED <<polite, cmdUp, requests, waiting, calls, last, state>>
    BY <1>3 DEF CoreStart, untouched, others
  <2>3. QED
    BY <1>0, <2>1, <2>2, AtStep DEF Goes, Fails
<1>4. CASE CoreStop(a)
  <2>1. Goes(a)
    BY <1>0, <1>4, Steps DEF CoreStop, At
  <2>2. At(a, "coreStop") /\ UNCHANGED <<polite, cmdUp, requests, waiting, calls, last, state>>
    BY <1>4 DEF CoreStop, untouched, others
  <2>3. core \in CoreType
    BY DEF TypeInv, PartsTyped
  <2>4. Dark => Dark'
    BY <1>4, <2>3 DEF CoreStop, CoreType
  <2>5. QED
    BY <1>0, <2>1, <2>2, <2>4, AtStep DEF Goes, Fails
<1>5. CASE CoreDeInit(a)
  <2>1. Goes(a) \/ (Fails(a) /\ core.state = "started")
    BY <1>0, <1>5, Steps DEF CoreDeInit, At
  <2>2. At(a, "coreDeInit") /\ UNCHANGED <<polite, cmdUp, requests, waiting, calls, last, state>>
    BY <1>5 DEF CoreDeInit, untouched, others
  <2>3. core \in CoreType
    BY DEF TypeInv, PartsTyped
  <2>4. Dark => Dark'
    BY <1>5, <2>3 DEF CoreDeInit, CoreType
  <2>5. QED
    BY <1>0, <2>1, <2>2, <2>4, AtStep DEF Goes, Fails
<1>6. CASE LumaInit(a)
  <2>1. Goes(a)
    BY <1>0, <1>6, Steps DEF LumaInit, At
  <2>2. At(a, "lumaInit") /\ UNCHANGED <<polite, cmdUp, requests, waiting, calls, last, state>>
    BY <1>6 DEF LumaInit, untouched, others
  <2>3. Dark => Dark'
    BY <1>6 DEF LumaInit
  <2>4. QED
    BY <1>0, <2>1, <2>2, <2>3, AtStep DEF Goes, Fails
<1>7. CASE LumaStart(a)
  <2>1. Goes(a) \/ Fails(a)
    BY <1>0, <1>7, Steps DEF LumaStart, At
  <2>2. At(a, "lumaStart") /\ UNCHANGED <<polite, cmdUp, requests, waiting, calls, last, state>>
    BY <1>7 DEF LumaStart, untouched, others
  <2>3. QED
    BY <1>0, <2>1, <2>2, AtStep DEF Goes, Fails
<1>8. CASE LumaStop(a)
  <2>1. Goes(a)
    BY <1>0, <1>8, Steps DEF LumaStop, At
  <2>2. At(a, "lumaStop") /\ UNCHANGED <<polite, cmdUp, requests, waiting, calls, last, state>>
    BY <1>8 DEF LumaStop, untouched, others
  <2>3. Dark => Dark'
    BY <1>8 DEF LumaStop
  <2>4. QED
    BY <1>0, <2>1, <2>2, <2>3, AtStep DEF Goes, Fails
<1>9. CASE LumaDeInit(a)
  <2>1. Goes(a) \/ (Fails(a) /\ luma = "started")
    BY <1>0, <1>9, Steps DEF LumaDeInit, At
  <2>2. At(a, "lumaDeInit") /\ UNCHANGED <<polite, cmdUp, requests, waiting, calls, last, state>>
    BY <1>9 DEF LumaDeInit, untouched, others
  <2>3. Dark => Dark'
    BY <1>9 DEF LumaDeInit
  <2>4. QED
    BY <1>0, <2>1, <2>2, <2>3, AtStep DEF Goes, Fails
<1>10. CASE HwInit(a)
  <2>1. Goes(a) \/ Fails(a)
    BY <1>0, <1>10, Steps DEF HwInit, At
  <2>2. At(a, "hwInit") /\ UNCHANGED <<polite, cmdUp, requests, waiting, calls, last, state>>
    BY <1>10 DEF HwInit, untouched, others
  <2>3. UNCHANGED <<core, luma>>
    BY <1>10 DEF HwInit, parts
  <2>4. QED
    BY <1>0, <2>1, <2>2, <2>3, AtStep DEF Goes, Fails
<1>11. CASE HwPrepare(a)
  <2>1. Goes(a) \/ Fails(a)
    BY <1>0, <1>11, Steps DEF HwPrepare, At
  <2>2. At(a, "hwPrepare") /\ UNCHANGED <<polite, cmdUp, requests, waiting, calls, last, state>>
    BY <1>11 DEF HwPrepare, untouched, others
  <2>3. UNCHANGED <<core, luma>>
    BY <1>11 DEF HwPrepare, parts
  <2>4. QED
    BY <1>0, <2>1, <2>2, <2>3, AtStep DEF Goes, Fails
<1>12. CASE InitParams(a)
  <2>1. Goes(a)
    BY <1>0, <1>12, Steps DEF InitParams, At
  <2>2. At(a, "initParams") /\ UNCHANGED <<polite, cmdUp, requests, waiting, calls, last, state>>
    BY <1>12 DEF InitParams, untouched, others
  <2>3. UNCHANGED <<core, luma>>
    BY <1>12 DEF InitParams, parts
  <2>4. QED
    BY <1>0, <2>1, <2>2, <2>3, AtStep DEF Goes, Fails
<1>13. CASE HwStart(a)
  <2>1. Goes(a) \/ Fails(a)
    BY <1>0, <1>13, Steps DEF HwStart, At
  <2>2. At(a, "hwStart") /\ UNCHANGED <<polite, cmdUp, requests, waiting, calls, last, state>>
    BY <1>13 DEF HwStart, untouched, others
  <2>3. UNCHANGED <<core, luma>>
    BY <1>13 DEF HwStart, parts
  <2>4. QED
    BY <1>0, <2>1, <2>2, <2>3, AtStep DEF Goes, Fails
<1>14. CASE HwStop(a)
  <2>1. Goes(a) \/ Fails(a)
    BY <1>0, <1>14, Steps DEF HwStop, At
  <2>2. At(a, "hwStop") /\ UNCHANGED <<polite, cmdUp, requests, waiting, calls, last, state>>
    BY <1>14 DEF HwStop, untouched, others
  <2>3. UNCHANGED <<core, luma>>
    BY <1>14 DEF HwStop, parts
  <2>4. QED
    BY <1>0, <2>1, <2>2, <2>3, AtStep DEF Goes, Fails
<1>15. CASE HwPause(a)
  <2>1. Goes(a)
    BY <1>0, <1>15, Steps DEF HwPause, At
  <2>2. At(a, "hwPause") /\ UNCHANGED <<polite, cmdUp, requests, waiting, calls, last, state>>
    BY <1>15 DEF HwPause, untouched, others
  <2>3. UNCHANGED <<core, luma>>
    BY <1>15 DEF HwPause, parts
  <2>4. QED
    BY <1>0, <2>1, <2>2, <2>3, AtStep DEF Goes, Fails
<1>16. CASE HwResume(a)
  <2>1. Goes(a) \/ Fails(a)
    BY <1>0, <1>16, Steps DEF HwResume, At
  <2>2. At(a, "hwResume") /\ UNCHANGED <<polite, cmdUp, requests, waiting, calls, last, state>>
    BY <1>16 DEF HwResume, untouched, others
  <2>3. UNCHANGED <<core, luma>>
    BY <1>16 DEF HwResume, parts
  <2>4. QED
    BY <1>0, <2>1, <2>2, <2>3, AtStep DEF Goes, Fails
<1>17. CASE HwDeInit(a)
  <2>1. Goes(a)
    BY <1>0, <1>17, Steps DEF HwDeInit, At
  <2>2. At(a, "hwDeInit") /\ UNCHANGED <<polite, cmdUp, requests, waiting, calls, last, state>>
    BY <1>17 DEF HwDeInit, untouched, others
  <2>3. UNCHANGED <<core, luma>>
    BY <1>17 DEF HwDeInit, parts
  <2>4. QED
    BY <1>0, <2>1, <2>2, <2>3, AtStep DEF Goes, Fails
<1>18. CASE RstStart(a)
  <2>1. Goes(a) \/ Fails(a)
    BY <1>0, <1>18, Steps DEF RstStart, At
  <2>2. At(a, "rstStart") /\ UNCHANGED <<polite, cmdUp, requests, waiting, calls, last, state>>
    BY <1>18 DEF RstStart, untouched, others
  <2>3. UNCHANGED <<core, luma>>
    BY <1>18 DEF RstStart, parts
  <2>4. QED
    BY <1>0, <2>1, <2>2, <2>3, AtStep DEF Goes, Fails
<1>19. CASE RstStop(a)
  <2>1. Goes(a)
    BY <1>0, <1>19, Steps DEF RstStop, At
  <2>2. At(a, "rstStop") /\ UNCHANGED <<polite, cmdUp, requests, waiting, calls, last, state>>
    BY <1>19 DEF RstStop, untouched, others
  <2>3. UNCHANGED <<core, luma>>
    BY <1>19 DEF RstStop, parts
  <2>4. QED
    BY <1>0, <2>1, <2>2, <2>3, AtStep DEF Goes, Fails
<1>20. CASE SetMode(a)
  <2>1. Goes(a)
    BY <1>0, <1>20, Steps DEF SetMode, At
  <2>2. At(a, "switched") /\ UNCHANGED <<polite, cmdUp, requests, waiting, calls, last, state>>
    BY <1>20 DEF SetMode, untouched, others
  <2>3. UNCHANGED <<core, luma>>
    BY <1>20 DEF SetMode, parts
  <2>4. QED
    BY <1>0, <2>1, <2>2, <2>3, AtStep DEF Goes, Fails
<1>21. CASE HwSwitch(a)
  <2>1. At(a, "hwSwitch") /\ UNCHANGED <<polite, cmdUp, requests, waiting, calls, last, state>>
    BY <1>21 DEF HwSwitch, untouched, others
  <2>2. Is(a, "switch", 8)
    BY <1>0, <2>1, AtStep
  <2>3. CASE GoOn(a)
    <3>1. Goes(a)
      BY <1>0, <2>1, <2>3, Steps DEF At
    <3>2. QED
      BY <2>1, <2>2, <3>1 DEF Goes
  <2>4. CASE ~GoOn(a)
    <3>1. call' = [call EXCEPT ![a].todo = After("initParams", @)]
      BY <1>21, <2>4 DEF HwSwitch
    <3>2. QED
      BY <1>0, <2>1, <2>2, <3>1, Jumping
  <2>5. QED
    BY <2>3, <2>4
<1>22. QED
  BY <1>1, <1>2, <1>3, <1>4, <1>5, <1>6, <1>7, <1>8, <1>9, <1>10, <1>11, <1>12, <1>13, <1>14, <1>15, <1>16, <1>17, <1>18, <1>19, <1>20, <1>21 DEF Step

\* An ordinary step leaves the commands and those that wait for them as they are.
LEMMA OrdinaryServes ==
  ASSUME TypeInv, PoliteInv, ServedInv, NEW a \in Actors, Ordinary(a)
  PROVE  ServedInv'
<1>1. Op("cmd") \in {"none", "switch"}
  BY DEF TypeInv, OnPath, Ops
<1>2. Op("cmd")' = Op("cmd") /\ call'["cmd"].by = call["cmd"].by
  BY <1>1 DEF Ordinary
<1>3. Known'
  BY <1>2 DEF ServedInv, Known, Ordinary
<1>4. Early'
  BY <1>1 DEF ServedInv, Early, Ordinary
<1>5. ASSUME polite PROVE CmdLife'
  <2>1. Alone /\ Parts
    BY <1>5 DEF PoliteInv
  <2>2. calls /= 0
    BY <2>1 DEF Parts, StateInCall, Doing, Ordinary
  <2>3. CASE a = "app"
    BY <1>5, <2>2, <2>3 DEF ServedInv, CmdLife, Ordinary
  <2>4. CASE a = "cmd"
    <3>1. Op("app") = "none"
      BY <2>1, <2>4 DEF Alone, Ordinary
    <3>2. QED
      BY <1>5, <2>2, <2>4, <3>1 DEF ServedInv, CmdLife, Ordinary
  <2>5. QED
    BY <2>3, <2>4
<1>6. QED
  BY <1>3, <1>4, <1>5 DEF ServedInv, Ordinary

\* The ends of calls, and the start and stop of the command thread.
LEMMA OthersServe ==
  ASSUME TypeInv, PoliteInv, ServedInv, NEW a \in Actors,
         SetState(a) \/ Return(a) \/ CmdStart(a) \/ CmdStop(a)
  PROVE  ServedInv'
<1>0. OnPath /\ Op("cmd") \in {"none", "switch"} /\ Op("app") \in Ops("app")
  BY DEF TypeInv, OnPath, Ops
<1>1. polite => Alone /\ Parts
  BY DEF PoliteInv
<1>2. CASE SetState(a)
  <2>1. PICK s \in {"inited", "prepared", "started", "stoped", "invalid"} :
          /\ At(a, s) /\ state' = s
          /\ call' = [call EXCEPT ![a].todo = Tail(@)]
          /\ last' = CASE s = "started" -> "start"
                      [] s = "stoped" /\ call[a].op = "stop" -> "stop"
                      [] OTHER -> last
          /\ UNCHANGED <<polite, cmdUp, requests, waiting, calls, core, luma>>
    BY <1>2 DEF SetState, others, parts
  <2>2. Goes(a)
    BY <1>0, <2>1, Going DEF At
  <2>3. \/ s = "inited" /\ Is(a, "init", 2)
        \/ s = "prepared" /\ Is(a, "prepare", 1)
        \/ s = "started" /\ Is(a, "start", 1)
        \/ s = "stoped" /\ (Is(a, "stop", 1) \/ Is(a, "deInit", 6))
        \/ s = "invalid" /\ Is(a, "deInit", 1)
    BY <1>0, <2>1, AtStep
  <2>4. a = "app"
    BY <1>0, <2>3 DEF Is
  <2>5. /\ Op("app")' = Op("app") /\ Left("app")' = Left("app") - 1
        /\ Op("cmd")' = Op("cmd") /\ call'["cmd"] = call["cmd"]
    BY <2>2, <2>4 DEF Goes
  <2>6. Known' /\ Early'
    BY <2>1, <2>5 DEF ServedInv, Known, Early
  <2>7. ASSUME polite PROVE CmdLife'
    <3>1. calls /= 0
      BY <2>3, <2>4, <2>7 DEF ServedInv, CmdLife, Is
    <3>2. CASE Op("app") = "init"
      BY <2>1, <2>3, <2>4, <2>5, <2>7, <3>1, <3>2 DEF ServedInv, CmdLife, Is, Dark
    <3>3. CASE Op("app") = "deInit"
      <4>1. last' = last
        BY <2>1, <2>3, <2>4, <3>3 DEF Is, Op
      <4>2. QED
        BY <2>1, <2>3, <2>4, <2>5, <2>7, <3>1, <3>3, <4>1 DEF ServedInv, CmdLife, Is, Dark
    <3>4. CASE Op("app") \in {"prepare", "start", "stop"}
      <4>1. last' /= "deInit"
        BY <2>1, <2>7, <3>4 DEF ServedInv, CmdLife
      <4>2. QED
        BY <2>1, <2>5, <2>7, <3>1, <3>4, <4>1 DEF ServedInv, CmdLife
    <3>5. QED
      BY <2>3, <2>4, <3>2, <3>3, <3>4 DEF Is
  <2>8. QED
    BY <2>1, <2>6, <2>7 DEF ServedInv
<1>3. CASE Return(a)
  <2>1. /\ call' = [call EXCEPT ![a] = Idle]
        /\ waiting' = IF a = "cmd" THEN waiting \ {call["cmd"].by} ELSE waiting
        /\ Op(a) /= "none" /\ call[a].todo = << >>
        /\ UNCHANGED <<polite, state, cmdUp, requests, core, luma, calls, last>>
    BY <1>3 DEF Return, parts, Op
  <2>2. Begins(a, "none", 0, NoMode, "app")
    BY <1>0, <2>1, Returning
  <2>3. Left(a) = 0
    BY <2>1 DEF Left
  <2>4. CASE a = "cmd"
    <3>1. /\ Op("app")' = Op("app") /\ Left("app")' = Left("app") /\ Op("cmd")' = "none"
      BY <2>2, <2>4 DEF Begins
    <3>2. Known'
      BY <2>1, <2>4, <3>1 DEF ServedInv, Known
    <3>3. Early'
      BY <2>1, <2>4, <3>1 DEF ServedInv, Early
    <3>4. polite => CmdLife'
      BY <2>1, <3>1 DEF ServedInv, CmdLife, Dark
    <3>5. QED
      BY <2>1, <3>2, <3>3, <3>4 DEF ServedInv
  <2>5. CASE a = "app"
    <3>1. /\ Op("app")' = "none" /\ Op("cmd")' = Op("cmd") /\ call'["cmd"] = call["cmd"]
      BY <2>2, <2>5 DEF Begins
    <3>2. Known'
      BY <2>1, <2>5, <3>1 DEF ServedInv, Known
    <3>3. Early'
      BY <2>1, <2>5, <3>1 DEF ServedInv, Early
    <3>4. polite => CmdLife'
      BY <1>0, <2>1, <2>3, <2>5, <3>1 DEF ServedInv, CmdLife, Dark, Ops
    <3>5. QED
      BY <2>1, <3>2, <3>3, <3>4 DEF ServedInv
  <2>6. QED
    BY <2>4, <2>5
<1>4. CASE CmdStart(a)
  <2>1. /\ Is(a, "init", 1) /\ ((Goes(a) /\ cmdUp') \/ (Fails(a) /\ cmdUp' = cmdUp))
        /\ UNCHANGED <<polite, requests, waiting, calls, last, state, core, luma>>
    BY <1>0, <1>4, AtStep, Steps DEF CmdStart, At, parts
  <2>2. a = "app" /\ waiting = {}
    BY <1>0, <2>1 DEF Is, ServedInv, Early
  <2>3. Known' /\ Early'
    BY <2>1, <2>2 DEF Known, Early
  <2>4. \/ Op("app")' = "init" /\ Left("app")' = 0 /\ cmdUp'
        \/ Op("app")' = "deInit" /\ Left("app")' = 5
    BY <2>1, <2>2 DEF Goes, Fails, Is
  <2>5. polite => CmdLife'
    BY <2>1, <2>2, <2>4 DEF ServedInv, CmdLife, Is, Dark
  <2>6. QED
    BY <2>1, <2>3, <2>5 DEF ServedInv
<1>5. CASE CmdStop(a)
  <2>1. /\ Is(a, "deInit", 5) /\ Goes(a) /\ call["cmd"] = Idle /\ ~cmdUp'
        /\ UNCHANGED <<polite, waiting, calls, last, state, core, luma>>
    BY <1>0, <1>5, AtStep, Steps DEF CmdStop, At, parts
  <2>2. a = "app"
    BY <1>0, <2>1 DEF Is
  <2>3. Op("app")' = "deInit" /\ Left("app")' = 4
    BY <2>1, <2>2 DEF Goes, Is
  <2>4. Known' /\ Early'
    <3>1. polite => waiting = {}
      BY <1>1, <2>1, <2>2 DEF Alone, Is
    <3>2. QED
      BY <2>1, <2>2, <2>3, <3>1 DEF ServedInv, Known, Early
  <2>5. polite => CmdLife'
    BY <2>1, <2>2, <2>3 DEF ServedInv, CmdLife, Is, Dark
  <2>6. QED
    BY <2>1, <2>4, <2>5 DEF ServedInv
<1>6. QED
  BY <1>2, <1>3, <1>4, <1>5

\* A call of the application: who waits goes on waiting for what it did.
LEMMA CallServes ==
  ASSUME TypeInv, PoliteInv, ServedInv,
         CallInit \/ CallPrepare \/ CallStart \/ CallStop \/ CallDeInit
  PROVE  ServedInv'
<1>0. OnPath
  BY DEF TypeInv
<1>1. /\ UNCHANGED <<polite, state, cmdUp, requests, waiting, core, luma>>
      /\ calls \in Nat /\ calls' = calls + 1 /\ last /= "deInit" /\ Op("app") = "none"
      /\ CallInit => calls = 0
  <2>1. calls \in Nat /\ (AppMay => Op("app") = "none" /\ last /= "deInit")
    BY ManagerAssumption DEF TypeInv, AppMay, Idle, Op
  <2>2. QED
    BY <2>1 DEF CallInit, CallPrepare, CallStart, CallStop, CallDeInit, parts
<1>2. \/ Begins("app", "init", 5, NoMode, "app") /\ CallInit
      \/ \E m \in Modes : Begins("app", "prepare", 4, m, "app") /\ CallPrepare
      \/ \E n \in {5, 6} : Begins("app", "start", n, NoMode, "app") /\ CallStart
      \/ Begins("app", "stop", 5, NoMode, "app") /\ CallStop
      \/ \E n \in {5, 10} : Begins("app", "deInit", n, NoMode, "app") /\ CallDeInit
      \/ (CallStart \/ CallStop) /\ UNCHANGED call
  BY <1>0, AppCalls
<1>3. /\ Op("cmd")' = Op("cmd") /\ call'["cmd"].by = call["cmd"].by
      /\ \/ CallInit /\ Op("app")' = "init" /\ Left("app")' = 5
         \/ (CallPrepare \/ CallStart \/ CallStop) /\ Op("app")' \in {"none", "prepare", "start", "stop"}
         \/ CallDeInit /\ Op("app")' = "deInit"
  BY <1>1, <1>2 DEF Begins, Op
<1>4. Known'
  BY <1>1, <1>3 DEF ServedInv, Known
<1>5. Early'
  BY <1>1, <1>3 DEF ServedInv, Early
<1>6. polite => CmdLife'
  <2>1. CASE CallInit /\ Op("app")' = "init" /\ Left("app")' = 5
    <3>1. last' = "none"
      BY <2>1 DEF CallInit
    <3>2. QED
      BY <1>1, <2>1, <3>1 DEF ServedInv, CmdLife, Dark
  <2>2. CASE /\ CallPrepare \/ CallStart \/ CallStop
             /\ Op("app")' \in {"none", "prepare", "start", "stop"}
    <3>1. last' /= "deInit" /\ state /= "invalid"
      BY <2>2 DEF CallPrepare, CallStart, CallStop
    <3>2. QED
      BY <1>1, <2>2, <3>1 DEF ServedInv, CmdLife, Dark
  <2>3. CASE CallDeInit /\ Op("app")' = "deInit"
    BY <1>1, <2>3 DEF ServedInv, CmdLife, Dark, CallDeInit
  <2>4. QED
    BY <1>3, <2>1, <2>2, <2>3
<1>7. QED
  BY <1>1, <1>4, <1>5, <1>6 DEF ServedInv

\* A command goes into the queue with its caller.
LEMMA RequestServes ==
  ASSUME TypeInv, PoliteInv, ServedInv, NEW c \in Callers, Request(c)
  PROVE  ServedInv'
<1>1. /\ UNCHANGED <<polite, state, call, cmdUp, core, luma>>
      /\ calls \in Nat /\ calls' = calls + 1 /\ waiting' = waiting \cup {c}
      /\ Op("app") /= "init" /\ state /= "invalid"
      /\ polite => Op("app") = "none" /\ last /= "deInit"
      /\ last' = IF c = "app" THEN "none" ELSE last
  BY ManagerAssumption DEF Request, TypeInv, parts, Op, Idle
<1>2. PICK m \in Modes : requests' = Append(requests, [from |-> c, mode |-> m])
  BY DEF Request
<1>3. /\ \A i \in DOMAIN requests : i \in DOMAIN requests' /\ requests'[i] = requests[i]
      /\ Len(requests) + 1 \in DOMAIN requests' /\ requests'[Len(requests) + 1].from = c
  <2> DEFINE r == [from |-> c, mode |-> m]
  <2>1. requests \in Seq([from : Callers, mode : Modes]) /\ r \in [from : Callers, mode : Modes]
        /\ r.from = c /\ requests' = Append(requests, r)
    BY <1>2 DEF TypeInv, Answers
  <2> HIDE DEF r
  <2>2. /\ Len(requests) \in Nat /\ DOMAIN requests = 1..Len(requests)
        /\ DOMAIN requests' = 1..(Len(requests) + 1)
        /\ \A i \in 1..Len(requests) : requests'[i] = requests[i]
        /\ requests'[Len(requests) + 1] = r
    BY <2>1, AppendProperties
  <2>3. QED
    BY <2>1, <2>2
<1>4. /\ Op("app")' = Op("app") /\ Left("app")' = Left("app") /\ Op("cmd")' = Op("cmd")
  BY <1>1 DEF Op, Left
<1>5. polite => cmdUp
  BY <1>1 DEF ServedInv, CmdLife
<1>6. Known'
  <2> SUFFICES ASSUME NEW d \in waiting'
               PROVE  \/ Op("cmd") /= "none" /\ call["cmd"].by = d
                      \/ cmdUp /\ \E i \in DOMAIN requests' : requests'[i].from = d
                      \/ ~polite /\ ~cmdUp
    BY <1>1, <1>4 DEF Known
  <2>1. CASE d = c
    BY <1>3, <1>5, <2>1
  <2>2. CASE d \in waiting
    BY <1>3, <2>2 DEF ServedInv, Known
  <2>3. QED
    BY <1>1, <2>1, <2>2
<1>7. Early'
  BY <1>1, <1>4 DEF Early
<1>8. polite => CmdLife'
  BY <1>1, <1>4, <1>5 DEF ServedInv, CmdLife
<1>9. QED
  BY <1>1, <1>6, <1>7, <1>8 DEF ServedInv

\* The command thread takes the oldest command: its caller waits for what it does.
LEMMA CmdBeginServes ==
  ASSUME TypeInv, PoliteInv, ServedInv, CmdBegin
  PROVE  ServedInv'
<1>1. /\ UNCHANGED <<polite, state, cmdUp, waiting, calls, last, core, luma>>
      /\ cmdUp /\ call["cmd"] = Idle /\ requests /= << >> /\ requests' = Tail(requests)
  BY DEF CmdBegin, parts
<1>2. /\ Op("cmd")' = "switch" /\ call'["cmd"].by = Head(requests).from
      /\ Op("app")' = Op("app") /\ Left("app")' = Left("app")
  BY CmdBegins DEF Begins
<1>3. Known'
  <2> SUFFICES ASSUME NEW c \in waiting
               PROVE  \/ Head(requests).from = c
                      \/ \E i \in DOMAIN requests' : requests'[i].from = c
    BY <1>1, <1>2 DEF Known
  <2>1. PICK i \in DOMAIN requests : requests[i].from = c
    BY <1>1 DEF ServedInv, Known, Op, Idle
  <2>2. CASE i = 1
    BY <1>1, <2>1, <2>2 DEF TypeInv, Answers
  <2>3. CASE i /= 1
    <3>1. i - 1 \in DOMAIN requests' /\ requests'[i - 1] = requests[i]
      <4>1. requests \in Seq([from : Callers, mode : Modes])
        BY DEF TypeInv, Answers
      <4>2. /\ Len(requests) \in Nat /\ i \in 1..Len(requests)
            /\ Len(requests') = Len(requests) - 1 /\ DOMAIN requests' = 1..(Len(requests) - 1)
            /\ \A k \in 1..(Len(requests) - 1) : requests'[k] = requests[k + 1]
        BY <1>1, <2>1, <4>1, HeadTailProperties
      <4>3. i - 1 \in 1..(Len(requests) - 1) /\ (i - 1) + 1 = i
        BY <2>3, <4>2
      <4>4. QED
        BY <4>2, <4>3
    <3>2. QED
      BY <2>1, <3>1
  <2>4. QED
    BY <2>2, <2>3
<1>4. Early'
  BY <1>1, <1>2 DEF ServedInv, Early
<1>5. polite => CmdLife'
  BY <1>1, <1>2 DEF ServedInv, CmdLife, Dark
<1>6. QED
  BY <1>1, <1>3, <1>4, <1>5 DEF ServedInv

\* Every step keeps it.
LEMMA ServedNext == ASSUME TypeInv, PoliteInv, ServedInv, [Next]_vars PROVE ServedInv'
<1>1. CASE CallInit \/ CallPrepare \/ CallStart \/ CallStop \/ CallDeInit
  BY <1>1, CallServes
<1>2. ASSUME NEW c \in Callers, Request(c) PROVE ServedInv'
  BY <1>2, RequestServes
<1>3. ASSUME NEW a \in Actors, Step(a) PROVE ServedInv'
  <2>1. CASE SetState(a) \/ Return(a) \/ CmdStart(a) \/ CmdStop(a)
    BY <2>1, OthersServe
  <2>2. CASE ~(SetState(a) \/ Return(a) \/ CmdStart(a) \/ CmdStop(a))
    BY <1>3, <2>2, OrdinarySteps, OrdinaryServes
  <2>3. QED
    BY <2>1, <2>2
<1>4. CASE CmdBegin
  BY <1>4, CmdBeginServes
<1>5. CASE CalcDone \/ Apply \/ UNCHANGED vars
  <2>1. UNCHANGED <<polite, state, call, cmdUp, requests, waiting, calls, last, core, luma>>
    BY <1>5 DEF CalcDone, Apply, untouched, others, vars, parts
  <2>2. /\ Op("app")' = Op("app") /\ Left("app")' = Left("app") /\ Op("cmd")' = Op("cmd")
    BY <2>1 DEF Op, Left
  <2>3. QED
    BY <2>1, <2>2 DEF ServedInv, Known, Early, CmdLife, Dark
<1>6. QED
  BY <1>1, <1>2, <1>3, <1>4, <1>5 DEF Next, Call

\* Who waits for a mode switch has a command that is queued for a command thread
\* that runs, or under way, unless an overlapping deinit has stopped the thread.
\* (swWorkingModeDyn_msg and RkAiqMngCmdThread)
THEOREM NobodyForgotten == FairSpec => []WaitersServed
<1>1. Init => ServedInv
  <2> SUFFICES ASSUME Init PROVE ServedInv
    OBVIOUS
  <2>1. Op("app") = "none" /\ Left("app") = 0
    BY DEF Init, Op, Left, Idle
  <2>2. QED
    BY <2>1 DEF Init, ServedInv, Known, Early, CmdLife, Dark
<1>2. TypeInv /\ ServedInv => WaitersServed
  BY DEF TypeInv, Answers, ServedInv, Known, WaitersServed, Op
<1>3. TypeInv /\ PoliteInv /\ ServedInv /\ [Next]_vars => ServedInv'
  BY ServedNext
<1>4. QED
  BY <1>1, <1>2, <1>3, Invariant, PTL DEF FairSpec, Spec
=============================================================================
