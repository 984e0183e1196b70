----------------------------- MODULE AiqManager -----------------------------
(***************************************************************************)
(* RkAiqManager: the life cycle of one camera.  A call is a list of steps, *)
(* one per operation on a part: the analyzer core, the luma core, the      *)
(* hardware, the threads that switch modes and that apply results.  A step *)
(* that fails ends the call where it is and leaves _state as it was.  A    *)
(* working mode switch is run by the command thread; its caller waits.     *)
(*                                                                         *)
(* Two threads call: the application, and the tool server, which switches  *)
(* modes.  The API lock is compiled out (RKAIQ_NO_API_LOCK), so that their *)
(* calls overlap unless they are polite.                                   *)
(***************************************************************************)
EXTENDS Integers, Sequences, FiniteSets

CONSTANTS
  Modes,       \* the working modes, normal and HDR
  NoMode,      \* not one of them
  Politeness,  \* values of polite
  MaxCalls,    \* bound: calls, of both callers
  MaxResults   \* bound: results waiting to be applied

ASSUME ManagerAssumption ==
  /\ Modes /= {} /\ NoMode \notin Modes
  /\ Politeness \subseteq BOOLEAN
  /\ MaxCalls \in Nat /\ MaxResults \in Nat

Callers == {"app", "tool"}
Actors == {"app", "cmd"}    \* the threads that run steps

VARIABLES
  polite,    \* history: no call is made while another is under way
  state,     \* _state
  mode,      \* mWorkingMode
  call,      \* call[a]: the call actor a is in: [op, todo, mode]
  cmdUp,     \* mAiqMngCmdTh runs
  requests,  \* mAiqCmdQueue
  waiting,   \* the callers blocked in send_cmd
  core,      \* the analyzer: mState, the mode it was prepared for, and whether
             \* the parameters its groups share exist
  luma,      \* the luma core: mState
  hw,        \* CamHwIsp20: _state, whether the streams run, _hdr_mode, and the
             \* mode its initial parameters were computed for
  rst,       \* mAiqRstAppTh runs
  results,   \* mAiqRstQueue
  run,       \* history: number of starts of the analyzer
  calls,     \* history: number of calls
  last,      \* history: the last call of the application that returned 0
  failed,    \* history: a start, stop or switch failed since all was last stopped
  apart      \* history: the parts may be of different modes since a failure

failures == <<failed, apart>>
parts == <<core, luma, hw, rst, results, run>>
vars == <<polite, state, mode, call, cmdUp, requests, waiting, parts, calls, last, failures>>

-----------------------------------------------------------------------------
(* Calls *)

InitSteps == <<"coreInit", "lumaInit", "hwInit", "inited", "cmdStart">>

PrepareSteps == <<"hwPrepare", "corePrepare", "initParams", "prepared">>

StartSteps == <<"coreStart", "lumaStart", "hwStart", "rstStart", "started">>

\* Mutant: a restart does not apply the initial parameters again.
RestartSteps_Bare == StartSteps

\* start() in state STOPED
RestartSteps == <<"initParams">> \o StartSteps

\* Mutant: the analyzer is left running.
StopSteps_NoCore == <<"rstStop", "lumaStop", "hwStop", "stoped">>

\* Mutant: the luma core is left running.
StopSteps_NoLuma == <<"rstStop", "coreStop", "hwStop", "stoped">>

StopSteps == <<"rstStop", "coreStop", "lumaStop", "hwStop", "stoped">>

DeInitSteps == <<"cmdStop", "coreDeInit", "lumaDeInit", "hwDeInit", "invalid">>

\* Mutant: the analyzer is not prepared for the new mode.
SwitchSteps_NoPrepare ==
  <<"rstStop", "coreStop", "lumaStop", "hwPause", "hwSwitch", "initParams",
    "hwResume", "rstStart", "coreStart", "lumaStart", "switched">>

SwitchSteps ==
  <<"rstStop", "coreStop", "lumaStop", "hwPause", "hwSwitch", "corePrepare",
    "initParams", "hwResume", "rstStart", "coreStart", "lumaStart", "switched">>

Idle == [op |-> "none", todo |-> << >>, mode |-> NoMode, by |-> "app"]
InCall(op, todo, m, c) == [op |-> op, todo |-> todo, mode |-> m, by |-> c]

\* The application's next call.  What the API's documentation asks of it: init
\* first, no deinit and no prepare in started state.
AppMay ==
  /\ call["app"] = Idle
  /\ "app" \notin waiting
  /\ calls < MaxCalls /\ last /= "deInit"
  /\ polite => call["cmd"] = Idle /\ waiting = {}

Init ==
  /\ polite \in Politeness
  /\ state = "invalid" /\ mode \in Modes
  /\ call = [a \in Actors |-> Idle]
  /\ cmdUp = FALSE /\ requests = << >> /\ waiting = {}
  /\ core = [state |-> "invalid", mode |-> NoMode, shared |-> FALSE]
  /\ luma = "invalid"
  /\ hw = [state |-> "invalid", on |-> FALSE, mode |-> NoMode, params |-> NoMode]
  /\ rst = FALSE /\ results = << >>
  /\ run = 0 /\ calls = 0 /\ last = "none"
  /\ failed = FALSE /\ apart = FALSE

CallInit ==
  /\ AppMay /\ calls = 0
  /\ call' = [call EXCEPT !["app"] = InCall("init", InitSteps, NoMode, "app")]
  /\ calls' = calls + 1 /\ last' = "none"
  /\ UNCHANGED <<polite, state, mode, cmdUp, requests, waiting, parts, failures>>

CallPrepare ==
  /\ AppMay /\ state \in {"inited", "prepared", "stoped"}
  /\ \E m \in Modes : call' = [call EXCEPT !["app"] = InCall("prepare", PrepareSteps, m, "app")]
  /\ calls' = calls + 1 /\ last' = "none"
  /\ UNCHANGED <<polite, state, mode, cmdUp, requests, waiting, parts, failures>>

\* In state STARTED start() returns 0 at once.
CallStart ==
  /\ AppMay /\ state \in {"prepared", "stoped", "started"}
  /\ IF state = "started"
     THEN last' = "start" /\ UNCHANGED call
     ELSE /\ last' = "none"
          /\ call' = [call EXCEPT !["app"] =
               InCall("start", IF state = "stoped" THEN RestartSteps ELSE StartSteps,
                      NoMode, "app")]
  /\ calls' = calls + 1
  /\ UNCHANGED <<polite, state, mode, cmdUp, requests, waiting, parts, failures>>

\* In state STOPED stop() returns 0 at once.
CallStop ==
  /\ AppMay /\ state /= "invalid"
  /\ IF state = "stoped"
     THEN last' = "stop" /\ UNCHANGED call
     ELSE /\ last' = "none"
          /\ call' = [call EXCEPT !["app"] = InCall("stop", StopSteps, NoMode, "app")]
  /\ calls' = calls + 1
  /\ UNCHANGED <<polite, state, mode, cmdUp, requests, waiting, parts, failures>>

\* deInit() stops first in state PREPARED only.  Whatever it returns, the context
\* is deleted then: no call follows.
CallDeInit ==
  /\ AppMay /\ state \in {"inited", "prepared", "stoped"}
  /\ call' = [call EXCEPT !["app"] =
       InCall("deInit", (IF state = "prepared" THEN StopSteps ELSE << >>) \o DeInitSteps,
              NoMode, "app")]
  /\ calls' = calls + 1 /\ last' = "deInit"
  /\ UNCHANGED <<polite, state, mode, cmdUp, requests, waiting, parts, failures>>

\* swWorkingModeDyn_msg: the command is queued and its caller waits.  The tool
\* server is there from init() to the end of deInit().
Request(c) ==
  /\ c \notin waiting /\ call["app"].op /= "init"
  /\ c = "app" => call["app"] = Idle /\ last /= "deInit"
  /\ polite => call = [a \in Actors |-> Idle] /\ waiting = {} /\ last /= "deInit"
  /\ state /= "invalid" /\ calls < MaxCalls
  /\ \E m \in Modes : requests' = Append(requests, [from |-> c, mode |-> m])
  /\ waiting' = waiting \cup {c}
  /\ calls' = calls + 1
  /\ last' = IF c = "app" THEN "none" ELSE last
  /\ UNCHANGED <<polite, state, mode, call, cmdUp, parts, failures>>

-----------------------------------------------------------------------------
(* Steps.  At(a, s): actor a is about to do step s. *)

At(a, s) == call[a].todo /= << >> /\ Head(call[a].todo) = s

\* The steps after the first s.
After(s, todo) ==
  LET i == CHOOSE j \in DOMAIN todo : todo[j] = s /\ \A k \in 1..(j - 1) : todo[k] /= s
  IN  SubSeq(todo, i + 1, Len(todo))

GoOn(a) ==
  /\ call' = [call EXCEPT ![a].todo = Tail(@)]
  /\ UNCHANGED failures

\* The step is done, or skipped, and leaves the modes of the parts apart or not.
GoOnWith(a, isApart) ==
  /\ call' = [call EXCEPT ![a].todo = Tail(@)]
  /\ apart' = isApart
  /\ UNCHANGED failed

\* The call is over.  A failing init() deinits; deInit() ignores the result of
\* the stop() it calls.
Fail(a) ==
  /\ failed' = (failed \/ call[a].op /= "prepare")
  /\ apart' = (apart \/ call[a].op \in {"prepare", "switch"})
  /\ call' = [call EXCEPT ![a] =
       CASE @.op = "init" -> InCall("deInit", DeInitSteps, NoMode, "app")
         [] @.op = "deInit" /\ \E i \in DOMAIN @.todo : @.todo[i] = "cmdStop" ->
              [@ EXCEPT !.todo = <<"cmdStop">> \o After("cmdStop", @)]
         [] OTHER -> [@ EXCEPT !.todo = << >>]]

others == <<polite, cmdUp, requests, waiting, calls>>

\* The assignments to _state at the end of a call.
SetState(a) ==
  \E s \in {"inited", "prepared", "started", "stoped", "invalid"} :
    /\ At(a, s)
    /\ state' = s
    /\ mode' = IF s = "prepared" THEN call[a].mode ELSE mode
    /\ call' = [call EXCEPT ![a].todo = Tail(@)]
    /\ failed' = (failed /\ s /= "stoped")
    /\ last' = CASE s = "started" -> "start"
                 [] s = "stoped" /\ call[a].op = "stop" -> "stop"
                 [] OTHER -> last
    /\ UNCHANGED <<others, apart, parts>>

\* The end of swWorkingModeDyn, reached too when the hardware refused the mode.
SetMode(a) ==
  /\ At(a, "switched")
  /\ mode' = call[a].mode
  /\ GoOn(a)
  /\ UNCHANGED <<others, state, last, parts>>

\* Mutant: every caller is woken.
Return_All(a) ==
  /\ call[a].op /= "none" /\ call[a].todo = << >>
  /\ call' = [call EXCEPT ![a] = Idle]
  /\ waiting' = IF a = "cmd" THEN {} ELSE waiting
  /\ UNCHANGED <<polite, state, mode, cmdUp, requests, parts, calls, last, failures>>

\* Mutant: a failing switch does not wake its caller.
Return_Silent(a) ==
  /\ call[a].op /= "none" /\ call[a].todo = << >>
  /\ call' = [call EXCEPT ![a] = Idle]
  /\ waiting' = IF a = "cmd" /\ mode = call[a].mode THEN waiting \ {call[a].by} ELSE waiting
  /\ UNCHANGED <<polite, state, mode, cmdUp, requests, parts, calls, last, failures>>

\* The call returns; the command thread wakes the caller of the command.
Return(a) ==
  /\ call[a].op /= "none" /\ call[a].todo = << >>
  /\ call' = [call EXCEPT ![a] = Idle]
  /\ waiting' = IF a = "cmd" THEN waiting \ {call[a].by} ELSE waiting
  /\ UNCHANGED <<polite, state, mode, cmdUp, requests, parts, calls, last, failures>>

-----------------------------------------------------------------------------
(* The analyzer core and the luma core *)

untouched == <<others, state, mode, last>>

CoreInit(a) ==
  /\ At(a, "coreInit")
  /\ core' = [core EXCEPT !.state = "inited", !.shared = TRUE]
  /\ GoOn(a) /\ UNCHANGED <<untouched, luma, hw, rst, results, run>>

\* prepare() is refused without an error while the analyzer runs; an algorithm
\* that fails to prepare ends it.
CorePrepare(a) ==
  /\ At(a, "corePrepare")
  /\ \/ /\ core.state \in {"inited", "prepared", "stoped"}
        /\ core' = [core EXCEPT !.state = "prepared", !.mode = call[a].mode]
        /\ GoOnWith(a, FALSE)
     \/ /\ core.state \in {"inited", "prepared", "stoped"}
        /\ core' = [core EXCEPT !.mode = call[a].mode]
        /\ Fail(a)
     \/ /\ core.state \notin {"inited", "prepared", "stoped"}
        /\ GoOnWith(a, TRUE)
        /\ UNCHANGED core
  /\ UNCHANGED <<untouched, luma, hw, rst, results, run>>

CoreStart(a) ==
  /\ At(a, "coreStart")
  /\ IF core.state \in {"prepared", "stoped"}
     THEN /\ core' = [core EXCEPT !.state = "started"]
          /\ run' = run + 1
          /\ GoOn(a)
     ELSE Fail(a) /\ UNCHANGED <<core, run>>
  /\ UNCHANGED <<untouched, luma, hw, rst, results>>

\* stop() joins the threads of the analyzer.
CoreStop(a) ==
  /\ At(a, "coreStop")
  /\ core' = [core EXCEPT !.state = IF @ = "started" THEN "stoped" ELSE @]
  /\ GoOn(a) /\ UNCHANGED <<untouched, luma, hw, rst, results, run>>

\* The shared parameters are deleted before the state is looked at.
CoreDeInit(a) ==
  /\ At(a, "coreDeInit")
  /\ core' = [core EXCEPT !.shared = FALSE,
                          !.state = IF @ = "started" THEN @ ELSE "invalid"]
  /\ IF core.state = "started" THEN Fail(a) ELSE GoOn(a)
  /\ UNCHANGED <<untouched, luma, hw, rst, results, run>>

LumaInit(a) ==
  /\ At(a, "lumaInit")
  /\ luma' = "inited"
  /\ GoOn(a) /\ UNCHANGED <<untouched, core, hw, rst, results, run>>

LumaStart(a) ==
  /\ At(a, "lumaStart")
  /\ IF luma \in {"inited", "stoped"}
     THEN luma' = "started" /\ GoOn(a)
     ELSE Fail(a) /\ UNCHANGED luma
  /\ UNCHANGED <<untouched, core, hw, rst, results, run>>

LumaStop(a) ==
  /\ At(a, "lumaStop")
  /\ luma' = IF luma = "started" THEN "stoped" ELSE luma
  /\ GoOn(a) /\ UNCHANGED <<untouched, core, hw, rst, results, run>>

LumaDeInit(a) ==
  /\ At(a, "lumaDeInit")
  /\ IF luma = "started" THEN Fail(a) /\ UNCHANGED luma
                         ELSE luma' = "invalid" /\ GoOn(a)
  /\ UNCHANGED <<untouched, core, hw, rst, results, run>>

-----------------------------------------------------------------------------
(* The hardware: CamHwIsp20.  The devices may fail wherever their result is
   looked at. *)

HwInit(a) ==
  /\ At(a, "hwInit")
  /\ \/ hw' = [hw EXCEPT !.state = "inited"] /\ GoOn(a)
     \/ Fail(a) /\ UNCHANGED hw
  /\ UNCHANGED <<untouched, core, luma, rst, results, run>>

\* The mode is recorded first; the sensor may refuse it.
HwPrepare(a) ==
  /\ At(a, "hwPrepare")
  /\ \/ hw' = [hw EXCEPT !.state = "prepared", !.mode = call[a].mode] /\ GoOn(a)
     \/ \E s \in {hw.state, "prepared"} :
          hw' = [hw EXCEPT !.state = s, !.mode = call[a].mode] /\ Fail(a)
  /\ UNCHANGED <<untouched, core, luma, rst, results, run>>

\* mCamHw->applyAnalyzerResult of what the analyzer computed when prepared.
InitParams(a) ==
  /\ At(a, "initParams")
  /\ hw' = [hw EXCEPT !.params = core.mode]
  /\ GoOn(a) /\ UNCHANGED <<untouched, core, luma, rst, results, run>>

\* A device that fails does not keep the others from starting; the result of the
\* last one is returned.
HwStart(a) ==
  /\ At(a, "hwStart")
  /\ IF hw.state \in {"prepared", "stopped"}
     THEN hw' = [hw EXCEPT !.state = "started", !.on = TRUE] /\ (GoOn(a) \/ Fail(a))
     ELSE Fail(a) /\ UNCHANGED hw
  /\ UNCHANGED <<untouched, core, luma, rst, results, run>>

\* Mutant: only a hardware found started is stopped.
HwStop_OnlyStarted(a) ==
  /\ At(a, "hwStop")
  /\ IF hw.state /= "started"
     THEN GoOn(a) /\ UNCHANGED hw
     ELSE /\ hw' = [hw EXCEPT !.state = "stopped", !.on = FALSE, !.params = NoMode]
          /\ GoOn(a) \/ Fail(a)
  /\ UNCHANGED <<untouched, core, luma, rst, results, run>>

\* The results the hardware holds are cleared.
HwStop(a) ==
  /\ At(a, "hwStop")
  /\ IF hw.state = "stopped"
     THEN GoOn(a) /\ UNCHANGED hw
     ELSE /\ hw' = [hw EXCEPT !.state = "stopped", !.on = FALSE, !.params = NoMode]
          /\ GoOn(a) \/ Fail(a)
  /\ UNCHANGED <<untouched, core, luma, rst, results, run>>

\* All streams, but the TNR unit, which pause() starts instead of stopping it: a detail of
\* `on' that is left out.
HwPause(a) ==
  /\ At(a, "hwPause")
  /\ hw' = [hw EXCEPT !.state = "paused", !.on = FALSE, !.params = NoMode]
  /\ GoOn(a) /\ UNCHANGED <<untouched, core, luma, rst, results, run>>

\* A mode the hardware refuses (a sensor linked to the ISP, a sensor's error):
\* goto restart.
HwSwitch(a) ==
  /\ At(a, "hwSwitch")
  /\ \/ hw' = [hw EXCEPT !.mode = call[a].mode] /\ GoOn(a)
     \/ /\ call' = [call EXCEPT ![a].todo = After("initParams", @)]
        /\ apart' = TRUE
        /\ UNCHANGED <<hw, failed>>
  /\ UNCHANGED <<untouched, core, luma, rst, results, run>>

HwResume(a) ==
  /\ At(a, "hwResume")
  /\ hw' = [hw EXCEPT !.state = "started", !.on = TRUE]
  /\ GoOn(a) \/ Fail(a)
  /\ UNCHANGED <<untouched, core, luma, rst, results, run>>

HwDeInit(a) ==
  /\ At(a, "hwDeInit")
  /\ hw' = [hw EXCEPT !.state = "invalid"]
  /\ GoOn(a) /\ UNCHANGED <<untouched, core, luma, rst, results, run>>

-----------------------------------------------------------------------------
(* The threads of the manager *)

CmdStart(a) ==
  /\ At(a, "cmdStart")
  /\ \/ cmdUp' = TRUE /\ GoOn(a)
     \/ Fail(a) /\ UNCHANGED cmdUp
  /\ UNCHANGED <<polite, requests, waiting, calls, state, mode, last, parts>>

\* The command thread finishes what it is doing and its queue is cleared: who
\* waits for a command in it waits for ever.
CmdStop(a) ==
  /\ At(a, "cmdStop")
  /\ call["cmd"] = Idle
  /\ cmdUp' = FALSE /\ requests' = << >>
  /\ GoOn(a)
  /\ UNCHANGED <<polite, waiting, calls, state, mode, last, parts>>

\* RkAiqMngCmdThread::loop and the tests at the start of swWorkingModeDyn.
CmdBegin ==
  /\ cmdUp /\ call["cmd"] = Idle /\ requests /= << >>
  /\ requests' = Tail(requests)
  /\ LET m == Head(requests).mode
         does == m /= mode /\ state = "started"
     IN  call' = [call EXCEPT !["cmd"] =
           InCall("switch", IF does THEN SwitchSteps ELSE << >>, m, Head(requests).from)]
  /\ UNCHANGED <<polite, cmdUp, waiting, calls, state, mode, last, failures, parts>>

\* Mutant: triger_start leaves the queue as it is.
RstStart_KeepsQueue(a) ==
  /\ At(a, "rstStart")
  /\ \/ rst' = TRUE /\ GoOn(a)
     \/ ~rst /\ Fail(a) /\ UNCHANGED rst
  /\ UNCHANGED <<untouched, core, luma, hw, results, run>>

\* triger_start clears the queue, then the thread is created.
RstStart(a) ==
  /\ At(a, "rstStart")
  /\ results' = << >>
  /\ \/ rst' = TRUE /\ GoOn(a)
     \/ ~rst /\ Fail(a) /\ UNCHANGED rst
  /\ UNCHANGED <<untouched, core, luma, hw, run>>

\* triger_stop and stop: the thread is joined; on its way out it clears its queue.
RstStop(a) ==
  /\ At(a, "rstStop")
  /\ rst' = FALSE
  /\ results' = IF rst THEN << >> ELSE results
  /\ GoOn(a)
  /\ UNCHANGED <<untouched, core, luma, hw, run>>

\* rkAiqCalcDone: a group of the analyzer has results for a frame.
CalcDone ==
  /\ core.state = "started" /\ hw.on
  /\ Len(results) < MaxResults
  /\ results' = Append(results, [run |-> run, mode |-> core.mode])
  /\ UNCHANGED <<untouched, call, failures, core, luma, hw, rst, run>>

\* RkAiqRstApplyThread::loop: the oldest result goes to the hardware.
Apply ==
  /\ rst /\ results /= << >>
  /\ results' = Tail(results)
  /\ UNCHANGED <<untouched, call, failures, core, luma, hw, rst, run>>

Step(a) ==
  \/ SetState(a) \/ SetMode(a) \/ Return(a)
  \/ CoreInit(a) \/ CorePrepare(a) \/ CoreStart(a) \/ CoreStop(a) \/ CoreDeInit(a)
  \/ LumaInit(a) \/ LumaStart(a) \/ LumaStop(a) \/ LumaDeInit(a)
  \/ HwInit(a) \/ HwPrepare(a) \/ InitParams(a) \/ HwStart(a) \/ HwStop(a)
  \/ HwPause(a) \/ HwSwitch(a) \/ HwResume(a) \/ HwDeInit(a)
  \/ CmdStart(a) \/ CmdStop(a) \/ RstStart(a) \/ RstStop(a)

Call ==
  \/ CallInit \/ CallPrepare \/ CallStart \/ CallStop \/ CallDeInit
  \/ \E c \in Callers : Request(c)

Next == Call \/ (\E a \in Actors : Step(a)) \/ CmdBegin \/ CalcDone \/ Apply

Spec == Init /\ [][Next]_vars

\* A thread in the middle of a call goes on, and the command thread takes the
\* commands of its queue.  Nobody has to call.
FairSpec == Spec /\ (\A a \in Actors : WF_vars(Step(a))) /\ WF_vars(CmdBegin)

-----------------------------------------------------------------------------
(* Properties *)

PartStates == {"invalid", "inited", "prepared", "started", "stoped"}

TypeOK ==
  /\ polite \in Politeness
  /\ state \in PartStates /\ mode \in Modes
  /\ \A a \in Actors : call[a].mode \in Modes \cup {NoMode} /\ call[a].by \in Callers
  /\ \A i \in DOMAIN requests : requests[i].from \in waiting
  /\ waiting \subseteq Callers
  /\ core \in [state : PartStates, mode : Modes \cup {NoMode}, shared : BOOLEAN]
  /\ luma \in PartStates
  /\ hw \in [state : (PartStates \ {"stoped"}) \cup {"stopped", "paused"}, on : BOOLEAN,
             mode : Modes \cup {NoMode}, params : Modes \cup {NoMode}]
  /\ cmdUp \in BOOLEAN /\ rst \in BOOLEAN /\ Len(results) =< MaxResults
  /\ run \in Nat /\ calls \in 0..MaxCalls

\* Nothing of the camera runs.
Quiet == core.state /= "started" /\ luma /= "started" /\ ~hw.on /\ ~rst

\* All of it runs.
Running == core.state = "started" /\ luma = "started" /\ hw.on /\ rst

Rest == call = [a \in Actors |-> Idle]

\* stop() leaves nothing running, whatever had failed before it: every part is
\* stopped whether it was found started or not.
StopIsComplete == [][polite /\ state' = "stoped" /\ state /= "stoped" => Quiet']_vars

\* The state of the manager is that of its parts, unless something failed since
\* they were last all stopped.
StateIsTrue ==
  polite /\ Rest /\ ~failed =>
    IF state = "started" THEN Running ELSE Quiet

\* The thread that applies results never finds one of an earlier run of the
\* analyzer: the frame numbers start again, and so may the mode.  The analyzer may
\* still publish when the thread is already gone, in stop and in switch.
NoStaleResult == polite /\ rst => \A i \in DOMAIN results : results[i].run = run

\* While the streams run the hardware, the analyzer and the manager are of one
\* mode, unless the hardware or the analyzer refused one; and the hardware started
\* with initial parameters of that mode, unless a call before had failed half-way.
ModesAgree ==
  polite /\ Rest /\ hw.on /\ ~apart =>
    /\ hw.mode = core.mode /\ hw.mode = mode
    /\ hw.params = hw.mode \/ failed

\* deInit() deletes the parameters the groups share before it looks at the state
\* of the analyzer: unless a call had failed, no group thread uses them then.
SharedUnused ==
  [][polite /\ core.shared /\ ~core'.shared => core.state /= "started" \/ failed]_vars

\* Who waits for a mode switch has a command in the queue of a command thread that
\* runs, or under way, and the other way round, unless an overlapping deinit has
\* stopped the command thread.
WaitersServed ==
  /\ \A i \in DOMAIN requests : requests[i].from \in waiting
  /\ \A c \in waiting :
       \/ call["cmd"].op /= "none" /\ call["cmd"].by = c
       \/ cmdUp /\ \E i \in DOMAIN requests : requests[i].from = c
       \/ ~polite /\ ~cmdUp

\* What the API says of stop: it stops the control system and returns 0 if it did.
StopStops == polite /\ last = "stop" => Quiet

\* A caller that waits for a mode switch gets its answer, whether the switch was
\* done, refused or not needed, and whatever else is going on, unless the
\* application deinits meanwhile.
SwitchReturns ==
  \A c \in Callers : c \in waiting ~> c \notin waiting \/ (~polite /\ (last = "deInit" \/ state = "invalid"))
=============================================================================
