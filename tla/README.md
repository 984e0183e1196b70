# A TLA+ model of the rkaiq camera engine

rkaiq drives the image signal processor of Rockchip cameras. The kernel hands it
statistics of each frame; algorithms (exposure, white balance, focus, noise
reduction ...) compute the parameters of later frames; the engine writes them to
sensor, lens and ISP at the right start of frame. The algorithms are numerical;
what a model checker can help with is the machinery around them: worker threads,
queues, frame numbers, start and stop. That machinery is what is modelled here.

`PROJECT.json` lists the runs, the mutants, the source lines of every definition,
the hazards and the theorems; this file explains them.

## 1. The system

| Component | State | Operations | Talks to |
|---|---|---|---|
| xcore workers: `Thread`, `SafeList` | `_started`, `_stopped`, the list, `_pop_paused` | start, emit_stop, stop, push, pop, pause_pop, resume_pop, clear | base of every thread below |
| xcore poll threads, pools, V4L2 devices | poll fds, free items, device state | poll loop, get/return item, start/stop, queue/dequeue | call back into hwi |
| analyzer groups (`RkAiqAnalyzeGroupManager`) | queue and `mGroupMsgMap` of each group | handleMessage, msgHandle, msgReduction, start, stop, setGrpDeps | fed by RkAiqCore, run the algorithm handles |
| `RkAiqCore` | state, statistics caches, algorithm handles, full parameters | init, prepare, start, stop, analyze, pushStats, events, updateCalib, enableAlgo | groups, RkAiqManager (callback rkAiqCalcDone) |
| `RkAiqManager` | `_state`, working mode, calibration | init, prepare, start, stop, deInit, hwResCb, swWorkingModeDyn, updateCalibDb | RkAiqCore, CamHw; command and result threads |
| camera group | map frame -> results of the cameras | addCamResult, reprocess, prepare, start, stop | several RkAiqManagers |
| `SensorHw` | exposure list, delayed gain and dcg lists, effecting map | setExposureParams, handle_sof, getEffectiveExpParams, set_exp_delay_info, stop | result thread, poll thread of start-of-frame events, sensor driver |
| `IspParamsAssembler` (ISP, TNR, NR, FEC) | map frame -> results, ready mask and count, latest ready frame, initial results | addReadyCondition, queue, forceReady, ready, deQueOne, start, stop | result thread, poll thread of statistics, parameter devices |
| `CamHwIsp20` and streams | effecting parameters, stream state | start, stop, pause, resume, applyAnalyzerResult, setIspConfig | SensorHw, LensHw, RkAiqManager (callback) |
| `LensHw`, flash | focus positions and times | setFocusParams, handle_sof | lens driver |
| algorithms, parsers, uAPI, servers | numerical state, tables, sockets | | |

One frame goes round like this. A poll thread reads the start-of-frame event and
calls `SensorHw::handle_sof`, which writes the next exposure; `RkAiqManager::hwResCb`
turns events and statistics into messages; `RkAiqCore` posts them to the analyzer
groups that depend on them; a group that has all messages of a frame runs its
algorithms; the results go through the result thread of `RkAiqManager` to
`CamHwIsp20`, which assembles the parameters of the frame and hands exposures to
`SensorHw`. Each arrow crosses a thread, and each thread is a `Thread` with a
`SafeList`.

What is hard: the hand-over between start, stop and the exit of a thread; objects
left in a queue when frame numbers start again at 0; messages of different types,
delayed by different numbers of frames, arriving in any order or not at all;
registers of one exposure written in different frames so that they come into
effect together; a calibration update while the algorithms run; a start that fails
half-way. The list with lines is under `hazards` in `PROJECT.json`.

What makes each component correct:

* worker: one loop at a time, nothing runs after stop() returned, nothing of an
  earlier session is handled, nothing pushed is forgotten, stop() returns;
* analyzer group: frames in increasing order, no complete frame missed, bounded map,
  no message of another session, no drop while the publishers keep up;
* the groups together: no group waits for itself, none runs on a result of another
  session, and what each assumes of its publishers is what the others do;
* attributes: the one set last is in use in the end, a synchronous caller was served;
* calibration updates: no handle that adopted what it was told to uses a freed database,
  all of them end with the same one, who waits for the groups is answered;
* manager: its state tells what runs, also after a step failed; a stop leaves nothing
  running; who waits for a mode switch is answered;
* sensor exposure: the exposure reported for a frame is the one the sensor used;
* parameter assembly: frames are handed out in order, every result once and none over a
  newer one, and the count of ready frames is right;
* statistics cache (planned): statistics of a frame are found while someone may ask.

The lock of the user API is compiled out: `src/uAPI/rk_aiq_api_private.h:87` defines
`RKAIQ_NO_API_LOCK`. The application and the tuning server may therefore call at the
same time. Models in which that matters have a variable `polite`, chosen at the start:
if it is TRUE nobody starts a call while another is under way. Safety properties of the
manager and of calibration updates are stated for polite callers; what two overlapping
calls do to each other is not prevented by the code. Liveness is stated for both.

## 2. The modules

| Module | Models |
|---|---|
| `WorkerThread` | `Thread` + `SafeList` + owner + producers, one action per critical section |
| `FifoWorker` | what the callers of a worker rely on; abstract, no code of its own |
| `FrameMap` | `mGroupMsgMap`: how a message is filed by frame, and what msgReduction drops; used by the next two |
| `AnalyzerGroup` | one `RkAiqAnalyzerGroup` with its publishers |
| `AnalyzePipeline` | the AE, AWB, GRP0 and GRP1 groups with the sensor's threads; each implements `AnalyzerGroup` |
| `AttribHandle` | an algorithm handle, its algorithm and the threads that set attributes |
| `CalibUpdate` | a new calibration database on its way to the handles of all groups |
| `AiqManager` | the life cycle of a camera: `RkAiqManager` and the parts it starts and stops |
| `SensorExp` | `SensorHw` with time, gain and dcg registers, and the sensor |
| `IspParamsAssembler` | the class of that name with the producers and the consumer |
| `WorkerThreadProofs`, `AnalyzerGroupProofs`, `AnalyzePipelineProofs`, `AttribHandleProofs`, `CalibUpdateProofs`, `AiqManagerProofs`, `SensorExpProofs`, `IspParamsAssemblerProofs` | the proofs |
| `MC...` | constants for TLC |

They fit together by what each takes for granted of another. `WorkerThread` implements
`FifoWorker`; on that ground every model above it makes pop and handling of a message one
step, and a stop finds nothing being handled. `AnalyzerGroup` takes its publishers at
their word (increasing frames, nothing posted after the queue is cleared by start);
`AnalyzePipeline` shows that the other groups are such publishers. `AiqManager` stops
parts in the order that `AttribHandle`, `CalibUpdate` and `AnalyzePipeline` use.

### WorkerThread

`pc[t]` is where pthread t is in `thread_func`: `check` (the test of the loop),
`pop`, `wait` (in `SafeList::pop`), `handle` (the rest of loop()), `hook`
(stopped()), `mark` (setting `_stopped`), `bcast` (the broadcast, after the
unlock). `opc` is the owner: triger_start is `StartClear`, `StartResume`; start()
is `StartAlready`, `StartCreate` or `StartFails`; triger_stop is `StopPause`; stop()
is `EmitStop`, then `StopWait` and `StopReturn`. The owner makes one start or stop at a
time: that is what the application is expected to do, since no lock enforces it; a second
start without a stop is allowed. Condition variables may wake
spuriously (`SpuriousPop`, `SpuriousJoin`), and a signal wakes one waiter. Objects
are numbers in the order of the pushes. `ClearOnStart` distinguishes the analyzer
groups from the command and lens threads, whose triger_start keeps the list.
pthread attributes, names and priorities are left out, and so is `_user_func`.

### AnalyzerGroup

A message counts for frame `UserId` = its frame + the delay of its type. `pending`
is `mGroupMsgMap`. `Analyse` and `Store` are the two outcomes of msgHandle, each
with the pop before it. Publishers are
the environment: each type has one publisher, frames increase, frames may be
skipped; `close` is TRUE as long as, in this session, nothing was skipped and no type was
`MaxSkew` frames ahead of another. `First` is the first frame of a type: events_analyze
returns early for sequence 0 (`RkAiqCore.cpp:1867`), so that starts of frame begin with 1
and statistics with 0. `up` is the worker between start() and stop(). Publishers may push
while the group is down: another group may still be running.

### AnalyzePipeline

The groups wait for the types of the ISP 3.x condition tables. `at` are the two threads
that serve the sensor, one for starts of frame and one for statistics; `todo[a]` is the set
of pushes thread a has yet to make. handleMessage pushes to the groups one after the other, in the order of
the map of groups, which is sorted by mask (`Place`: GRP1, AE, AWB, GRP0), so each push is a
step (`PushNext`, which takes the first in the order `Before`) and the others go on in between; a group whose algorithms post a result
pushes it before it pops its next message. `PostSome` leaves out posts whose buffer pool is
empty or whose algorithm failed. `Stop` stops the groups one by one after the sensor's
threads are joined; groups still up push to groups already stopped, and the start of
the next session clears what they left. The mapping to `AnalyzerGroup` is the identity on
the variables of one group: only `next` and `close` summarise what the publishers did.
There is an instance of `AnalyzerGroup` for each group, written out four times: theorems of a
parametrised instance cannot be cited by the prover.

Modelling showed one thing worth knowing: when msgReduction drops a frame in AWB, GRP1
waits in vain for that frame, and its map keeps the start of frame until a later
frame completes. `FrameFlows` excepts it.

Left out: AF and the groups that wait for one type only, the tables
of the ISP 2.x, the single-threaded mode, camera groups.

### AttribHandle

An attribute is a content and the number of the call that set it; the numbers are
history and let `InOrder` say "older". It goes through `newAtt`, `curAtt` (the handle), then `ctx`
(the algorithm). `SetAttrib` is the critical section of setAttrib, including
the direct updateConfig if the core is not running; a synchronous setter then waits and
`SetReturns` is its wake-up, by the signal, by its time-out of 100 ms or by a spurious
wake-up, which the code does not tell apart. `PreProcess` is updateConfig in the group's thread,
`TakeAttrib` and `ClearUpdate` are the two ends of the algorithm's unlocked copy. prepare()
runs the algorithm too, in the caller's thread.

`exact` becomes FALSE in the two cases where the attribute set last does not win. (1) A
synchronous attribute equal to `mCurAtt` is dropped although an asynchronous one is
pending; also an all-zero one that equals the handle's initial memory while the algorithm
uses the one of the calibration. (2) Before the core is RUNNING the setter hands over itself, and the
algorithm may be between its copy (`rk_aiq_accm_algo.cpp:991`) and the line that clears
`updateAtt` (`:1025`): the new attribute stays unused until the next one.

getAttrib changes nothing and is not modelled. Reading it shows a gap: in default or
asynchronous mode it returns the pending attribute with `done` = false while the handle has
one; between the hand-over and the algorithm's next run it returns the old attribute,
which is still in use, with `done` = true, whereas `include/common/rk_aiq_comm.h:500` says
that such a call gets the attribute set asynchronously last.

### CalibUpdate

Databases are numbers; 0 is the one the manager was made with. A context
(`CamCalibDbV2Context_t`) is little more than a pointer to the tables of a database, and handles keep
pointers to tables, never to the context (`RkAiqCalibDbV2Helper.h:194-206`). `content` is the
database whose tables `*mCalibDbV2` has, `calibv2` the context the analyzer offers (`Own`
is `*mCalibDbV2`), `Offer` the database that leads to, and `uses[h]` the
one with the tables of handle h. The copies over `*mCalibDbV2` (`RkAiqManager.cpp:464` and `:1040`)
thus change what handles adopt next and not what they use.

`Tune`, `Publish`, `NotifyUpdate`, `WaitUpdateDone` are the steps of a tuning; `UpdateCalib(g)`
is a group that finds its bit in the mask before its next message. `Brutal` is an update while the
analyzer is not RUNNING, handle after handle in the thread of the caller. Every prepare() may
fail: handles are prepared in the order of the table, and nothing after the first that fails
(`Reached`), which may have taken the tables before it failed, as adrc's does
(`rk_aiq_algo_adrc_itf.cpp:88-111`). updateCalib ignores the failure and clears the bit.

`behind` marks a handle that an update passed by: it was disabled, it failed, or one before it
failed. It keeps the tables of an older database although its group was counted, and calibTuning
frees that database at the next tuning (`RkAiqManager.cpp:1039`): in this case waitUpdateDone does
not give what the caller takes from it. Enabling a disabled handle after a stop does not help,
because stop() resets `conf_type` (`RkAiqCore.cpp:692`). The handle leaves `behind` when it adopts
again. `NoUseAfterFree` and `AllAgree` except the handles in `behind` and nothing else: failures
and disabled algorithms never harm the others, nor what the manager and the analyzer hold. For callers that are not polite
the same reset may come between publication and adoption, and neither is claimed.

A mixture of old and new pointers during a copy over `*mCalibDbV2` is not a property of the model.
enableAlgo waits on a condition variable that nobody signals; the wait is left out.

### AiqManager

A call is the list of its steps (`StartSteps`, `SwitchSteps`, ...), and each
step is an action on one part: `CoreStart`, `HwStart`, ... . A step that may fail in the code
has an outcome `Fail`, which ends the call there and leaves `_state` alone, as
`RKAIQMNG_CHECK_RET` does; steps whose result the code ignores go on. A switch of the working mode is put into
the command queue, and its caller waits without a time-out; the command thread runs the
switch and answers. `core`, `luma`, `hw` are the parts with the guards of their own
states. `CalcDone` and `Apply` are results on their way from the groups to the hardware
through the thread that applies them. `failed` and `apart` are histories that name the
situations in which a property is not claimed.

Left out: getters and setters that forward to one part, mirror and flip, hwResCb, which only passes
buffers on, and spurious wake-ups of the waiting caller. `HwPause`
has all of the hardware off, whereas `CamHwIsp20::pause` starts the TNR unit instead of stopping it
(`CamHwIsp20.cpp:3008-3009`); resume starts it again, and no property depends on it.

### SensorExp

Exposures are numbers. `expList` holds them with the flag of a table's first
element; `delayed` is the two lists of gains and dcg modes held back; `effecting` is
`_effecting_exp_map`. handle_sof is three steps: `SofPop` (first critical section),
`SofWrite` (the ioctl, no lock), `SofRecord` (second critical section). The sensor
is not in the program: `written` records what each start of frame wrote, and
`InEffect` says which exposure a register has in a frame, given the delay. The
number of table elements appended is any prefix, because the buffer pool may run
out; `Firsts` are the places of the list that a new table leaves. `DcgFaster` is the test
that sets `_dcg_gain_mode_delayed`. `Stop` happens with the poll thread idle because CamHwIsp20::stop and pause
join it first (the comment at `hwi/isp20/CamHwIsp20.cpp:2899`). The first exposure
is set before the stream starts: prepare, start and swWorkingModeDyn of
`RkAiqManager` apply the initial parameters first.

Left out: exposures given as i2c registers, mirror and flip, dpcc, and a failing ioctl.

### IspParamsAssembler

Every method holds `mParamsMutex`, so each is one action; queue_locked is the function
`Queued`, made of exception case 1 (`Target`), the new entry (`Entry`), the impossible
case, or the result put into its frame (`Put`) and exception case 2 (`Merged`). `pending` is the map with the latest ready frame and
the count. A result is a type, a frame and a number in the order of the calls; what it
contains does not matter. prepare() queues one result of each type (`QueueInitial`);
while streaming each type comes in the order of its frames, some skipped. The `mode` of a
behaviour is fixed at the start: `noReadback` turns `ForceReady` on; `prompt` says that
buffers are at hand, so that the call that queues a result also drains the ready frames;
without it the consumer takes a frame at any time, which covers the ISP in readback mode, where a frame trigger takes them.
Three of the four modes are in the run. In the fourth, frames are forced and the consumer
stalls, as when `setIspConfig` finds no free buffer in the mode without readback; there
`FramesInOrder` fails as a consequence of the finding `assembler_impossible` below.
rmReadyCondition and reset have no caller; a ready condition added while the assembler
runs, in the middle of a unit's start(), is left out.

## 3. The runs

| Run | Question | Bounds |
|---|---|---|
| `worker` | can two loops run, anything run after stop, an old object be handled, a wake-up be lost (`NoLostWakeUp`); is it a FIFO; does a stop return | 2 pthreads (the one about to broadcast and its successor), 5 objects, 4 starts |
| `group_safety` | order, completeness, bounded map, sessions, drops | 2 types of delays 0 and 2 and first frames 1 and 0, skew 2, map of 4 that keeps 2, frames 0..6, 2 sessions: enough to overflow the map, to complete frames out of turn and to restart with a filled map; First + Delay + MaxSkew is exactly the size of the map |
| `pipeline` | do the groups implement `AnalyzerGroup`; does one run on a result of an earlier session; does each frame reach all of them, and does none wait for another for ever | all 4 groups, a session to frame 2 with one post left out and one to frame 3, map of 2 that keeps 1, so that msgReduction drops frames, queues of 1, so that a push has to wait for the receiver |
| `attrib` | does the last attribute win; is the caller served | 2 setters, 2 contents, 4 calls, 2 sessions |
| `calib` | is a database in use freed; do the handles agree; is the caller answered | 2 callers; 3 databases if they are polite (one is freed at the third), 2 if they overlap; 2 groups with 3 handles, of which one may be disabled and each may fail; one group has the first and the last handle, so that a failure leaves behind handles of its own group and, in a brutal update, of the other; 2 sessions |
| `manager` | does the state tell what runs, is stop complete, are old results applied, do the parts agree on the mode, is every waiting caller known to a command thread that runs, does a switch return | 6 calls of 2 callers polite or not, 2 modes, any step failing, 1 result waiting |
| `manager_stop` | (violation) does stop() stop | 5 calls, polite |
| `sensor_exposure` | is the reported exposure real, are firsts of tables applied, where do registers end when starts of frame are lost | 5 exposures, tables of 2, frames to 5, map of 3 (10 in the code), 2 sessions, 8 delay settings of which 2 are refused, lost events at any point |
| `sensor_switch` | (violation) is the comment in handle_sof true | a session per working mode |
| `assembler` | are results lost, repeated, overtaken; is the count right | 3 modes, 2 types, 8 results, frames 0..4, map of 2 (10 in the code), a restart |
| `assembler_lag_order` | (violation) is the first frame ready when one is | 6 results |
| `assembler_impossible` | (violation) is the "impossible case" impossible | 6 results, frames 0..3 |

Within these bounds every action fires and every mutant of `PROJECT.json` is found.
Smaller maps are sound because the properties speak only of what a map covers and the
code compares with the limit in one place; three entries are enough to trim the sensor's map in six frames.

### Findings

`sensor_switch`. `set_exp_delay_info` sets `_dcg_gain_mode_delayed` and
nothing resets it. After a session with delays (2,2,1), which calibration files in
the repository have, a session with a faster gain has both flags set; handle_sof then
takes the branch whose comment says `_gain_delayed should be false`, and writes the
gain with the time. A stale flag does harm without a faster gain, too: after (2,2,1) it is
still set for delays (2,1,-1) of a sensor without dcg mode. `ReportedIsReal` is therefore
stated for flags that fit the delays, which is every session before the first such change.

`assembler_lag_order`. Only the first frame of the
map is tested for disorder, so that behind a ready frame that waits, an incomplete one
stays before a ready one; deQueOne goes by the count and hands out the incomplete one, and
the ready one is a frame late from then on.

`assembler_impossible`. A forced frame
overtakes one that lacks a result; the result completes it, and the frame is counted and then
dropped as the "impossible case". A consumer that keeps up has by then taken an incomplete frame for
the forced one, so that the count only catches up; the order of frames survives, which
is proved below. If the consumer stalls, the count is too high and it does not: after two impossible cases in a row a frame is handed
out incomplete, and again when the missing result has come (seen with TLC in the fourth mode; not
one of the runs).

`manager_stop`. start() from STOPED fails after it started the analyzer and perhaps the hardware: `_state`
is still STOPED, and stop(), which tests it, returns 0 and leaves them running. A failed
start from PREPARED is cleaned up by stop().

### What the properties except

`NewestLast` excepts types with late results of this session: they are moved
to later frames, and the next one in time may join an earlier of those frames, so that the
drivers get the newer result first. `ResultsKept` holds when no frame
is forced; the count is right when, besides, the consumer keeps up. `StateIsTrue`,
`ModesAgree` and `SharedUnused` are not claimed after a step failed in between
(`failed`, `apart`); what remains then is `StopIsComplete`, and the finding above.
The exceptions of `AttribHandle` and `CalibUpdate` are described with the modules.

### Liveness and fairness

* `worker`: weak fairness of every pthread's step (each is the
  step of a runnable thread, or of a handler, which returns) and of the owner inside a
  call. No fairness of calls, pushes or spurious wake-ups.
* `pipeline`: weak fairness of `Work` alone, the steps of threads that have something to
  push or handle. It is the weakest form; that some thread goes on suffices because what the sensor served makes
  finitely much work. The sensor may fall silent and nobody has to start or stop.
* `attrib`: weak fairness of the algorithm's thread, i.e. frames keep coming while the
  sensor streams.
* `calib`: weak fairness of each group (it gets messages) and of a caller inside a call.
* `manager`: weak fairness of a thread inside a call, and of the command thread.

CHECK_DEADLOCK is off where publishers, calls, exposures and frames are bounded and the
model stops when they are used up; it is on for the worker.

## 4. The proofs

Proved with TLAPS, for all values of the constants under the named assumptions of
the modules. Type correctness (`TypeOK`) is proved first in each module; every other proof
uses it. Of the runs only `assembler` therefore checks `TypeOK`.

`WorkerThreadProofs`:

* `OneLoop`, `QuietAfterStop`. The invariant is `LoopInv`: at most one pthread is between
  its creation and the mark of `_stopped`; `_stopped` means that none is; outside of a
  stop(), so does the absence of `_started`; the list is paused only inside stop() or with
  no pthread, and loop() returns false only inside stop(). start() alone does not exclude two loops: it tests
  `_started`, which a pthread that leaves clears before it sets `_stopped`. What saves it
  is that only the owner starts and that its stop() waits for `_stopped`.
* `WakeUps`: `NoLostWakeUp`, the safety core of `StopTerminates` and `Drains`. The invariant
  `WakeInv` adds that the list is paused throughout a stop() and that a worker that has not stopped has
  a pthread in its loop. One signal is enough for a push because `LoopInv` leaves one pthread to
  wake, and a pthread that leaves its loop is on its way to the broadcast.
* `SessionsSeparate`, if triger_start clears the list: the list and the
  object at hand are at least `first` after a start.
* `WorkerIsFifo`: every step of `WorkerThread` is a step of `FifoWorker` or a stutter
  under `open <- opc /= "off"`, `queue <- list`, `busy <-` the object at hand.

`AnalyzerGroupProofs`:

* `PendingNew`, `InOrder`: the map holds only frames later than any analysed one,
  because each type arrives in increasing order: a late message of an old frame would
  need every type to arrive late, and the one that completed the newer frame has passed.
* `CompleteFrames`: an arrived message is in the map, analysed or dropped, or of a
  frame below an analysed one, which then was not complete.
* `SessionsSeparate`: start clears the queue, stop clears the map.
* `NoFrameLost`: while the publishers skip nothing and stay within `MaxSkew`, msgReduction
  drops nothing, if `MaxSkew` + `First` + `Delay` of each type is at most `MaxPending`. The
  queue is a FIFO, so that when a message is handled everything published more than
  `MaxSkew` frames behind it was handled before (`SkewInv`). A frame that far behind is
  therefore complete, and by `CompleteFrames` analysed, unless it is among the first ones,
  for which some type has no message. The frames in the map are then within `MaxSkew` of the
  newest, or among those first ones, and in either case too few for msgReduction.

`AnalyzePipelineProofs`, for any skew, thresholds, queue lengths, frames and sessions, with the
condition tables and delays of the code:

* `EachIsGroup`: each of the four groups implements `AnalyzerGroup`. A group publishes results in
  order only because it analyses its frames in order, which `AnalyzerGroupProofs` proves of a group
  whose publishers are in order; the four groups are each other's publishers, so none can be
  proved first. One invariant, `PipelineInv`, holds for all at once: the invariant of
  `AnalyzerGroupProofs` for each group (`EachInv`), and what is true of them `Together`. Of that part,
  `PushesReady`, `SensorAhead` and `ResultsAfter` say that nothing yet to be pushed is behind what was
  pushed before, and that results are of frames their group has analysed; `Phases`
  that a group is stopped only with nothing left to push. One step of the whole is a step of one
  group, or pushes to one, and stutters in the others.
* `ResultsComeFirst`: from `ResultsAfter`, since a group analyses a frame for which every type has
  arrived. With it a group never runs on a result of an earlier session.
* `NobodyWaitsInVain`, the safety core of `FrameFlows`. `Delivered`: if no post was left out, a message posted
  in this session is handled, queued or about to be pushed. When nothing is queued or about to
  be pushed it was handled, and `CompleteFrames` says that a frame with all its types is
  analysed or dropped: by AE from the statistics, by AWB from AE's result, by GRP0 and GRP1 from theirs.
  This order of the four is what the tables provide; with a cycle in them the proof and the run fail.
* `SessionsSeparateTogether`, `InOrderTogether`: what `AnalyzerGroupProofs` shows of a group, of the
  four as they run.
* `TypeCorrect`.

`AttribHandleProofs`:

* `LastSetInUse`, `NeverOlder`, `SignalledIsServed`. The invariant says that handle and
  context agree on what was handed over last, that call numbers only grow downstream
  (`Copies`), that the algorithm runs only in prepare() or while the core is up
  (`Running`), where the attribute set last is (`Wanted`), and that a signalled setter's
  attribute was handed over (`Served`).

`CalibUpdateProofs`:

* `FreedUnused`, `HandlesAgree`, for polite callers, any handles failing. The invariant: one call at a time, with
  the newest database (`OneCall`); freed databases are older than the one of the last
  tuning (`FreedAreOld`); between calls everything leads to the newest database (`AtRest`), and
  in a call to the newest or the one before, told place by place (`Brought`, `Offered`,
  `InTurn`). waitUpdateDone is what makes it inductive: content and tuning move on only with an
  empty mask, when every handle has the newest database or is left behind.

`AiqManagerProofs`, for any modes, any number of calls and results, any step failing:

* `TypeCorrect`, for polite and other callers. A call is at a place given by its operation
  and the number of its remaining steps, which are the end of that operation's list
  (`OnPath`), and each command in the queue has a caller of its own that waits (`Answers`).
* `StateTrue`, `ModesAgreed`, `NoResultStale`, `StopCompletes`, `SharedParamsUnused`, for polite
  callers. One call is under way at a time (`Alone`), and the invariant tells place by place what it
  did to the parts: what a stop has stopped (`Stopped`), what a start or a switch has started
  (`Started`), of which run the results are (`Fresh`), which mode the parts have
  (`SameMode`, `SameParams`). `Stopped` alone makes no exception for failed steps, which is why
  `StopCompletes` holds after any failure. Mutual exclusion is needed: the parts have no locks.
* `NobodyForgotten`: `WaitersServed`, the safety core of `SwitchReturns`, for polite and other callers.
  `ServedInv` follows who waits and for how long the command thread runs: from the end of init() to
  deInit(), nobody waiting before (`Early`), and a deInit that cleans up a failed init finds nothing
  running (`CmdLife`). For polite callers no switch is asked for during a deInit, so that nobody waits
  when the command thread stops; an overlapping deInit may leave a caller waiting, and `WaitersServed` says so.

`SensorExpProofs`, for any number of exposures, frames and sessions and any size of the map:

* `TypeCorrect`, `FirstsReach`, for any delays. Numbers increase along the list and are above
  all that was applied, and an exposure owed is applied or still the first of its table in the list (`ListInv`).
* `Settled`, if the delay of the time is not negative (the calibration gives it a range of 0 to 10,
  `src/include/iq_parser_v2/sensorinfo_head.h:169`). What each register got last is what
  `last` says, and what is held back is the rest of the exposure whose time was written last
  (`LastInv`); the entry recorded last has the greatest frame.
* `ReportsTrue`, if besides each accepted setting is one the driver can make up for
  (`OneFrame`): gain and dcg mode are as slow as the time or one frame faster, and a positive
  dcg delay if it is neither the time's nor the gain's. The driver
  holds a register back by exactly one frame, so that for others the property is false. The
  settings of the calibration files and of the runs are of this kind. The invariant says of every
  frame the map still covers that the registers decided so far are those of its entry
  (`TrueInv`), and that the registers the flags hold back are the faster ones (`Fitting`).

`IspParamsAssemblerProofs`, for any types of results, any limit of the map and any arrivals:

* `FramesOrdered`, `ImpossibleNever`. Where no frame is forced the map is `Good`. A frame
  is ready exactly if it lacks nothing, and none is ready beyond the latest (`Ordered`). An incomplete
  frame has all that later frames have, or lacks a type that will never come for it (`NeverFull`,
  `Missed`), and so does a frame that has no entry yet (`Holes`). So a late result that is
  moved completes no frame before the latest ready one. Where frames are forced and the
  consumer keeps up, at most as many frames are counted as are ready (`Steady`), so that what it takes is
  never beyond the latest ready frame. The impossible case keeps this: the count was 0 before it
  (`Drained`), and the latest ready frame is still in the map (`ForcedInv`).
* `CountTrue`, `FirstIsReady`: `StepInv`, where the consumer keeps up and no frame is forced.
  When a result comes no frame is ready, so that there is nothing to overtake.
* `NewestIsLast`: `OrderInv`, along the output and the frames of the map, in this order, the
  numbers of a type that was never late increase. It holds in every mode.
* `NothingLost`: `KeptInv`, a result is at exactly one position of one of the places where it may be.
* `TypeCorrect`, in every mode.

`Concat` and the loop in `Start` are recursive functions on numbers. That they have the values of
their equations, and what holds for all of these values, is proved from a least counterexample,
since the induction theorems that take an operator cannot be used.

Only model-checked:

* liveness, which is out of the prover's reach: `StopTerminates`, `Drains`, `SwitchReturns`,
  `FrameFlows`, `Settles`, `UpdateReturns`. Of the first four the safety core is proved: nobody
  sleeps while there is something to do (`NoLostWakeUp`, `WaitersServed`), and nothing is left
  undone when all messages have been handled (`NobodyWaits`). That the steps in between are finitely
  many rests on fairness and is checked by TLC;
* the properties that a run refutes.

## 5. Plan

Next, in this order:

1. `StatsCache`: cacheIspStatsToList, get3AStats and release (`RkAiqCore.cpp:1680`). The
   oldest cached entry is reused when the pool is empty; a stop clears the map of
   buffers the application still holds; a waiter may miss a stop followed by a quick start.
2. `LensSof`: the lens beside the sensor. `SensorI2c`: exposures given as registers.
3. `CamGroup`: results of several cameras matched by frame.
4. `BufferPool`, `PollThread`.
5. AF and the single-type groups in `AnalyzePipeline`; setGrpDeps.

Theorems to add: the loss-freedom of `NoFrameLost` for the four groups together, which needs
`close` of a group derived from what its publishers leave out; and the theorems of the modules above.
`EachIsGroup` is about the tables of the ISP 3.x; for any tables without a cycle it would need
induction along the order of the groups.

## 6. Not modelled

Algorithms, calibration parsing, translation of statistics, register layouts, the
user API's wrappers, servers and tools: computation or I/O without interesting
interleavings. Together they are most of the repository's lines, parsers and tables above all, and
the reason why the models cover a small share of it. The lifetime of objects (the detached pthread's last broadcast) is not
modelled.
