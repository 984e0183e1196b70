---------------------------- MODULE AttribHandle ----------------------------
(***************************************************************************)
(* An algorithm handle and the attribute the application sets through it,  *)
(* by the example of RkAiqAccmHandleInt; the other handles are alike.  An  *)
(* attribute goes through three copies: setAttrib puts it in the handle's  *)
(* mNewAtt, updateConfig hands it to the algorithm's context, and the      *)
(* algorithm takes it into use when it runs.  mCfgMutex covers the first   *)
(* two steps; the third is unlocked.                                       *)
(*                                                                         *)
(* While the core is RUNNING the analyzer's thread calls updateConfig and  *)
(* a synchronous setter waits for it, at most 100 ms; otherwise the setter *)
(* calls updateConfig itself.                                              *)
(***************************************************************************)
EXTENDS Integers, FiniteSets

CONSTANTS
  Setters,     \* threads that call setAttrib
  Values,      \* contents of an attribute
  Zero,        \* one of them: the handle's memory is cleared at first
  FromCalib,   \* the content the algorithm starts with
  MaxSets,     \* bound: calls of setAttrib
  MaxSessions  \* bound: calls of start()

ASSUME AttribAssumption ==
  /\ Zero \in Values /\ FromCalib \notin Values
  /\ MaxSets \in Nat /\ MaxSessions \in Nat

VARIABLES
  state,      \* RkAiqCore::mState
  preparing,  \* RkAiqCore::prepare() is under way
  newAtt,     \* mNewAtt of the handle
  curAtt,     \* mCurAtt of the handle
  updateAtt,  \* updateAtt of the handle
  ctx,        \* the algorithm's context: its mNewAtt, mCurAtt, updateAtt
  alg,        \* where the thread that runs the algorithm is
  caller,     \* caller[s]: where setter s is, and its attribute
  sets,       \* history: number of calls of setAttrib
  sessions,   \* history: number of calls of start()
  want,       \* history: content of the last call
  exact,      \* history: see LastSetWins
  lastSetter  \* history: who made the last call that changed mNewAtt

handle == <<newAtt, curAtt, updateAtt>>
history == <<sets, sessions, want, exact, lastSetter>>
vars == <<state, preparing, handle, ctx, alg, caller, history>>

\* n counts the calls; it is history, and no comparison of the code looks at it.
Attribs == [v : Values \cup {FromCalib}, async : BOOLEAN, n : 0 .. MaxSets]
Attrib(v, async, n) == [v |-> v, async |-> async, n |-> n]
Same(a, b) == a.v = b.v /\ a.async = b.async

NoCall == [at |-> "idle", att |-> Attrib(Zero, FALSE, 0)]

Init ==
  /\ state = "inited" /\ preparing = FALSE
  /\ newAtt = Attrib(Zero, FALSE, 0) /\ curAtt = newAtt /\ updateAtt = FALSE
  /\ ctx = [newAtt |-> newAtt, curAtt |-> Attrib(FromCalib, FALSE, 0), updateAtt |-> FALSE]
  /\ alg = "idle"
  /\ caller = [s \in Setters |-> NoCall]
  /\ sets = 0 /\ sessions = 0
  /\ want = FromCalib /\ exact = TRUE /\ lastSetter \in Setters

-----------------------------------------------------------------------------
(* updateConfig and setAttrib *)

\* Mutant: the context gets the attribute before the handle's copy is renewed.
TakeOver_Stale(a) ==
  /\ curAtt' = a /\ updateAtt' = FALSE
  /\ ctx' = [ctx EXCEPT !.newAtt = curAtt, !.updateAtt = TRUE]

\* What updateConfig does with a new attribute a.
TakeOver(a) ==
  /\ curAtt' = a /\ updateAtt' = FALSE
  /\ ctx' = [ctx EXCEPT !.newAtt = a, !.updateAtt = TRUE]

Waiting == {s \in Setters : caller[s].at = "waiting"}

\* sendSignal wakes one waiting setter, if the attribute is synchronous.
Signal(a) ==
  IF a.async \/ state /= "running" \/ Waiting = {}
  THEN UNCHANGED caller
  ELSE \E s \in Waiting : caller' = [caller EXCEPT ![s].at = "signalled"]

UpdateConfig ==
  IF updateAtt
  THEN TakeOver(newAtt) /\ Signal(newAtt) /\ UNCHANGED newAtt
  ELSE UNCHANGED <<handle, ctx, caller>>

\* Mutant: both kinds are compared with the attribute in use.
Changed_Cur(a) == ~Same(a, curAtt)

Changed(a) == ~Same(a, IF a.async THEN newAtt ELSE curAtt)

\* The call has no effect.  A synchronous attribute may equal the one last
\* handed over and differ from one that is pending, or from the calibration's.
SetSame(s, a) ==
  /\ ~Changed(a)
  /\ exact' = (exact /\ (~a.async => a.v = want))
  /\ UNCHANGED <<handle, ctx, caller, lastSetter>>

\* Mutant: an asynchronous attribute is handed over past the one that is pending.
SetRunning_Past(s, a) ==
  /\ Changed(a) /\ state = "running"
  /\ exact' = TRUE /\ lastSetter' = s
  /\ IF a.async
     THEN /\ ctx' = [ctx EXCEPT !.newAtt = a, !.updateAtt = TRUE]
          /\ UNCHANGED <<handle, caller>>
     ELSE /\ newAtt' = a /\ updateAtt' = TRUE
          /\ caller' = [caller EXCEPT ![s] = [at |-> "waiting", att |-> a]]
          /\ UNCHANGED <<curAtt, ctx>>

SetRunning(s, a) ==
  /\ Changed(a) /\ state = "running"
  /\ newAtt' = a /\ updateAtt' = TRUE
  /\ caller' = IF a.async THEN caller
                          ELSE [caller EXCEPT ![s] = [at |-> "waiting", att |-> a]]
  /\ exact' = TRUE /\ lastSetter' = s
  /\ UNCHANGED <<curAtt, ctx>>

\* If the algorithm is between its test of updateAtt and the statement that
\* clears it, the attribute is handed over and forgotten.
SetNow(s, a) ==
  /\ Changed(a) /\ state /= "running"
  /\ newAtt' = a /\ TakeOver(a)
  /\ exact' = (alg /= "taken") /\ lastSetter' = s
  /\ UNCHANGED caller

SetAttrib(s) ==
  /\ caller[s].at = "idle" /\ sets < MaxSets
  /\ \E v \in Values, async \in BOOLEAN :
       LET a == Attrib(v, async, sets + 1)
       IN  /\ SetSame(s, a) \/ SetRunning(s, a) \/ SetNow(s, a)
           /\ want' = v
  /\ sets' = sets + 1
  /\ UNCHANGED <<state, preparing, alg, sessions>>

\* waitSignal returns: signalled, or after 100 ms (or woken for no reason).
SetReturns(s) ==
  /\ caller[s].at /= "idle"
  /\ caller' = [caller EXCEPT ![s] = NoCall]
  /\ UNCHANGED <<state, preparing, handle, ctx, alg, history>>

-----------------------------------------------------------------------------
(* The core *)

\* prepare(): updateConfig, then one analysis in the caller's thread.
Prepare ==
  /\ state \in {"inited", "prepared", "stoped"} /\ ~preparing /\ sessions < MaxSessions
  /\ preparing' = TRUE /\ UpdateConfig
  /\ UNCHANGED <<state, alg, history>>

Start ==
  /\ state \in {"prepared", "stoped"} /\ ~preparing /\ sessions < MaxSessions
  /\ state' = "started" /\ sessions' = sessions + 1
  /\ UNCHANGED <<preparing, handle, ctx, alg, caller, sets, want, exact, lastSetter>>

FirstStats ==
  /\ state = "started"
  /\ state' = "running"
  /\ UNCHANGED <<preparing, handle, ctx, alg, caller, history>>

\* stop() waits for the analysis under way.
Stop ==
  /\ state \in {"started", "running"} /\ alg = "idle"
  /\ state' = "stoped"
  /\ UNCHANGED <<preparing, handle, ctx, alg, caller, history>>

-----------------------------------------------------------------------------
(* An analysis of a frame: preProcess, then AccmConfig in two steps *)

PreProcess ==
  /\ alg = "idle" /\ (preparing \/ state \in {"started", "running"})
  /\ UpdateConfig
  /\ alg' = "entered"
  /\ UNCHANGED <<state, preparing, history>>

TakeAttrib ==
  /\ alg = "entered" /\ alg' = "taken"
  /\ ctx' = IF ctx.updateAtt THEN [ctx EXCEPT !.curAtt = ctx.newAtt] ELSE ctx
  /\ UNCHANGED <<state, preparing, handle, caller, history>>

\* Mutant: the flag is not cleared.
ClearUpdate_Forgotten ==
  /\ alg = "taken" /\ alg' = "idle"
  /\ preparing' = FALSE
  /\ state' = IF preparing THEN "prepared" ELSE state
  /\ UNCHANGED <<handle, ctx, caller, history>>

ClearUpdate ==
  /\ alg = "taken" /\ alg' = "idle"
  /\ ctx' = [ctx EXCEPT !.updateAtt = FALSE]
  /\ preparing' = FALSE
  /\ state' = IF preparing THEN "prepared" ELSE state
  /\ UNCHANGED <<handle, caller, history>>

Analyze == PreProcess \/ TakeAttrib \/ ClearUpdate

Next ==
  \/ \E s \in Setters : SetAttrib(s) \/ SetReturns(s)
  \/ Prepare \/ Start \/ FirstStats \/ Stop
  \/ Analyze

Spec == Init /\ [][Next]_vars

\* Frames keep coming while the sensor streams.
FairSpec == Spec /\ WF_vars(Analyze)

-----------------------------------------------------------------------------
(* Properties *)

\* Every variable has a value of its type.
TypeOK ==
  /\ state \in {"inited", "prepared", "started", "running", "stoped"}
  /\ preparing \in BOOLEAN
  /\ newAtt \in Attribs /\ curAtt \in Attribs /\ updateAtt \in BOOLEAN
  /\ ctx \in [newAtt : Attribs, curAtt : Attribs, updateAtt : BOOLEAN]
  /\ alg \in {"idle", "entered", "taken"}
  /\ caller \in [Setters -> [at : {"idle", "waiting", "signalled"}, att : Attribs]]
  /\ sets \in 0 .. MaxSets /\ sessions \in 0 .. MaxSessions
  /\ want \in Values \cup {FromCalib} /\ exact \in BOOLEAN /\ lastSetter \in Setters

\* Once nothing is pending, the algorithm uses what was set last, whatever the
\* mix of synchronous and asynchronous calls, of setters and of sessions.  Two
\* kinds of calls are excepted (exact is FALSE after them): a synchronous call
\* that setAttrib drops because it equals mCurAtt although something else is
\* pending or in use, and a call before the core is RUNNING that meets the
\* algorithm between its copy and the clearing of updateAtt.
LastSetWins == exact /\ ~updateAtt /\ ~ctx.updateAtt => ctx.curAtt.v = want

\* A synchronous setter that was signalled returns with its attribute in the
\* algorithm's context, unless somebody set another one meanwhile.
SyncIsHanded ==
  \A s \in Setters :
    caller[s].at = "signalled" /\ lastSetter = s => ctx.newAtt = caller[s].att

\* Attributes come into use in the order they were set: one that is pending from
\* an earlier session never replaces one set later.
InOrder == [][ctx'.curAtt.n >= ctx.curAtt.n]_vars

\* What was set is in use sooner or later, as long as the core is not stopped.
Settles ==
  (updateAtt \/ ctx.updateAtt) ~>
    ((~updateAtt /\ ~ctx.updateAtt) \/ state \notin {"started", "running"})
=============================================================================
