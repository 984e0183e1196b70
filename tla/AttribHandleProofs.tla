------------------------- MODULE AttribHandleProofs -------------------------
(***************************************************************************)
(* Proofs about AttribHandle: for any number of setters, of attributes and *)
(* of sessions, what was set last comes into use, a setter that was        *)
(* signalled was served, and attributes come into use in order.            *)
(***************************************************************************)
EXTENDS AttribHandle, TLAPS

\* The handle and the context share the attribute handed over last; nothing is
\* pending in the handle unless updateAtt says so; numbers only grow downstream.
Copies ==
  /\ curAtt = ctx.newAtt
  /\ ~updateAtt => newAtt = curAtt
  /\ ctx.curAtt.n =< curAtt.n /\ curAtt.n =< newAtt.n /\ newAtt.n =< sets

\* The algorithm runs in prepare() or while the core is up.
Running ==
  /\ preparing => state \notin {"started", "running"}
  /\ alg /= "idle" => preparing \/ state \in {"started", "running"}

\* Where the attribute that was set last is, if no call was excepted.
Wanted ==
  /\ newAtt.async => newAtt.n > 0
  /\ exact =>
       /\ newAtt.n > 0 => newAtt.v = want
       /\ updateAtt => newAtt.n > 0
       /\ ~updateAtt /\ ctx.updateAtt /\ alg /= "taken" => newAtt.n > 0
       /\ ~updateAtt /\ (~ctx.updateAtt \/ alg = "taken") => ctx.curAtt.v = want

\* The last setter's attribute is pending while it waits, and handed over once it
\* was signalled.
Served ==
  \A s \in Setters :
    lastSetter = s =>
      /\ caller[s].at = "waiting" => newAtt = caller[s].att
      /\ caller[s].at = "signalled" => newAtt = caller[s].att /\ curAtt = caller[s].att

\* The inductive invariant.
AttribInv == TypeOK /\ Copies /\ Running /\ Wanted /\ Served

-----------------------------------------------------------------------------
(* Types *)

\* The contexts of the algorithm and the calls of the setters.
Contexts == [newAtt : Attribs, curAtt : Attribs, updateAtt : BOOLEAN]
Calls == [at : {"idle", "waiting", "signalled"}, att : Attribs]

\* updateConfig keeps the types.
LEMMA UpdateConfigType ==
  ASSUME TypeOK, UpdateConfig
  PROVE  /\ newAtt' \in Attribs /\ curAtt' \in Attribs /\ updateAtt' \in BOOLEAN
         /\ ctx' \in Contexts /\ caller' \in [Setters -> Calls]
<1>1. newAtt' \in Attribs /\ curAtt' \in Attribs /\ updateAtt' \in BOOLEAN
  BY DEF UpdateConfig, TakeOver, TypeOK, handle
<1>2. ctx' \in Contexts
  BY DEF UpdateConfig, TakeOver, TypeOK, Contexts
<1>3. caller' \in [Setters -> Calls]
  <2>1. caller' = caller \/ \E s \in Setters : caller' = [caller EXCEPT ![s].at = "signalled"]
    BY DEF UpdateConfig, Signal, Waiting
  <2>2. \A s \in Setters : [caller[s] EXCEPT !.at = "signalled"] \in Calls
    BY DEF TypeOK, Calls
  <2>3. caller \in [Setters -> Calls]
    BY DEF TypeOK, Calls
  <2>4. QED
    BY <2>1, <2>2, <2>3
<1>4. QED
  BY <1>1, <1>2, <1>3

\* A call of setAttrib keeps the types.
LEMMA SetAttribType ==
  ASSUME TypeOK, NEW s \in Setters, SetAttrib(s)
  PROVE  TypeOK'
<1> USE AttribAssumption
<1>1. sets \in Nat /\ sets + 1 \in 0 .. MaxSets
  BY DEF SetAttrib, TypeOK
<1>2. PICK v \in Values, async \in BOOLEAN :
        /\ SetSame(s, Attrib(v, async, sets + 1)) \/ SetRunning(s, Attrib(v, async, sets + 1))
             \/ SetNow(s, Attrib(v, async, sets + 1))
        /\ want' = v
  BY DEF SetAttrib
<1> DEFINE a == Attrib(v, async, sets + 1)
<1>3. a \in Attribs
  BY <1>1 DEF Attrib, Attribs
<1>4. exact' \in BOOLEAN
  BY <1>2, Zenon DEF SetSame, SetRunning, SetNow, TypeOK
<1>5. caller \in [Setters -> Calls] /\ [at |-> "waiting", att |-> a] \in Calls
  BY <1>3 DEF TypeOK, Calls
<1> HIDE DEF a
<1>6. CASE SetSame(s, a)
  BY <1>1, <1>2, <1>4, <1>6 DEF SetSame, SetAttrib, handle, TypeOK
<1>7. CASE SetRunning(s, a)
  <2>1. caller' \in [Setters -> Calls]
    BY <1>5, <1>7 DEF SetRunning
  <2>2. QED
    BY <1>1, <1>2, <1>3, <1>4, <1>7, <2>1 DEF SetRunning, SetAttrib, TypeOK, Calls
<1>8. CASE SetNow(s, a)
  <2>1. ctx' \in Contexts
    BY <1>3, <1>8 DEF SetNow, TakeOver, TypeOK, Contexts
  <2>2. QED
    BY <1>1, <1>2, <1>3, <1>4, <1>8, <2>1 DEF SetNow, TakeOver, SetAttrib, TypeOK, Contexts
<1>9. QED
  BY <1>2, <1>6, <1>7, <1>8 DEF a

\* The types hold at first.
LEMMA InitType == Init => TypeOK
<1> SUFFICES ASSUME Init PROVE TypeOK
  OBVIOUS
<1>1. Attrib(Zero, FALSE, 0) \in Attribs /\ Attrib(FromCalib, FALSE, 0) \in Attribs
  BY AttribAssumption DEF Attrib, Attribs
<1>2. NoCall \in Calls
  BY <1>1 DEF NoCall, Calls
<1>3. ctx \in Contexts
  BY <1>1 DEF Init, Contexts
<1>4. caller \in [Setters -> Calls]
  BY <1>2 DEF Init
<1>5. preparing \in BOOLEAN /\ updateAtt \in BOOLEAN /\ exact \in BOOLEAN
  BY Zenon DEF Init
<1>6. newAtt \in Attribs /\ curAtt \in Attribs
  BY <1>1 DEF Init
<1>7. sets \in 0 .. MaxSets /\ sessions \in 0 .. MaxSessions
  BY AttribAssumption DEF Init
<1>8. want \in Values \cup {FromCalib}
  BY DEF Init
<1>9. QED
  BY <1>3, <1>4, <1>5, <1>6, <1>7, <1>8 DEF Init, TypeOK, Calls, Contexts

\* Every step keeps the types.
LEMMA NextType == TypeOK /\ [Next]_vars => TypeOK'
<1> SUFFICES ASSUME TypeOK, [Next]_vars PROVE TypeOK'
  OBVIOUS
<1>1. ASSUME NEW s \in Setters, SetAttrib(s) PROVE TypeOK'
  BY <1>1, SetAttribType
<1>2. ASSUME NEW s \in Setters, SetReturns(s) PROVE TypeOK'
  <2>1. NoCall \in Calls
    BY AttribAssumption DEF NoCall, Calls, Attrib, Attribs
  <2>2. caller' \in [Setters -> Calls]
    BY <1>2, <2>1 DEF SetReturns, TypeOK, Calls
  <2>3. QED
    BY <1>2, <2>2 DEF SetReturns, handle, history, TypeOK, Calls
<1>3. CASE Prepare
  BY <1>3, UpdateConfigType DEF Prepare, history, TypeOK, Contexts, Calls
<1>4. CASE Start
  BY <1>4, AttribAssumption DEF Start, handle, TypeOK
<1>5. CASE FirstStats
  BY <1>5 DEF FirstStats, handle, history, TypeOK
<1>6. CASE Stop
  BY <1>6 DEF Stop, handle, history, TypeOK
<1>7. CASE PreProcess
  BY <1>7, UpdateConfigType DEF PreProcess, history, TypeOK, Contexts, Calls
<1>8. CASE TakeAttrib
  BY <1>8 DEF TakeAttrib, handle, history, TypeOK
<1>9. CASE ClearUpdate
  BY <1>9 DEF ClearUpdate, handle, history, TypeOK
<1>10. CASE UNCHANGED vars
  BY <1>10 DEF vars, handle, history, TypeOK
<1>11. QED
  BY <1>1, <1>2, <1>3, <1>4, <1>5, <1>6, <1>7, <1>8, <1>9, <1>10 DEF Next, Analyze

\* Every variable keeps its type.
THEOREM TypeCorrect == FairSpec => []TypeOK
BY InitType, NextType, PTL DEF FairSpec, Spec

-----------------------------------------------------------------------------
(* What each action does to the invariant *)

\* At first nothing is pending, and the calibration's attribute is in use.
LEMMA InitInv == Init => AttribInv
<1> SUFFICES ASSUME Init PROVE AttribInv
  OBVIOUS
<1>1. Copies /\ Running /\ Wanted /\ Served
  BY DEF Init, Attrib, NoCall, Copies, Running, Wanted, Served
<1>2. QED
  BY <1>1, InitType DEF AttribInv

\* Numbers of attributes are integers.
LEMMA Numbers ==
  ASSUME TypeOK
  PROVE  /\ sets \in Nat /\ newAtt.n \in Nat /\ curAtt.n \in Nat /\ ctx.curAtt.n \in Nat
         /\ ctx.newAtt.n \in Nat
BY AttribAssumption DEF TypeOK, Attribs

\* After updateConfig nothing is pending in the handle.
LEMMA UpdateConfigKeeps ==
  ASSUME AttribInv, UpdateConfig
  PROVE  /\ newAtt' = newAtt /\ curAtt' = newAtt /\ ctx'.newAtt = newAtt /\ updateAtt' = FALSE
         /\ ctx'.curAtt = ctx.curAtt
         /\ updateAtt => ctx'.updateAtt
         /\ ~updateAtt => ctx' = ctx
<1>1. CASE updateAtt
  BY <1>1 DEF UpdateConfig, TakeOver, AttribInv, TypeOK
<1>2. CASE ~updateAtt
  BY <1>2 DEF UpdateConfig, handle, AttribInv, TypeOK, Copies
<1>3. QED
  BY <1>1, <1>2

\* It serves who waits: the one it signals finds its attribute handed over.
LEMMA UpdateConfigServes ==
  ASSUME AttribInv, UpdateConfig, lastSetter' = lastSetter
  PROVE  Served'
<1> SUFFICES ASSUME NEW s \in Setters, lastSetter = s
             PROVE  /\ caller'[s].at = "waiting" => newAtt' = caller'[s].att
                    /\ caller'[s].at = "signalled" =>
                         newAtt' = caller'[s].att /\ curAtt' = caller'[s].att
  BY DEF Served
<1>1. newAtt' = newAtt /\ curAtt' = newAtt
  BY UpdateConfigKeeps
<1>2. PICK r \in Setters :
        \/ caller' = caller
        \/ caller[r].at = "waiting" /\ caller' = [caller EXCEPT ![r].at = "signalled"]
  BY DEF UpdateConfig, Signal, Waiting
<1>3. CASE caller' = caller
  BY <1>1, <1>3 DEF AttribInv, Served
<1>4. CASE caller[r].at = "waiting" /\ caller' = [caller EXCEPT ![r].at = "signalled"]
  BY <1>1, <1>4 DEF AttribInv, Served, TypeOK
<1>5. QED
  BY <1>2, <1>3, <1>4

\* prepare() starts an analysis while the core is down.
LEMMA PrepareKeeps ==
  ASSUME AttribInv, Prepare
  PROVE  Copies' /\ Running' /\ Wanted' /\ Served'
<1>1. /\ newAtt' = newAtt /\ curAtt' = newAtt /\ ctx'.newAtt = newAtt /\ updateAtt' = FALSE
      /\ ctx'.curAtt = ctx.curAtt /\ (updateAtt => ctx'.updateAtt) /\ (~updateAtt => ctx' = ctx)
  BY UpdateConfigKeeps DEF Prepare
<1>2. Copies'
  BY <1>1, Numbers DEF Prepare, history, AttribInv, Copies
<1>3. Running'
  BY DEF Prepare, AttribInv, Running
<1>4. Wanted'
  BY <1>1, Numbers DEF Prepare, history, AttribInv, Wanted, Running
<1>5. Served'
  BY UpdateConfigServes DEF Prepare, history
<1>6. QED
  BY <1>2, <1>3, <1>4, <1>5

\* So does preProcess, for every frame.
LEMMA PreProcessKeeps ==
  ASSUME AttribInv, PreProcess
  PROVE  Copies' /\ Running' /\ Wanted' /\ Served'
<1>1. /\ newAtt' = newAtt /\ curAtt' = newAtt /\ ctx'.newAtt = newAtt /\ updateAtt' = FALSE
      /\ ctx'.curAtt = ctx.curAtt /\ (updateAtt => ctx'.updateAtt) /\ (~updateAtt => ctx' = ctx)
  BY UpdateConfigKeeps DEF PreProcess
<1>2. Copies'
  BY <1>1, Numbers DEF PreProcess, history, AttribInv, Copies
<1>3. Running'
  BY DEF PreProcess, AttribInv, Running
<1>4. Wanted'
  BY <1>1, Numbers DEF PreProcess, history, AttribInv, Wanted
<1>5. Served'
  BY UpdateConfigServes DEF PreProcess, history
<1>6. QED
  BY <1>2, <1>3, <1>4, <1>5

\* The algorithm copies what was handed over last.
LEMMA TakeAttribKeeps ==
  ASSUME AttribInv, TakeAttrib
  PROVE  Copies' /\ Running' /\ Wanted' /\ Served'
<1>1. /\ ctx'.newAtt = ctx.newAtt /\ ctx'.updateAtt = ctx.updateAtt
      /\ ctx'.curAtt = IF ctx.updateAtt THEN ctx.newAtt ELSE ctx.curAtt
  BY DEF TakeAttrib, AttribInv, TypeOK
<1>2. Copies'
  BY <1>1, Numbers DEF TakeAttrib, handle, history, AttribInv, Copies
<1>3. Running'
  BY DEF TakeAttrib, AttribInv, Running
<1>4. Wanted'
  BY <1>1, Numbers DEF TakeAttrib, handle, history, AttribInv, Copies, Wanted
<1>5. Served'
  BY DEF TakeAttrib, handle, history, AttribInv, Served
<1>6. QED
  BY <1>2, <1>3, <1>4, <1>5

\* The algorithm has used what it copied.
LEMMA ClearUpdateKeeps ==
  ASSUME AttribInv, ClearUpdate
  PROVE  Copies' /\ Running' /\ Wanted' /\ Served'
<1>1. ctx'.newAtt = ctx.newAtt /\ ctx'.updateAtt = FALSE /\ ctx'.curAtt = ctx.curAtt
  BY DEF ClearUpdate, AttribInv, TypeOK
<1>2. Copies'
  BY <1>1 DEF ClearUpdate, handle, history, AttribInv, Copies
<1>3. Running'
  BY DEF ClearUpdate, AttribInv, Running
<1>4. Wanted'
  BY <1>1 DEF ClearUpdate, handle, history, AttribInv, Wanted
<1>5. Served'
  BY DEF ClearUpdate, handle, history, AttribInv, Served
<1>6. QED
  BY <1>2, <1>3, <1>4, <1>5

\* A call that changes nothing.
LEMMA SetSameKeeps ==
  ASSUME AttribInv, NEW s \in Setters, SetAttrib(s), NEW v \in Values, NEW async \in BOOLEAN,
         SetSame(s, Attrib(v, async, sets + 1)), want' = v
  PROVE  Copies' /\ Running' /\ Wanted' /\ Served'
<1>1. Copies'
  BY Numbers DEF SetSame, SetAttrib, handle, AttribInv, Copies
<1>2. Running'
  BY DEF SetAttrib, AttribInv, Running
<1>3. Wanted'
  BY Numbers DEF SetSame, SetAttrib, Changed, Same, Attrib, handle, AttribInv, Copies, Wanted
<1>4. Served'
  BY DEF SetSame, AttribInv, Served, handle
<1>5. QED
  BY <1>1, <1>2, <1>3, <1>4

\* A call while the core is RUNNING.
LEMMA SetRunningKeeps ==
  ASSUME AttribInv, NEW s \in Setters, SetAttrib(s), NEW v \in Values, NEW async \in BOOLEAN,
         SetRunning(s, Attrib(v, async, sets + 1)), want' = v
  PROVE  Copies' /\ Running' /\ Wanted' /\ Served'
<1> DEFINE a == Attrib(v, async, sets + 1)
<1>1. a.n = sets + 1 /\ a.v = v /\ newAtt' = a /\ updateAtt' = TRUE /\ curAtt' = curAtt /\ ctx' = ctx
      /\ exact' = TRUE /\ lastSetter' = s
      /\ caller' = IF async THEN caller ELSE [caller EXCEPT ![s] = [at |-> "waiting", att |-> a]]
  BY DEF SetRunning, Attrib
<1> HIDE DEF a
<1>2. caller[s].at = "idle" /\ sets' = sets + 1
  BY DEF SetAttrib
<1>3. Copies'
  BY <1>1, <1>2, Numbers DEF AttribInv, Copies
<1>4. Running'
  BY DEF SetAttrib, AttribInv, Running
<1>5. Wanted'
  BY <1>1, Numbers DEF AttribInv, Wanted
<1>6. Served'
  <2>1. CASE async
    BY <1>1, <1>2, <2>1 DEF Served
  <2>2. CASE ~async
    BY <1>1, <2>2 DEF Served, AttribInv, TypeOK
  <2>3. QED
    BY <2>1, <2>2
<1>7. QED
  BY <1>3, <1>4, <1>5, <1>6

\* A call while it is not.
LEMMA SetNowKeeps ==
  ASSUME AttribInv, NEW s \in Setters, SetAttrib(s), NEW v \in Values, NEW async \in BOOLEAN,
         SetNow(s, Attrib(v, async, sets + 1)), want' = v
  PROVE  Copies' /\ Running' /\ Wanted' /\ Served'
<1> DEFINE a == Attrib(v, async, sets + 1)
<1>1. /\ a.n = sets + 1 /\ a.v = v /\ newAtt' = a /\ updateAtt' = FALSE /\ curAtt' = a
      /\ ctx' = [ctx EXCEPT !.newAtt = a, !.updateAtt = TRUE]
      /\ exact' = (alg /= "taken") /\ lastSetter' = s /\ caller' = caller
  BY DEF SetNow, TakeOver, Attrib
<1>2. ctx'.newAtt = a /\ ctx'.updateAtt = TRUE /\ ctx'.curAtt = ctx.curAtt
  BY <1>1 DEF AttribInv, TypeOK
<1> HIDE DEF a
<1>3. caller[s].at = "idle" /\ sets' = sets + 1 /\ alg' = alg
  BY DEF SetAttrib
<1>4. Copies'
  BY <1>1, <1>2, <1>3, Numbers DEF AttribInv, Copies
<1>5. Running'
  BY DEF SetAttrib, AttribInv, Running
<1>6. Wanted'
  <2>1. exact' => alg' /= "taken"
    BY <1>1, <1>3, Zenon
  <2>2. newAtt'.n > 0 /\ newAtt'.v = want'
    BY <1>1, Numbers DEF AttribInv
  <2>3. QED
    BY <1>1, <1>2, <2>1, <2>2 DEF Wanted
<1>7. Served'
  BY <1>1, <1>3 DEF Served
<1>8. QED
  BY <1>4, <1>5, <1>6, <1>7

\* Every step keeps the invariant.
LEMMA NextInv == AttribInv /\ [Next]_vars => AttribInv'
<1> SUFFICES ASSUME AttribInv, [Next]_vars PROVE Copies' /\ Running' /\ Wanted' /\ Served'
  BY NextType DEF AttribInv
<1>1. ASSUME NEW s \in Setters, SetAttrib(s)
      PROVE  Copies' /\ Running' /\ Wanted' /\ Served'
  <2>1. PICK v \in Values, async \in BOOLEAN :
          /\ SetSame(s, Attrib(v, async, sets + 1)) \/ SetRunning(s, Attrib(v, async, sets + 1))
               \/ SetNow(s, Attrib(v, async, sets + 1))
          /\ want' = v
    BY <1>1 DEF SetAttrib
  <2>2. QED
    BY <1>1, <2>1, SetSameKeeps, SetRunningKeeps, SetNowKeeps
<1>2. ASSUME NEW s \in Setters, SetReturns(s)
      PROVE  Copies' /\ Running' /\ Wanted' /\ Served'
  BY <1>2 DEF SetReturns, NoCall, handle, history, AttribInv, TypeOK, Copies, Running, Wanted, Served
<1>3. CASE Prepare
  BY <1>3, PrepareKeeps
<1>4. CASE Start
  BY <1>4 DEF Start, handle, AttribInv, Copies, Running, Wanted, Served
<1>5. CASE FirstStats
  BY <1>5 DEF FirstStats, handle, history, AttribInv, Copies, Running, Wanted, Served
<1>6. CASE Stop
  BY <1>6 DEF Stop, handle, history, AttribInv, Copies, Running, Wanted, Served
<1>7. CASE PreProcess
  BY <1>7, PreProcessKeeps
<1>8. CASE TakeAttrib
  BY <1>8, TakeAttribKeeps
<1>9. CASE ClearUpdate
  BY <1>9, ClearUpdateKeeps
<1>10. CASE UNCHANGED vars
  BY <1>10 DEF vars, handle, history, AttribInv, Copies, Running, Wanted, Served
<1>11. QED
  BY <1>1, <1>2, <1>3, <1>4, <1>5, <1>6, <1>7, <1>8, <1>9, <1>10 DEF Next, Analyze

-----------------------------------------------------------------------------
(* The theorems *)

\* The attribute set last is the one in use once nothing is pending.
THEOREM LastSetInUse == FairSpec => []LastSetWins
<1>1. AttribInv => LastSetWins
  BY DEF AttribInv, Wanted, LastSetWins
<1>2. QED
  BY <1>1, InitInv, NextInv, PTL DEF FairSpec, Spec

\* A setter that was signalled was served.
THEOREM SignalledIsServed == FairSpec => []SyncIsHanded
<1>1. AttribInv => SyncIsHanded
  BY DEF AttribInv, Copies, Served, SyncIsHanded
<1>2. QED
  BY <1>1, InitInv, NextInv, PTL DEF FairSpec, Spec

\* The algorithm never goes back to an attribute set earlier.
THEOREM NeverOlder == FairSpec => InOrder
<1>1. AttribInv /\ [Next]_vars => [ctx'.curAtt.n >= ctx.curAtt.n]_vars
  <2> SUFFICES ASSUME AttribInv, [Next]_vars PROVE ctx'.curAtt = ctx.curAtt \/ ctx'.curAtt = ctx.newAtt
    BY Numbers DEF AttribInv, Copies
  <2>1. \/ ctx'.curAtt = ctx.curAtt \/ ctx' = ctx \/ TakeAttrib \/ UpdateConfig
        \/ \E a : TakeOver(a)
        \/ ctx' = [ctx EXCEPT !.updateAtt = FALSE]
    BY DEF Next, Analyze, SetAttrib, SetSame, SetRunning, SetNow, SetReturns, Prepare, Start,
           FirstStats, Stop, PreProcess, ClearUpdate, vars
  <2>2. CASE TakeAttrib
    BY <2>2 DEF TakeAttrib, AttribInv, TypeOK
  <2>3. CASE UpdateConfig
    BY <2>3, UpdateConfigKeeps
  <2>4. ASSUME NEW a, TakeOver(a) PROVE ctx'.curAtt = ctx.curAtt
    BY <2>4 DEF TakeOver, AttribInv, TypeOK
  <2>5. CASE ctx' = [ctx EXCEPT !.updateAtt = FALSE]
    BY <2>5 DEF AttribInv, TypeOK
  <2>6. QED
    BY <2>1, <2>2, <2>3, <2>4, <2>5
<1>2. QED
  BY <1>1, InitInv, NextInv, PTL DEF FairSpec, Spec, InOrder
=============================================================================
