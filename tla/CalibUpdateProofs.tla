------------------------- MODULE CalibUpdateProofs -------------------------
(***************************************************************************)
(* Proofs about CalibUpdate: for any number of groups, handles and callers *)
(* that do not overlap, nothing but handles left behind leads to a freed   *)
(* database, and between calls all others have the database of the last    *)
(* call.                                                                   *)
(***************************************************************************)
EXTENDS CalibUpdate, TLAPS

\* At most one caller is in a call, with the newest database.
OneCall ==
  /\ \A c \in Callers : call[c].at = "idle" => call[c] = Idle
  /\ \A c, d \in Callers : call[c] /= Idle /\ call[d] /= Idle => c = d
  /\ \A c \in Callers : call[c] /= Idle => call[c].db = dbs /\ tuning < dbs

\* The databases freed are older than the one of the last tuning.
FreedAreOld ==
  /\ tuning =< dbs
  /\ \A d \in freed : d < tuning

\* Between calls everything leads to the newest database.
AtRest ==
  Quiet =>
    /\ content = dbs /\ Offer = dbs /\ mask = {}
    /\ \A h \in Handles \ behind : uses[h] = dbs

\* Before a caller has published everything leads to the database before the newest,
\* but the manager's context, which a new file has already overwritten.
Brought ==
  \A c \in Callers : call[c].at = "publish" =>
    /\ content = (IF call[c].iq THEN dbs ELSE dbs - 1)
    /\ calibv2 \in {Own, dbs - 1} /\ mask = {}
    /\ \A h \in Handles \ behind : uses[h] = dbs - 1

\* From then on the newest is on offer, and a group that has been counted has it.
Offered ==
  \A c \in Callers : call[c].at \in {"notify", "wait"} =>
    /\ update /\ calibv2 = (IF call[c].iq THEN Own ELSE dbs)
    /\ content = (IF call[c].iq THEN dbs ELSE dbs - 1)
    /\ \A h \in Handles \ behind : uses[h] \in {dbs - 1, dbs}
    /\ call[c].at = "notify" => mask = {}
    /\ call[c].at = "wait" => \A h \in Handles \ behind : GroupOf[h] \notin mask => uses[h] = dbs

\* Without the groups the caller has the handles adopt the manager's context in turn.
InTurn ==
  \A c \in Callers : call[c].at = "brutal" =>
    /\ calibv2 = Own /\ update /\ content = dbs /\ mask = {}
    /\ \A h \in Handles \ behind : uses[h] = dbs \/ (h \in call[c].todo /\ uses[h] = dbs - 1)

PoliteInv == OneCall /\ FreedAreOld /\ AtRest /\ Brought /\ Offered /\ InTurn

\* The inductive invariant.
CalibInv ==
  /\ TypeOK
  /\ polite => PoliteInv

-----------------------------------------------------------------------------
(* Types *)

\* The records of call that the actions write.
Calls == [at : {"idle", "publish", "notify", "wait", "brutal"},
          iq : BOOLEAN, db : Dbs, todo : SUBSET Handles]

\* Handles adopt a database that exists.
LEMMA AdoptType ==
  ASSUME TypeOK, NEW D, NEW H \in SUBSET Handles, Adopt(D, H)
  PROVE  uses' \in [Handles -> Dbs] /\ behind' \subseteq Handles
<1>1. Offer \in Dbs
  BY DEF Offer, TypeOK
<1>2. uses' \in [Handles -> Dbs]
  BY <1>1 DEF Adopt, TypeOK
<1>3. QED
  BY <1>2 DEF Adopt, TypeOK

\* The types hold at first.
LEMMA InitType == Init => TypeOK
<1> USE CalibAssumption
<1> SUFFICES ASSUME Init PROVE TypeOK
  OBVIOUS
<1>1. 0 \in Dbs /\ 0 \in 0 .. MaxSessions /\ Idle \in Calls
  BY DEF Dbs, Idle, Calls
<1>2. enabled \in [Handles -> BOOLEAN] /\ polite \in BOOLEAN
  BY Zenon DEF Init, CalibAssumption
<1>3. uses \in [Handles -> Dbs] /\ call \in [Callers -> Calls]
  BY <1>1 DEF Init
<1>4. QED
  BY <1>1, <1>2, <1>3 DEF Init, TypeOK, Own, None, Calls

\* Every step keeps the types.
LEMMA NextType == TypeOK /\ [Next]_vars => TypeOK'
<1> USE CalibAssumption
<1> SUFFICES ASSUME TypeOK, [Next]_vars PROVE TypeOK'
  OBVIOUS
<1>0. /\ MaxDbs \in Nat /\ 0 \in Dbs
      /\ \A c \in Callers : May(c) => dbs + 1 \in Dbs
  BY DEF TypeOK, Dbs, May
<1> HIDE CalibAssumption
<1>1. ASSUME NEW c \in Callers, Tune(c) PROVE TypeOK'
  <2>1. call' \in [Callers -> Calls]
    BY <1>0, <1>1 DEF Tune, TypeOK, Calls, Idle
  <2>2. QED
    BY <1>0, <1>1, <2>1 DEF Tune, core, manager, TypeOK, Calls
<1>2. ASSUME NEW c \in Callers, UpdateIq(c) PROVE TypeOK'
  <2>1. call' \in [Callers -> Calls]
    <3>1. dbs + 1 \in Dbs /\ {} \in SUBSET Groups /\ Groups \in SUBSET Groups
      BY <1>0, <1>2 DEF UpdateIq
    <3>2. /\ [at |-> "publish", iq |-> TRUE, db |-> dbs + 1, todo |-> {}] \in Calls
          /\ [at |-> "brutal", iq |-> TRUE, db |-> dbs + 1, todo |-> Handles] \in Calls
      BY <3>1 DEF Calls
    <3>3. call \in [Callers -> Calls]
      BY DEF TypeOK, Calls
    <3>4. CASE state = "running"
      BY <1>2, <3>2, <3>3, <3>4 DEF UpdateIq
    <3>5. CASE state /= "running"
      BY <1>2, <3>2, <3>3, <3>5 DEF UpdateIq
    <3>6. QED
      BY <3>4, <3>5
  <2>2. content' \in Dbs /\ dbs' \in Dbs /\ calibv2' \in Dbs /\ update' \in BOOLEAN
    BY <1>0, <1>2 DEF UpdateIq, Own, TypeOK
  <2>3. QED
    BY <1>2, <2>1, <2>2 DEF UpdateIq, TypeOK, Calls
<1>3. ASSUME NEW c \in Callers, Brutal(c) PROVE TypeOK'
  <2>1. PICK D \in SUBSET Handles, H \in SUBSET Handles : Adopt(D, H)
    <3>1. call[c].todo \in SUBSET Handles
      BY DEF TypeOK
    <3>2. \A h \in call[c].todo : {h} \in SUBSET Handles /\ \A D \in SUBSET {h} : D \in SUBSET Handles
      BY <3>1
    <3>3. \A h \in call[c].todo : {h} \cap {i \in Handles : enabled[i]} \in SUBSET Handles
      OBVIOUS
    <3>4. QED
      BY <1>3, <3>1, <3>2, <3>3, Zenon DEF Brutal
  <2>2. uses' \in [Handles -> Dbs] /\ behind' \subseteq Handles
    BY <2>1, AdoptType
  <2>3. call' \in [Callers -> Calls]
    <3>1. call[c] \in Calls /\ Idle \in Calls /\ call \in [Callers -> Calls]
      BY <1>0 DEF TypeOK, Calls, Idle
    <3>2. \A h : [call[c] EXCEPT !.todo = @ \ {h}] \in Calls
      BY <3>1 DEF Calls
    <3>3. PICK h : \/ call' = [call EXCEPT ![c] = Idle]
                  \/ call' = [call EXCEPT ![c].todo = @ \ {h}]
      BY <1>3, Zenon DEF Brutal
    <3>4. CASE call' = [call EXCEPT ![c] = Idle]
      BY <3>1, <3>4
    <3>5. CASE call' = [call EXCEPT ![c].todo = @ \ {h}]
      BY <3>1, <3>2, <3>5
    <3>6. QED
      BY <3>3, <3>4, <3>5
  <2>4. QED
    BY <1>3, <2>2, <2>3 DEF Brutal, core, manager, TypeOK, Calls
<1>4. ASSUME NEW c \in Callers, Publish(c) PROVE TypeOK'
  <2>1. call' \in [Callers -> Calls]
    BY <1>0, <1>4 DEF Publish, Own, TypeOK, Calls, Idle
  <2>2. QED
    BY <1>0, <1>4, <2>1 DEF Publish, manager, Own, TypeOK, Calls
<1>5. ASSUME NEW c \in Callers, NotifyUpdate(c) PROVE TypeOK'
  <2>1. call' \in [Callers -> Calls]
    BY <1>0, <1>5 DEF NotifyUpdate, TypeOK, Calls, Idle
  <2>2. QED
    BY <1>0, <1>5, <2>1 DEF NotifyUpdate, manager, TypeOK, Calls
<1>6. ASSUME NEW c \in Callers, WaitUpdateDone(c) PROVE TypeOK'
  <2>1. call' \in [Callers -> Calls]
    BY <1>0, <1>6 DEF WaitUpdateDone, Idle, TypeOK, Calls
  <2>2. QED
    BY <1>0, <1>6, <2>1 DEF WaitUpdateDone, core, manager, Idle, TypeOK, Calls
<1>7. ASSUME NEW g \in Groups, UpdateCalib(g) PROVE TypeOK'
  <2>1. uses' \in [Handles -> Dbs] /\ behind' \subseteq Handles
    BY <1>7, AdoptType DEF UpdateCalib, Of
  <2>2. QED
    BY <1>7, <2>1 DEF UpdateCalib, manager, TypeOK
<1>8. ASSUME NEW h \in Switchable, EnableAlgo(h) PROVE TypeOK'
  <2>1. enabled' \in [Handles -> BOOLEAN]
    BY <1>8, Zenon DEF EnableAlgo, TypeOK
  <2>2. uses' \in [Handles -> Dbs] /\ behind' \subseteq Handles
    BY <1>8, AdoptType DEF EnableAlgo
  <2>3. QED
    BY <1>8, <2>1, <2>2 DEF EnableAlgo, core, manager, TypeOK
<1>9. CASE Prepare
  <2>1. uses' \in [Handles -> Dbs] /\ behind' \subseteq Handles
    BY <1>9, AdoptType DEF Prepare
  <2>2. state' \in {state, "prepared"}
    BY <1>9 DEF Prepare
  <2>3. QED
    BY <1>9, <2>1, <2>2 DEF Prepare, manager, TypeOK
<1>10. CASE Start
  BY <1>10, CalibAssumption DEF Start, manager, TypeOK
<1>11. CASE FirstStats
  BY <1>11 DEF FirstStats, manager, TypeOK
<1>12. CASE Stop
  BY <1>12 DEF Stop, manager, TypeOK
<1>13. CASE UNCHANGED vars
  BY <1>13 DEF vars, core, manager, TypeOK
<1>14. QED
  BY <1>1, <1>2, <1>3, <1>4, <1>5, <1>6, <1>7, <1>8, <1>9, <1>10, <1>11, <1>12, <1>13
  DEF Next

\* Every variable keeps its type.
THEOREM TypeCorrect == FairSpec => []TypeOK
BY InitType, NextType, PTL DEF FairSpec, Spec

-----------------------------------------------------------------------------
(* What each action does to the invariant, if the callers are polite *)

\* A caller that is idle has nothing; a caller in a call is at one of four places.
LEMMA Places ==
  ASSUME TypeOK, OneCall, NEW c \in Callers
  PROVE  /\ call[c] = Idle <=> call[c].at = "idle"
         /\ call[c] /= Idle => call[c].at \in {"publish", "notify", "wait", "brutal"}
BY DEF TypeOK, OneCall, Idle

\* While one caller is in a call the others are idle.
LEMMA OthersIdle ==
  ASSUME TypeOK, OneCall, NEW c \in Callers, call[c].at /= "idle"
  PROVE  ~Quiet /\ \A x \in Callers \ {c} : call[x] = Idle /\ call[x].at = "idle"
BY DEF OneCall, Idle, Quiet

\* A tuning brings the newest database; nothing leads to it yet.
LEMMA TuneKeeps ==
  ASSUME TypeOK, polite, PoliteInv, NEW c \in Callers, Tune(c)
  PROVE  PoliteInv'
<1> USE DEF PoliteInv
<1>a. dbs \in Nat /\ tuning \in Nat /\ freed \subseteq Nat /\ content \in Nat /\ calibv2 \in Nat
  BY DEF TypeOK, Dbs
<1>b. /\ Quiet /\ \A x \in Callers \ {c} : call'[x] = Idle
      /\ call'[c].at \in {"publish", "brutal"} /\ c \in DOMAIN call
      /\ call'[c] = [at |-> call'[c].at, iq |-> call'[c].iq, db |-> dbs', todo |-> call'[c].todo]
  BY DEF Tune, May, Quiet, TypeOK
<1>c. dbs' = dbs + 1 /\ tuning' = tuning /\ freed' = freed
  BY DEF Tune, manager
<1>1. OneCall'
  <2>1. call'[c].at \in {"publish", "brutal"} /\ call'[c].db = dbs'
    BY <1>b DEF Tune
  <2>2. tuning < dbs' /\ tuning' = tuning
    BY <1>a, <1>c DEF Tune, manager, FreedAreOld
  <2>3. QED
    BY <1>b, <2>1, <2>2 DEF OneCall, Idle
<1>2. FreedAreOld'
  BY <1>a, <1>c DEF Tune, manager, FreedAreOld
<1>3. AtRest'
  BY <1>b DEF AtRest, Quiet, Idle
<1>4. Brought'
  BY <1>a, <1>b, <1>c DEF Tune, core, manager, AtRest, Brought, Offer, Own, Idle
<1>5. Offered'
  BY <1>b DEF Offered, Idle
<1>6. InTurn'
  BY <1>a, <1>b, <1>c DEF Tune, AtRest, InTurn, Own, Idle
<1>7. QED
  BY <1>1, <1>2, <1>3, <1>4, <1>5, <1>6

\* A new file overwrites the manager's context; nothing else leads to it yet.
LEMMA UpdateIqKeeps ==
  ASSUME TypeOK, polite, PoliteInv, NEW c \in Callers, UpdateIq(c)
  PROVE  PoliteInv'
<1> USE DEF PoliteInv
<1>a. dbs \in Nat /\ tuning \in Nat /\ freed \subseteq Nat /\ content \in Nat /\ calibv2 \in Nat
  BY DEF TypeOK, Dbs
<1>b. /\ Quiet /\ \A x \in Callers \ {c} : call'[x] = Idle
      /\ call'[c].at \in {"publish", "brutal"} /\ c \in DOMAIN call
      /\ call'[c] = [at |-> call'[c].at, iq |-> call'[c].iq, db |-> dbs', todo |-> call'[c].todo]
  BY DEF UpdateIq, May, Quiet, TypeOK
<1>c. dbs' = dbs + 1 /\ tuning' = tuning /\ freed' = freed
  BY DEF UpdateIq, manager
<1>1. OneCall'
  <2>1. call'[c].at \in {"publish", "brutal"} /\ call'[c].db = dbs'
    BY <1>b DEF UpdateIq
  <2>2. tuning < dbs' /\ tuning' = tuning
    BY <1>a, <1>c DEF UpdateIq, manager, FreedAreOld
  <2>3. QED
    BY <1>b, <2>1, <2>2 DEF OneCall, Idle
<1>2. FreedAreOld'
  BY <1>a, <1>c DEF UpdateIq, manager, FreedAreOld
<1>3. AtRest'
  BY <1>b DEF AtRest, Quiet, Idle
<1>4. Brought'
  BY <1>a, <1>b, <1>c DEF UpdateIq, core, manager, AtRest, Brought, Offer, Own, Idle
<1>5. Offered'
  BY <1>b DEF Offered, Idle
<1>6. InTurn'
  BY <1>a, <1>b, <1>c DEF UpdateIq, AtRest, InTurn, Own, Idle
<1>7. QED
  BY <1>1, <1>2, <1>3, <1>4, <1>5, <1>6

\* The handles take the newest database in turn; those not reached are left behind.
LEMMA BrutalKeeps ==
  ASSUME TypeOK, polite, PoliteInv, NEW c \in Callers, Brutal(c)
  PROVE  PoliteInv'
<1> USE DEF PoliteInv
<1>a. PICK h \in call[c].todo, D \in SUBSET Handles, H \in SUBSET Handles :
        /\ Adopt(D, H)
        /\ \/ /\ H = {h}
              /\ call' = IF call[c].todo = {h} THEN [call EXCEPT ![c] = Idle]
                         ELSE [call EXCEPT ![c].todo = @ \ {h}]
           \/ /\ H = call[c].todo
              /\ call' = [call EXCEPT ![c] = Idle]
  <2>1. call[c].todo \in SUBSET Handles
    BY DEF TypeOK
  <2>2. PICK h \in call[c].todo :
          \/ /\ Adopt({h} \cap {i \in Handles : enabled[i]}, {h})
             /\ call' = IF call[c].todo = {h} THEN [call EXCEPT ![c] = Idle]
                        ELSE [call EXCEPT ![c].todo = @ \ {h}]
          \/ /\ \E D \in SUBSET {h} : Adopt(D, call[c].todo)
             /\ call' = [call EXCEPT ![c] = Idle]
    BY Zenon DEF Brutal
  <2>3. {h} \cap {i \in Handles : enabled[i]} \in SUBSET Handles /\ {h} \in SUBSET Handles
    BY <2>1
  <2>4. \A D \in SUBSET {h} : D \in SUBSET Handles
    BY <2>3
  <2>5. QED
    BY <2>1, <2>2, <2>3, <2>4, Zenon
<1>b. /\ call[c].at = "brutal" /\ call[c] /= Idle
      /\ \A x \in Callers \ {c} : call[x] = Idle /\ call'[x] = Idle
  <2>1. call[c].at = "brutal" /\ call[c].at /= "idle" /\ call[c] /= Idle
    BY DEF Brutal, Idle
  <2>2. \A x \in Callers \ {c} : call'[x] = call[x]
    BY <1>a DEF TypeOK
  <2>3. QED
    BY <2>1, <2>2, OthersIdle
<1>c. \/ call'[c] = Idle
      \/ call'[c].at = "brutal" /\ call'[c].db = call[c].db /\ call'[c].todo = call[c].todo \ H
  BY <1>a, <1>b DEF TypeOK
<1>d. /\ calibv2 = Own /\ update /\ content = dbs /\ mask = {} /\ dbs' = dbs /\ tuning' = tuning
      /\ calibv2' = Own /\ update' /\ content' = dbs /\ mask' = {}
  BY <1>b DEF InTurn, Brutal, core, manager
<1>e. call'[c] = Idle => call[c].todo = H
  BY <1>a, <1>b DEF TypeOK, Idle
<1>f. \A i \in Handles \ behind' :
        \/ uses'[i] = dbs
        \/ i \in call[c].todo /\ i \notin H /\ uses'[i] = dbs - 1
  BY <1>a, <1>b, <1>d DEF Adopt, Offer, InTurn
<1>1. OneCall'
  BY <1>b, <1>c, <1>d DEF OneCall, Brutal, manager, Idle
<1>2. FreedAreOld'
  BY DEF Brutal, manager, FreedAreOld
<1>3. AtRest'
  BY <1>d, <1>e, <1>f DEF AtRest, Quiet, Offer
<1>4. Brought'
  BY <1>b, <1>c DEF Brought, Idle
<1>5. Offered'
  BY <1>b, <1>c DEF Offered, Idle
<1>6. InTurn'
  BY <1>b, <1>c, <1>d, <1>f DEF InTurn, Idle
<1>7. QED
  BY <1>1, <1>2, <1>3, <1>4, <1>5, <1>6

\* The newest database is on offer before any group is told.
LEMMA PublishKeeps ==
  ASSUME TypeOK, polite, PoliteInv, NEW c \in Callers, Publish(c)
  PROVE  PoliteInv'
<1> USE DEF PoliteInv
<1>a. dbs \in Nat /\ tuning \in Nat /\ freed \subseteq Nat /\ content \in Nat /\ calibv2 \in Nat
  BY DEF TypeOK, Dbs
<1>b. \A x \in Callers \ {c} : call'[x] = Idle /\ call[x] = Idle
  BY OthersIdle DEF Publish
<1>c. /\ call[c] /= Idle /\ call'[c].at = "notify"
      /\ call'[c].db = call[c].db /\ call'[c].iq = call[c].iq
  BY DEF Publish, TypeOK, Idle
<1>1. OneCall'
  BY <1>b, <1>c DEF OneCall, Publish, manager, Idle
<1>2. FreedAreOld'
  BY DEF Publish, manager, FreedAreOld
<1>3. AtRest'
  BY <1>c DEF AtRest, Quiet, Idle
<1>4. Brought'
  BY <1>b, <1>c DEF Brought, Idle
<1>5. Offered'
  BY <1>a, <1>b, <1>c DEF Publish, manager, Brought, OneCall, Offered, Idle
<1>6. InTurn'
  BY <1>b, <1>c DEF InTurn, Idle
<1>7. QED
  BY <1>1, <1>2, <1>3, <1>4, <1>5, <1>6

\* Every group is told, and none has been counted.
LEMMA NotifyUpdateKeeps ==
  ASSUME TypeOK, polite, PoliteInv, NEW c \in Callers, NotifyUpdate(c)
  PROVE  PoliteInv'
<1> USE DEF PoliteInv
<1>a. dbs \in Nat /\ tuning \in Nat /\ freed \subseteq Nat /\ content \in Nat /\ calibv2 \in Nat
  BY DEF TypeOK, Dbs
<1>b. \A x \in Callers \ {c} : call'[x] = Idle /\ call[x] = Idle
  BY OthersIdle DEF NotifyUpdate
<1>c. /\ call[c] /= Idle /\ call'[c].at = "wait"
      /\ call'[c].db = call[c].db /\ call'[c].iq = call[c].iq
  BY DEF NotifyUpdate, TypeOK, Idle
<1>1. OneCall'
  BY <1>b, <1>c DEF OneCall, NotifyUpdate, manager, Idle
<1>2. FreedAreOld'
  BY DEF NotifyUpdate, manager, FreedAreOld
<1>3. AtRest'
  BY <1>c DEF AtRest, Quiet, Idle
<1>4. Brought'
  BY <1>b, <1>c DEF Brought, Idle
<1>5. Offered'
  <2>1. \A h \in Handles : GroupOf[h] \in Groups
    BY CalibAssumption
  <2>2. QED
    BY <1>b, <1>c, <2>1 DEF NotifyUpdate, manager, Offered, Idle
<1>6. InTurn'
  BY <1>b, <1>c DEF InTurn, Idle
<1>7. QED
  BY <1>1, <1>2, <1>3, <1>4, <1>5, <1>6

\* All groups have been counted: the database of the previous tuning is out of use.
LEMMA WaitUpdateDoneKeeps ==
  ASSUME TypeOK, polite, PoliteInv, NEW c \in Callers, WaitUpdateDone(c)
  PROVE  PoliteInv'
<1> USE DEF PoliteInv
<1>a. dbs \in Nat /\ tuning \in Nat /\ freed \subseteq Nat /\ content \in Nat /\ calibv2 \in Nat
  BY DEF TypeOK, Dbs
<1>b. \A x \in Callers : call'[x] = Idle
  BY OthersIdle DEF WaitUpdateDone, TypeOK
<1>1. OneCall'
  BY <1>b DEF OneCall
<1>2. FreedAreOld'
  <2>1. call[c].db = dbs /\ tuning < dbs /\ dbs' = dbs
    BY DEF WaitUpdateDone, OneCall, Idle
  <2>2. CASE call[c].iq
    BY <2>1, <2>2 DEF WaitUpdateDone, manager, FreedAreOld
  <2>3. CASE ~call[c].iq
    <3>1. freed' = freed \cup ({tuning} \ {None}) /\ tuning' = dbs
      BY <2>1, <2>3 DEF WaitUpdateDone
    <3>2. \A d \in freed \cup ({tuning} \ {None}) : d < dbs
      BY <1>a, <2>1 DEF FreedAreOld
    <3>3. dbs =< dbs
      BY <1>a
    <3>4. QED
      BY <2>1, <3>1, <3>2, <3>3, Zenon DEF FreedAreOld
  <2>4. QED
    BY <2>2, <2>3
<1>3. AtRest'
  <2>1. /\ call[c].db = dbs /\ mask = {} /\ calibv2 = (IF call[c].iq THEN Own ELSE dbs)
        /\ (call[c].iq => content = dbs)
        /\ \A h \in Handles \ behind : uses[h] = dbs
    BY DEF WaitUpdateDone, OneCall, Offered, Idle
  <2>2. content' = dbs
    BY <2>1 DEF WaitUpdateDone, manager
  <2>3. QED
    BY <2>1, <2>2 DEF WaitUpdateDone, core, AtRest, Offer
<1>4. Brought'
  BY <1>b DEF Brought, Idle
<1>5. Offered'
  BY <1>b DEF Offered, Idle
<1>6. InTurn'
  BY <1>b DEF InTurn, Idle
<1>7. QED
  BY <1>1, <1>2, <1>3, <1>4, <1>5, <1>6

\* The handles of a group that are not left behind have the newest database when it is
\* counted.
LEMMA UpdateCalibKeeps ==
  ASSUME TypeOK, polite, PoliteInv, NEW g \in Groups, UpdateCalib(g)
  PROVE  PoliteInv'
<1> USE DEF PoliteInv
<1>a. dbs \in Nat /\ tuning \in Nat /\ freed \subseteq Nat /\ content \in Nat /\ calibv2 \in Nat
  BY DEF TypeOK, Dbs
<1>b. PICK c \in Callers : call[c].at = "wait"
  BY Places DEF UpdateCalib, AtRest, Brought, Offered, InTurn, Quiet
<1>c. call[c].at = "wait" /\ \A x \in Callers \ {c} : call[x] = Idle /\ call[x].at = "idle"
  BY <1>b, OthersIdle
<1>d. PICK D \in SUBSET Of(g) :
        /\ \A h \in Handles : uses'[h] = IF h \in D THEN dbs ELSE uses[h]
        /\ behind' = (behind \cup Of(g)) \ D
  <2>1. update /\ Offer = dbs
    BY <1>a, <1>b DEF OneCall, Offered, Offer, Own, Idle
  <2>2. QED
    BY <2>1 DEF UpdateCalib, Reached, Adopt
<1>1. OneCall'
  BY DEF UpdateCalib, manager, OneCall
<1>2. FreedAreOld'
  BY DEF UpdateCalib, manager, FreedAreOld
<1>3. AtRest'
  BY <1>c DEF UpdateCalib, AtRest, Quiet, Idle
<1>4. Brought'
  BY <1>c DEF UpdateCalib, Brought, Idle
<1>5. Offered'
  <2>1. \A h \in Handles \ behind' : uses'[h] \in {dbs - 1, dbs}
    BY <1>b, <1>c, <1>d DEF Offered
  <2>2. ASSUME NEW h \in Handles \ behind', GroupOf[h] \notin mask'
        PROVE  uses'[h] = dbs
    BY <1>b, <1>c, <1>d, <2>2 DEF Offered, UpdateCalib, Of
  <2>3. QED
    BY <1>c, <2>1, <2>2 DEF UpdateCalib, manager, Offered, Idle
<1>6. InTurn'
  BY <1>c DEF UpdateCalib, InTurn, Idle
<1>7. QED
  BY <1>1, <1>2, <1>3, <1>4, <1>5, <1>6

\* An algorithm enabled between calls takes the database of the last call, or keeps its own.
LEMMA EnableAlgoKeeps ==
  ASSUME TypeOK, polite, PoliteInv, NEW a \in Switchable, EnableAlgo(a)
  PROVE  PoliteInv'
<1> USE DEF PoliteInv
<1>a. Quiet /\ \A x \in Callers : call[x] = Idle /\ call[x].at = "idle"
  BY DEF EnableAlgo, Quiet, Idle
<1>b. \A h \in Handles \ behind' : uses'[h] = dbs
  BY <1>a DEF EnableAlgo, Adopt, AtRest
<1>1. OneCall'
  BY DEF EnableAlgo, core, manager, OneCall
<1>2. FreedAreOld'
  BY DEF EnableAlgo, core, manager, FreedAreOld
<1>3. AtRest'
  BY <1>a, <1>b DEF EnableAlgo, core, manager, AtRest, Offer
<1>4. Brought'
  BY <1>a DEF EnableAlgo, Brought
<1>5. Offered'
  BY <1>a DEF EnableAlgo, Offered
<1>6. InTurn'
  BY <1>a DEF EnableAlgo, InTurn
<1>7. QED
  BY <1>1, <1>2, <1>3, <1>4, <1>5, <1>6

\* prepare() comes between calls.
LEMMA PrepareKeeps ==
  ASSUME TypeOK, polite, PoliteInv, Prepare
  PROVE  PoliteInv'
<1> USE DEF PoliteInv
<1>a. Quiet /\ \A x \in Callers : call[x] = Idle /\ call[x].at = "idle"
  BY DEF Prepare, Quiet, Idle
<1>b. \A h \in Handles \ behind' : uses'[h] = dbs
  BY <1>a DEF Prepare, Adopt, AtRest
<1>1. OneCall'
  BY DEF Prepare, core, manager, OneCall
<1>2. FreedAreOld'
  BY DEF Prepare, core, manager, FreedAreOld
<1>3. AtRest'
  BY <1>a, <1>b DEF Prepare, core, manager, AtRest, Offer
<1>4. Brought'
  BY <1>a DEF Prepare, Brought
<1>5. Offered'
  BY <1>a DEF Prepare, Offered
<1>6. InTurn'
  BY <1>a DEF Prepare, InTurn
<1>7. QED
  BY <1>1, <1>2, <1>3, <1>4, <1>5, <1>6

\* stop() comes between calls.
LEMMA StopKeeps ==
  ASSUME TypeOK, polite, PoliteInv, Stop
  PROVE  PoliteInv'
<1> USE DEF PoliteInv
<1>a. \A x \in Callers : call[x] = Idle /\ call[x].at = "idle"
  BY DEF Stop, Quiet, Idle
<1>1. OneCall'
  BY DEF Stop, core, manager, OneCall
<1>2. FreedAreOld'
  BY DEF Stop, core, manager, FreedAreOld
<1>3. AtRest'
  BY <1>a DEF Stop, core, manager, AtRest, Offer, Quiet
<1>4. Brought'
  BY <1>a DEF Stop, Brought
<1>5. Offered'
  BY <1>a DEF Stop, Offered
<1>6. InTurn'
  BY <1>a DEF Stop, InTurn
<1>7. QED
  BY <1>1, <1>2, <1>3, <1>4, <1>5, <1>6

-----------------------------------------------------------------------------
(* The theorems *)

\* Every step keeps the invariant, if the callers are polite.
LEMMA PoliteKeeps ==
  ASSUME TypeOK, PoliteInv, polite, [Next]_vars
  PROVE  PoliteInv'
<1>1. CASE Start
  BY <1>1 DEF Start, manager, PoliteInv, OneCall, FreedAreOld, AtRest, Brought, Offered, InTurn, Offer, Quiet
<1>2. CASE FirstStats
  BY <1>2 DEF FirstStats, manager, PoliteInv, OneCall, FreedAreOld, AtRest, Brought, Offered, InTurn, Offer, Quiet
<1>3. CASE UNCHANGED vars
  BY <1>3 DEF vars, core, manager, PoliteInv, OneCall, FreedAreOld, AtRest, Brought, Offered, InTurn, Offer, Quiet
<1>4. QED
  BY <1>1, <1>2, <1>3, TuneKeeps, UpdateIqKeeps, BrutalKeeps, PublishKeeps, NotifyUpdateKeeps,
     WaitUpdateDoneKeeps, UpdateCalibKeeps, EnableAlgoKeeps, PrepareKeeps, StopKeeps
  DEF Next

\* The invariant holds at first.
LEMMA InitCalibInv == Init => CalibInv
<1> SUFFICES ASSUME Init PROVE CalibInv
  OBVIOUS
<1>1. TypeOK
  BY InitType
<1>2. PoliteInv
  BY DEF Init, PoliteInv, OneCall, FreedAreOld, AtRest, Brought, Offered, InTurn, Offer, Quiet, Idle, Own, None
<1>3. QED
  BY <1>1, <1>2 DEF CalibInv

\* Every step keeps the invariant.
LEMMA NextCalibInv == CalibInv /\ [Next]_vars => CalibInv'
<1> SUFFICES ASSUME CalibInv, [Next]_vars PROVE CalibInv'
  OBVIOUS
<1>1. TypeOK'
  BY NextType DEF CalibInv
<1>2. polite' = polite
  BY DEF Next, vars, Tune, UpdateIq, Brutal, Publish, NotifyUpdate, WaitUpdateDone, UpdateCalib,
         EnableAlgo, Prepare, Start, FirstStats, Stop
<1>3. polite => PoliteInv'
  BY PoliteKeeps DEF CalibInv
<1>4. QED
  BY <1>1, <1>2, <1>3 DEF CalibInv

\* What the invariant says: what is freed is older than all that anything leads to.
LEMMA CalibInvMeans == CalibInv => NoUseAfterFree /\ AllAgree
<1> SUFFICES ASSUME CalibInv, polite PROVE NoUseAfterFree /\ AllAgree
  BY DEF NoUseAfterFree, AllAgree
<1> USE DEF CalibInv, PoliteInv
<1>1. AllAgree
  BY DEF AllAgree, AtRest
<1>2. dbs \in Nat /\ tuning \in Nat /\ freed \subseteq Nat
  BY DEF TypeOK, Dbs
<1>3. CASE Quiet
  <2>1. dbs \notin freed
    BY <1>2 DEF FreedAreOld
  <2>2. QED
    BY <1>1, <1>3, <2>1 DEF NoUseAfterFree, AtRest
<1>4. ASSUME NEW c \in Callers, call[c] /= Idle
      PROVE  NoUseAfterFree
  <2>1. dbs - 1 \notin freed /\ dbs \notin freed
    BY <1>2, <1>4 DEF FreedAreOld, OneCall
  <2>2. content \in {dbs - 1, dbs}
    BY <1>4, Places DEF Brought, Offered, InTurn
  <2>3. Offer \in {dbs - 1, dbs}
    BY <1>4, <2>2, Places DEF Brought, Offered, InTurn, Offer, Own
  <2>4. \A h \in Handles \ behind : uses[h] \in {dbs - 1, dbs}
    BY <1>4, Places DEF Brought, Offered, InTurn
  <2>5. QED
    BY <2>1, <2>2, <2>3, <2>4 DEF NoUseAfterFree
<1>5. QED
  BY <1>1, <1>3, <1>4 DEF Quiet

\* waitUpdateDone keeps its promise: a tuning frees the database of the previous one only
\* when nothing leads to it but handles that are left behind.
THEOREM FreedUnused == FairSpec => []NoUseAfterFree
<1>1. CalibInv => NoUseAfterFree
  BY CalibInvMeans
<1>2. QED
  BY <1>1, InitCalibInv, NextCalibInv, PTL DEF FairSpec, Spec

\* Between calls that do not overlap the manager, the analyzer and all handles but those
\* left behind have the database of the last call.
THEOREM HandlesAgree == FairSpec => []AllAgree
<1>1. CalibInv => AllAgree
  BY CalibInvMeans
<1>2. QED
  BY <1>1, InitCalibInv, NextCalibInv, PTL DEF FairSpec, Spec
=============================================================================
