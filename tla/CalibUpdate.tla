---------------------------- MODULE CalibUpdate ----------------------------
(***************************************************************************)
(* New calibration databases for a running analyzer.  A tuning server or   *)
(* the application makes a database and publishes it; every analyzer group *)
(* has its handles adopt it before its next message, and the caller waits  *)
(* for all groups before it frees the database of the previous tuning.     *)
(* While the analyzer is not RUNNING the caller of updateCalibDb has the   *)
(* handles adopt the database itself.                                      *)
(*                                                                         *)
(* A context, CamCalibDbV2Context_t, holds pointers to the tables of a     *)
(* database.  Handles keep pointers to the tables, not to the context, so  *)
(* that a copy over *mCalibDbV2 changes what they adopt next and not what  *)
(* they use.  They adopt only if conf_type says that the calibration       *)
(* changed, and stop() resets conf_type.  Handles are prepared in turn, up *)
(* to the first that fails.  The API lock is compiled out: calls overlap   *)
(* unless the callers are polite.                                          *)
(***************************************************************************)
EXTENDS Integers, FiniteSets

CONSTANTS
  Groups,      \* the analyzer groups
  Handles,     \* the handles of algorithms, numbered in the order of the algorithm table
  GroupOf,     \* GroupOf[h]: the group of handle h
  Switchable,  \* the handles the application may disable and enable
  Callers,     \* threads that make databases
  Politeness,  \* values of polite
  MaxDbs,      \* bound: databases made
  MaxOverlap,  \* bound: databases made if the callers are not polite
  MaxSessions  \* bound: calls of start()

ASSUME CalibAssumption ==
  /\ Groups /= {} /\ Handles /= {} /\ Handles \subseteq Nat /\ GroupOf \in [Handles -> Groups]
  /\ Switchable \subseteq Handles /\ Politeness \subseteq BOOLEAN
  /\ MaxDbs \in Nat /\ MaxOverlap \in 0 .. MaxDbs /\ MaxSessions \in Nat

VARIABLES
  polite,    \* history: nobody starts a call while another one is under way
  state,     \* RkAiqCore::mState
  safe,      \* mSafeEnableAlgo: algorithms may be enabled and disabled
  calibv2,   \* mAlogsComSharedParams.calibv2: a tuning's context, or Own
  update,    \* conf_type has the bit UPDATECALIB
  mask,      \* groupUpdateMask: groups that have yet to adopt
  uses,      \* uses[h]: the database with the tables that handle h points to
  enabled,   \* enabled[h]: mEnable of handle h
  content,   \* the database with the tables that *mCalibDbV2 points to
  tuning,    \* tuningCalib: the database to free at the next tuning, or None
  freed,     \* history: databases that were freed
  call,      \* call[c]: where caller c is, and the database it brings
  dbs,       \* history: databases made; 0 is the one the manager was made with
  sessions,  \* history: number of calls of start()
  behind     \* history: handles that an update passed by, because they were disabled
             \* or they or an earlier handle failed, and that have adopted nothing since

core == <<state, safe, calibv2, update, mask>>
manager == <<content, tuning, freed>>
vars == <<polite, core, uses, enabled, manager, call, dbs, sessions, behind>>

Own == 0    \* mCalibDbV2, the manager's context
None == 0   \* no database: those brought by calls are numbered from 1

Up == {"started", "running"}
Idle == [at |-> "idle", iq |-> FALSE, db |-> 0, todo |-> {}]

Init ==
  /\ polite \in Politeness
  /\ state = "inited" /\ safe = TRUE
  /\ calibv2 = Own /\ update = FALSE /\ mask = {}
  /\ uses = [h \in Handles |-> 0] /\ enabled = [h \in Handles |-> TRUE]
  /\ content = 0 /\ tuning = None /\ freed = {}
  /\ call = [c \in Callers |-> Idle]
  /\ dbs = 0 /\ sessions = 0 /\ behind = {}

Quiet == \A c \in Callers : call[c] = Idle

-----------------------------------------------------------------------------
(* prepare() of handles *)

\* The database that calibv2 leads to.
Offer == IF calibv2 = Own THEN content ELSE calibv2

Of(g) == {h \in Handles : GroupOf[h] = g}

\* Those of H that take new tables when H is prepared: handles are prepared in turn, and
\* nothing after the first that fails, which may have taken them before it failed.
Reached(H) ==
  LET On == {h \in H : enabled[h]}
  IN  {D \in SUBSET On : \A d \in D, h \in On \ D : d < h}

\* The handles D adopt, if conf_type tells them to; others of H are passed by.
Adopt(D, H) ==
  /\ uses' = [h \in Handles |-> IF h \in D /\ update THEN Offer ELSE uses[h]]
  /\ behind' = IF update THEN (behind \cup H) \ D ELSE behind

\* Mutant: the first group to pass takes the update off for all.
UpdateCalib_All(g) ==
  /\ state \in Up /\ g \in mask
  /\ \E D \in Reached(Of(g)) : Adopt(D, Of(g))
  /\ mask' = {}
  /\ UNCHANGED <<polite, state, safe, calibv2, update, enabled, manager, call, dbs, sessions>>

\* Mutant: the bit stays.
UpdateCalib_Keep(g) ==
  /\ state \in Up /\ g \in mask
  /\ \E D \in Reached(Of(g)) : Adopt(D, Of(g))
  /\ mask' = mask
  /\ UNCHANGED <<polite, state, safe, calibv2, update, enabled, manager, call, dbs, sessions>>

\* The thread of group g, before it handles a message.  The result of prepare() is
\* ignored: the bit is cleared whether or not all handles were prepared.
UpdateCalib(g) ==
  /\ state \in Up /\ g \in mask
  /\ \E D \in Reached(Of(g)) : Adopt(D, Of(g))
  /\ mask' = mask \ {g}
  /\ UNCHANGED <<polite, state, safe, calibv2, update, enabled, manager, call, dbs, sessions>>

-----------------------------------------------------------------------------
(* Calls that bring a database *)

May(c) ==
  /\ call[c] = Idle
  /\ dbs < IF polite THEN MaxDbs ELSE MaxOverlap
  /\ polite => Quiet

\* A tuning needs groups that get messages, or it does not return.
Tune(c) ==
  /\ May(c) /\ (polite => state \in Up)
  /\ call' = [call EXCEPT ![c] = [at |-> "publish", iq |-> FALSE, db |-> dbs + 1, todo |-> {}]]
  /\ dbs' = dbs + 1
  /\ UNCHANGED <<polite, core, uses, enabled, manager, sessions, behind>>

\* updateCalibDb overwrites the manager's context, then chooses.
UpdateIq(c) ==
  /\ May(c)
  /\ content' = dbs + 1 /\ dbs' = dbs + 1
  /\ IF state = "running"
     THEN /\ call' = [call EXCEPT ![c] =
               [at |-> "publish", iq |-> TRUE, db |-> dbs + 1, todo |-> {}]]
          /\ UNCHANGED <<calibv2, update>>
     ELSE /\ call' = [call EXCEPT ![c] =
               [at |-> "brutal", iq |-> TRUE, db |-> dbs + 1, todo |-> Handles]]
          /\ calibv2' = Own /\ update' = TRUE
  /\ UNCHANGED <<polite, state, safe, mask, uses, enabled, tuning, freed, sessions, behind>>

\* updateCalibDbBrutal: handle after handle, up to one that fails.
Brutal(c) ==
  /\ call[c].at = "brutal"
  /\ \E h \in call[c].todo :
       /\ \A i \in call[c].todo : h <= i
       /\ \/ /\ Adopt({h} \cap {i \in Handles : enabled[i]}, {h})
             /\ call' = IF call[c].todo = {h}
                        THEN [call EXCEPT ![c] = Idle]
                        ELSE [call EXCEPT ![c].todo = @ \ {h}]
          \/ /\ enabled[h]
             /\ \E D \in SUBSET {h} : Adopt(D, call[c].todo)
             /\ call' = [call EXCEPT ![c] = Idle]
  /\ UNCHANGED <<polite, core, enabled, manager, dbs, sessions>>

\* Mutant: conf_type is left alone.
Publish_NoType(c) ==
  /\ call[c].at = "publish"
  /\ calibv2' = IF call[c].iq THEN Own ELSE call[c].db
  /\ call' = [call EXCEPT ![c].at = "notify"]
  /\ UNCHANGED <<polite, state, safe, update, mask, uses, enabled, manager, dbs, sessions, behind>>

Publish(c) ==
  /\ call[c].at = "publish"
  /\ calibv2' = IF call[c].iq THEN Own ELSE call[c].db
  /\ update' = TRUE
  /\ call' = [call EXCEPT ![c].at = "notify"]
  /\ UNCHANGED <<polite, state, safe, mask, uses, enabled, manager, dbs, sessions, behind>>

NotifyUpdate(c) ==
  /\ call[c].at = "notify"
  /\ mask' = Groups
  /\ call' = [call EXCEPT ![c].at = "wait"]
  /\ UNCHANGED <<polite, state, safe, calibv2, update, uses, enabled, manager, dbs, sessions, behind>>

\* waitUpdateDone, and what a tuning does after it.
WaitUpdateDone(c) ==
  /\ call[c].at = "wait" /\ mask = {}
  /\ IF call[c].iq
     THEN UNCHANGED manager
     ELSE /\ freed' = freed \cup ({tuning} \ {None})
          /\ content' = call[c].db /\ tuning' = call[c].db
  /\ call' = [call EXCEPT ![c] = Idle]
  /\ UNCHANGED <<polite, core, uses, enabled, dbs, sessions, behind>>

-----------------------------------------------------------------------------
(* The session, and the calls that enable algorithms *)

\* It fails with the first handle that fails; no update passes by.
Prepare ==
  /\ state \in {"inited", "prepared", "stoped"} /\ sessions < MaxSessions
  /\ polite => Quiet
  /\ \E D \in Reached(Handles) :
       /\ Adopt(D, {})
       /\ state' \in {state} \cup (IF \A h \in Handles \ D : ~enabled[h] THEN {"prepared"} ELSE {})
  /\ UNCHANGED <<polite, safe, calibv2, update, mask, enabled, manager, call, dbs, sessions>>

Start ==
  /\ state \in {"prepared", "stoped"} /\ sessions < MaxSessions
  /\ polite => Quiet
  /\ state' = "started" /\ sessions' = sessions + 1
  /\ UNCHANGED <<polite, safe, calibv2, update, mask, uses, enabled, manager, call, dbs, behind>>

FirstStats ==
  /\ state = "started"
  /\ state' = "running" /\ safe' = FALSE
  /\ UNCHANGED <<polite, calibv2, update, mask, uses, enabled, manager, call, dbs, sessions, behind>>

\* groupUpdateMask is left as it is, conf_type is not.
Stop ==
  /\ state \in Up
  /\ polite => Quiet
  /\ state' = "stoped" /\ safe' = TRUE /\ update' = FALSE
  /\ UNCHANGED <<polite, calibv2, mask, uses, enabled, manager, call, dbs, sessions, behind>>

\* A caller that comes when it is not safe waits on a condition variable nobody
\* signals, for ever; it is left out.  The result of prepare() is ignored.
EnableAlgo(h) ==
  /\ safe /\ (polite => Quiet)
  /\ enabled' = [enabled EXCEPT ![h] = ~@]
  /\ \E D \in SUBSET (IF ~enabled[h] /\ state /= "inited" THEN {h} ELSE {}) : Adopt(D, {})
  /\ UNCHANGED <<polite, core, manager, call, dbs, sessions>>

-----------------------------------------------------------------------------
Next ==
  \/ \E c \in Callers :
       Tune(c) \/ UpdateIq(c) \/ Brutal(c) \/ Publish(c) \/ NotifyUpdate(c) \/ WaitUpdateDone(c)
  \/ \E g \in Groups : UpdateCalib(g)
  \/ \E h \in Switchable : EnableAlgo(h)
  \/ Prepare \/ Start \/ FirstStats \/ Stop

Spec == Init /\ [][Next]_vars

\* Every group gets messages while frames come, and a caller goes on when it can.
FairSpec ==
  /\ Spec
  /\ \A g \in Groups : WF_vars(UpdateCalib(g))
  /\ \A c \in Callers :
       WF_vars(Brutal(c) \/ Publish(c) \/ NotifyUpdate(c) \/ WaitUpdateDone(c))

-----------------------------------------------------------------------------
(* Properties *)

Dbs == 0 .. MaxDbs

\* Every variable has a value of its type.
TypeOK ==
  /\ polite \in BOOLEAN /\ safe \in BOOLEAN /\ update \in BOOLEAN
  /\ state \in {"inited", "prepared", "started", "running", "stoped"}
  /\ calibv2 \in Dbs /\ content \in Dbs /\ tuning \in Dbs /\ dbs \in Dbs
  /\ freed \subseteq Dbs
  /\ mask \subseteq Groups /\ behind \subseteq Handles
  /\ uses \in [Handles -> Dbs] /\ enabled \in [Handles -> BOOLEAN]
  /\ sessions \in 0 .. MaxSessions
  /\ call \in [Callers -> [at : {"idle", "publish", "notify", "wait", "brutal"},
                           iq : BOOLEAN, db : Dbs, todo : SUBSET Handles]]

\* If calls do not overlap, nothing leads to a database that was freed: neither the
\* manager's context nor calibv2, nor a handle, enabled or not.  Excepted are the
\* handles left behind: an update passed them by and counted their group all the same.
NoUseAfterFree ==
  polite =>
    /\ content \notin freed /\ Offer \notin freed
    /\ \A h \in Handles \ behind : uses[h] \notin freed

\* Between calls that do not overlap all handles but those left behind use the
\* database that the manager holds and that the analyzer offers, in whatever order
\* tunings, new files, sessions and switches of algorithms came.
AllAgree ==
  polite /\ Quiet => Offer = content /\ \A h \in Handles \ behind : uses[h] = content

\* Who waits for the groups is answered, unless the analyzer is stopped, also
\* when several calls overlap.
UpdateReturns ==
  \A c \in Callers :
    call[c].at = "wait" ~> (call[c].at /= "wait" \/ state \notin Up)
=============================================================================
