------------------------------ MODULE FrameMap ------------------------------
(***************************************************************************)
(* mGroupMsgMap of an analyzer group: frame id -> the messages collected   *)
(* for the frame.                                                          *)
(***************************************************************************)
EXTENDS Integers, FiniteSets

\* The map with message m added to the entry of its frame.
Filed(map, id, m) ==
  [i \in DOMAIN map \cup {id} |->
     IF i = id THEN (IF id \in DOMAIN map THEN map[id] ELSE {}) \cup {m} ELSE map[i]]

\* msgReduction: with more than max ids all but the keep largest are dropped.
Dropped(ids, max, keep) ==
  IF Cardinality(ids) > max
  THEN {i \in ids : Cardinality({j \in ids : j >= i}) > keep}
  ELSE {}
=============================================================================
