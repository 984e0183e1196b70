------------------------------ MODULE FifoWorker ------------------------------
(***************************************************************************)
(* What the callers of a worker rely on, with no thread, lock or condition *)
(* variable in it: one object at a time is handled, in the order of the    *)
(* pushes, none twice; objects may be dropped, all that are queued at      *)
(* once; and nothing is being handled when the worker closes, nor until it *)
(* opens again.                                                            *)
(***************************************************************************)
EXTENDS Naturals, Sequences

CONSTANT MaxItems

VARIABLES
  open,    \* a start or stop has been called since the last return of stop
  queue,   \* objects pushed and neither handled nor dropped
  busy,    \* the object being handled (0: none)
  pushed   \* number of objects pushed so far

avars == <<open, queue, busy, pushed>>

AInit == open = FALSE /\ queue = << >> /\ busy = 0 /\ pushed = 0

Enqueue == /\ pushed < MaxItems
           /\ pushed' = pushed + 1
           /\ queue' = Append(queue, pushed + 1)
           /\ UNCHANGED <<open, busy>>

Drop == queue' = << >> /\ UNCHANGED <<open, busy, pushed>>

Open == /\ ~open
        /\ open' = TRUE
        /\ queue' \in {queue, << >>}
        /\ UNCHANGED <<busy, pushed>>

Take == /\ open
        /\ busy = 0
        /\ queue /= << >>
        /\ busy' = Head(queue)
        /\ queue' = Tail(queue)
        /\ UNCHANGED <<open, pushed>>

Finish == busy /= 0 /\ busy' = 0 /\ UNCHANGED <<open, queue, pushed>>

Close == /\ open
         /\ busy = 0
         /\ open' = FALSE
         /\ UNCHANGED <<queue, busy, pushed>>

ANext == Enqueue \/ Drop \/ Open \/ Take \/ Finish \/ Close

ASpec == AInit /\ [][ANext]_avars
=============================================================================
