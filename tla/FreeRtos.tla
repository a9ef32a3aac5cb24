------------------------------ MODULE FreeRtos ------------------------------
(***************************************************************************)
(* The two kernel objects the bridge tasks share: the mutex `xSemaphore`   *)
(* and the queue `MyQueueHandleId`, and the event handler's replacement of *)
(* both.  The kernel is not part of the repository, so its operators are   *)
(* modelled from the way the tasks call it (a blocking call with a bounded *)
(* wait, whose result the caller tests) and from sdkconfig:                *)
(*                                                                         *)
(*  - a bounded wait on an available object succeeds at once, so a call    *)
(*    can time out only while the object is unavailable, and the length of *)
(*    the wait is abstracted to "may time out while unavailable";          *)
(*  - sdkconfig selects no check that a mutex is given back by the task    *)
(*    that holds it: xSemaphoreGive by any task makes it available, and is *)
(*    without effect when it already is;                                   *)
(*  - the mutex is not recursive: its holder cannot take it again.         *)
(*                                                                         *)
(* The tasks read the two handles at each call.  A call that waits in an   *)
(* object when the handler replaces it goes on waiting in the old one,     *)
(* which nobody gives or fills any more: it can only time out.             *)
(***************************************************************************)
EXTENDS Naturals, Sequences

CONSTANTS
  QueueLength,            \* MaxQueueSize of main/app_main.c
  MaxEvents               \* bound of the model: events handled while tasks run

ASSUME QueueLengthAssumption == QueueLength \in Nat \ {0}
ASSUME MaxEventsAssumption == MaxEvents \in Nat

VARIABLES
  mutex,                  \* the task holding xSemaphore, or Available
  queue,                  \* the elements of MyQueueHandleId, oldest first
  outdated,               \* the tasks that wait in an object no longer used
  events,                 \* events handled since the tasks were started
  replacing               \* the handler has replaced the mutex, not the queue

handlerVars == <<events, replacing>>

Available == "available"

TakeMutex(t)    == mutex = Available /\ mutex' = t
TakeTimesOut(t) == (mutex # Available \/ t \in outdated) /\ UNCHANGED mutex
GiveMutex       == mutex' = Available

SendToQueue(x)   == Len(queue) < QueueLength /\ queue' = Append(queue, x)
SendTimesOut(t)  == (Len(queue) = QueueLength \/ t \in outdated) /\ UNCHANGED queue
ReceiveFromQueue == queue # << >> /\ queue' = Tail(queue)
ReceiveTimesOut(t) == (queue = << >> \/ t \in outdated) /\ UNCHANGED queue

\* A step of task t ends the call it was waiting in.
Runs(t) == outdated' = outdated \ {t} /\ UNCHANGED handlerVars

KernelInit ==
  /\ mutex = Available /\ queue = << >>
  /\ outdated = {} /\ events = 0 /\ replacing = FALSE
-----------------------------------------------------------------------------
(* event_handler of main/app_main.c: every event replaces the mutex first,  *)
(* then the queue.  `taking`, `sending` and `receiving` are the tasks at a *)
(* call of that kind.                                                      *)

ReplaceMutex(taking) ==
  /\ ~replacing /\ events < MaxEvents
  /\ events' = events + 1 /\ replacing' = TRUE
  /\ mutex' = Available
  /\ outdated' = outdated \cup (IF mutex = Available THEN {} ELSE taking)
  /\ UNCHANGED queue

ReplaceQueue(sending, receiving) ==
  /\ replacing
  /\ replacing' = FALSE
  /\ queue' = << >>
  /\ outdated' = outdated \cup (IF Len(queue) = QueueLength THEN sending ELSE {})
                          \cup (IF queue = << >> THEN receiving ELSE {})
  /\ UNCHANGED <<mutex, events>>
=============================================================================
