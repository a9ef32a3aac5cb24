------------------------------ MODULE WifiApp ------------------------------
(***************************************************************************)
(* The application around the bridge (main/app_main.c): the Wi-Fi driver   *)
(* posts events, the event loop calls event_handler for each, and every    *)
(* call creates the mutex and the queue anew before it looks at the event. *)
(* When the station has an address, the handler starts the two tasks of    *)
(* the build variant, one after the other; nothing ever stops them, and a  *)
(* later connection starts them once more.                                 *)
(*                                                                         *)
(* The tasks are modelled only as users of the mutex, whose handle         *)
(* `xSemaphore` they read at every call.  Their kinds differ in what they  *)
(* give:                                                                   *)
(*                                                                         *)
(*   "server"        opcua_server_task and mqtt_mbedtls_sub_task give what *)
(*   "mqtt_sub"      they have taken;                                      *)
(*   "opcua_pubsub"  opcua_pubsub_task gives the mutex whenever it has     *)
(*                   found no message, in its loop;                        *)
(*   "mqtt_pub"      mqtt_mbedtls_pub_task gives it whenever its Take has  *)
(*                   failed, before its loop and in it;                    *)
(*   "esp"           mqtt_esp_task takes it once and gives it in every     *)
(*                   iteration;                                            *)
(*   "opcua_sub"     opcua_sub_task keeps it while its server runs, and    *)
(*                   its callback, which takes it again, may return with   *)
(*                   it.                                                   *)
(*                                                                         *)
(* What the bridge's tasks do with the queue is the subject of MqttToOpcUa *)
(* and OpcUaToMqtt.  The tasks of the remaining variants do not use the    *)
(* mutex.  The Wi-Fi driver is external.                                   *)
(***************************************************************************)
EXTENDS Naturals, Sequences

CONSTANTS
  Variants,         \* of each build variant the tasks GOT_IP starts, in order
  MaxEvents,        \* bound of the model: events the driver posts
  MaxReboots        \* bound of the model

ASSUME WifiAppAssumption ==
  /\ Variants \subseteq Seq(STRING) /\ << >> \notin Variants
  /\ \A v \in Variants : \A k \in DOMAIN v :
       /\ v[k] \notin {"START", "DISCONNECTED", "SET_BIT"}
       /\ v[k] = "opcua_sub" => \E m \in DOMAIN v : v[m] = "mqtt_pub"
  /\ MaxEvents \in Nat /\ MaxReboots \in Nat

VARIABLES
  created,          \* the build variant
  wifi,             \* the driver: "off", "idle", "connecting", "associated", "online"
  events,           \* events posted and not yet handled, oldest first
  handling,         \* what event_handler still has to do
  xSemaphore,       \* the number of the current mutex, 0 for NULL
  holder,           \* the task that holds the current mutex, or Free
  tasks,            \* the tasks started so far
  connectedBit,     \* CONNECTED_BIT of wifi_event_group
  mainPc,           \* app_main
  posted, reboots

mutexVars == <<xSemaphore, holder>>
vars == <<created, wifi, events, handling, mutexVars, tasks, connectedBit, mainPc,
          posted, reboots>>

Free == 0
Idle == << >>

\* The tasks in a section.  Of these, `under` is the mutex they took, and
\* `robbed` says that another task has given it since.
InSection == {i \in DOMAIN tasks : tasks[i].pc \in {"setup", "section"}}

Init ==
  /\ created \in Variants
  /\ wifi = "off" /\ events = << >> /\ handling = Idle
  /\ xSemaphore = 0 /\ holder = Free
  /\ tasks = << >> /\ connectedBit = FALSE /\ mainPc = "init"
  /\ posted = 0 /\ reboots = 0

\* An abort: everything starts again.
Restarts ==
  /\ reboots < MaxReboots
  /\ reboots' = reboots + 1
  /\ wifi' = "off" /\ events' = << >> /\ handling' = Idle
  /\ xSemaphore' = 0 /\ holder' = Free
  /\ tasks' = << >> /\ connectedBit' = FALSE /\ mainPc' = "init"
  /\ UNCHANGED <<created, posted>>
-----------------------------------------------------------------------------
(* Faulty variants of definitions below, for the properties to find.       *)

\* The bit is left set when the connection is lost.
HandleDisconnectedKeepsBit ==
  /\ handling = <<"DISCONNECTED">>
  /\ wifi' = "connecting" /\ handling' = Idle
  /\ UNCHANGED <<created, events, mutexVars, tasks, connectedBit, mainPc, posted,
                 reboots>>

\* A task enters its section when the wait is over, with or without the mutex.
EntersAnyway(i) ==
  /\ tasks[i].pc = "take" /\ xSemaphore > 0
  /\ holder' = i
  /\ tasks' = [tasks EXCEPT ![i].pc = "setup", ![i].under = xSemaphore]
  /\ UNCHANGED <<created, wifi, events, handling, xSemaphore, connectedBit, mainPc,
                 posted, reboots>>

\* The abort restarts the Wi-Fi and leaves the tasks alone.
ConnectAbortsKeepsTasks ==
  /\ handling = <<"DISCONNECTED">>
  /\ reboots < MaxReboots
  /\ reboots' = reboots + 1
  /\ wifi' = "off" /\ events' = << >> /\ handling' = Idle
  /\ xSemaphore' = 0 /\ holder' = Free
  /\ connectedBit' = FALSE /\ mainPc' = "init"
  /\ UNCHANGED <<created, tasks, posted>>

\* A task leaves its section without giving the mutex.
LeavesHolding(i) ==
  /\ i \in InSection /\ tasks[i].kind # "opcua_sub"
  /\ tasks' = [tasks EXCEPT ![i].pc = "loop"]
  /\ UNCHANGED <<created, wifi, events, handling, mutexVars, connectedBit, mainPc,
                 posted, reboots>>

\* mqtt_mbedtls_pub_task gives the mutex in its loop only, not when its first
\* Take fails.
GivesInLoopOnly(i) ==
  /\ tasks[i].kind \in {"opcua_pubsub", "mqtt_pub", "esp"} /\ tasks[i].pc = "loop"
  /\ holder # Free
  /\ holder' = Free /\ tasks' = tasks
  /\ UNCHANGED <<created, wifi, events, handling, xSemaphore, connectedBit, mainPc,
                 posted, reboots>>
-----------------------------------------------------------------------------
(* app_main, wifi_init and the driver.                                     *)

Post(event) ==
  /\ posted < MaxEvents
  /\ posted' = posted + 1
  /\ events' = Append(events, event)

MainStartsWifi ==
  /\ mainPc = "init"
  /\ mainPc' = "waiting" /\ wifi' = "idle"
  /\ Post("START")
  /\ UNCHANGED <<created, handling, mutexVars, tasks, connectedBit, reboots>>

MainGoesOn ==
  /\ mainPc = "waiting" /\ connectedBit
  /\ mainPc' = "done"
  /\ UNCHANGED <<created, wifi, events, handling, mutexVars, tasks,
                 connectedBit, posted, reboots>>

\* The driver moves on and posts the event that says so.
DriverMoves ==
  \E step \in {<<"connecting", "associated", "CONNECTED">>,
               <<"connecting", "idle", "DISCONNECTED">>,
               <<"associated", "online", "GOT_IP">>,
               <<"associated", "idle", "DISCONNECTED">>,
               <<"online", "idle", "DISCONNECTED">>} :
    /\ wifi = step[1] /\ wifi' = step[2]
    /\ Post(step[3])
    /\ UNCHANGED <<created, handling, mutexVars, tasks, connectedBit, mainPc,
                   reboots>>
-----------------------------------------------------------------------------
(* event_handler.                                                          *)

\* The event loop takes the next event; the handler replaces both handles.
HandlerStarts ==
  /\ handling = Idle /\ events # << >>
  /\ events' = Tail(events)
  /\ xSemaphore' = xSemaphore + 1 /\ holder' = Free
  /\ handling' = CASE Head(events) = "GOT_IP" -> created \o <<"SET_BIT">>
                   [] Head(events) = "CONNECTED" -> Idle
                   [] OTHER -> <<Head(events)>>
  /\ UNCHANGED <<created, wifi, tasks, connectedBit, mainPc, posted, reboots>>

\* esp_wifi_connect; its result is not looked at.
HandleStart ==
  /\ handling = <<"START">>
  /\ wifi' \in {"connecting", wifi} /\ handling' = Idle
  /\ UNCHANGED <<created, events, mutexVars, tasks, connectedBit, mainPc,
                 posted, reboots>>

\* After a delay the next task is created.
HandlerCreatesTask ==
  /\ handling # Idle /\ \E k \in DOMAIN created : Head(handling) = created[k]
  /\ tasks' = Append(tasks, [kind |-> Head(handling), pc |-> "take",
                             under |-> 0, robbed |-> FALSE])
  /\ handling' = Tail(handling)
  /\ UNCHANGED <<created, wifi, events, mutexVars, connectedBit, mainPc, posted,
                 reboots>>

HandlerSetsBit ==
  /\ handling = <<"SET_BIT">>
  /\ connectedBit' = TRUE /\ handling' = Idle
  /\ UNCHANGED <<created, wifi, events, mutexVars, tasks, mainPc, posted,
                 reboots>>

HandleDisconnected ==
  /\ handling = <<"DISCONNECTED">>
  /\ wifi' = "connecting" /\ connectedBit' = FALSE /\ handling' = Idle
  /\ UNCHANGED <<created, events, mutexVars, tasks, mainPc, posted, reboots>>

\* esp_wifi_connect returns an error: ESP_ERROR_CHECK aborts.
ConnectAborts == handling = <<"DISCONNECTED">> /\ Restarts
-----------------------------------------------------------------------------
(* A task: its first Take ("take"), what it does with the mutex before its *)
(* loop ("setup"), the loop, and what it does with the mutex there         *)
(* ("section").  The loop of opcua_sub_task is UA_Server_run, and its      *)
(* section the callback.                                                   *)

Inside(task, pc) == [task EXCEPT !.pc = pc, !.under = xSemaphore]
Outside(task, pc) == [task EXCEPT !.pc = pc, !.under = 0, !.robbed = FALSE]

\* What a Give makes of the task that holds the mutex.
Given(task) == [task EXCEPT !.robbed = task.pc \in {"setup", "section"}]

\* A Take that times out is repeated and changes nothing.
Enters(i) ==
  /\ \/ tasks[i].pc = "take"
     \/ tasks[i].pc = "loop" /\ tasks[i].kind # "esp"
  /\ xSemaphore > 0 /\ holder = Free
  /\ holder' = i
  /\ tasks' = [tasks EXCEPT ![i] = Inside(@, IF @.pc = "take" THEN "setup"
                                             ELSE "section")]
  /\ UNCHANGED <<created, wifi, events, handling, xSemaphore, connectedBit, mainPc,
                 posted, reboots>>

\* UA_Server_run returns only if the server does not start; opcua_sub_task then
\* begins again.
AfterSection(task) ==
  IF task.kind = "opcua_sub" /\ task.pc = "setup" THEN "take" ELSE "loop"

\* The Give at the end of a section; it gives the current mutex, which may be
\* another than the one taken.
Leaves(i) ==
  /\ i \in InSection
  /\ tasks' = [k \in DOMAIN tasks |->
                 IF k = i THEN Outside(tasks[k], AfterSection(tasks[k]))
                 ELSE IF k = holder THEN Given(tasks[k]) ELSE tasks[k]]
  /\ holder' = Free
  /\ UNCHANGED <<created, wifi, events, handling, xSemaphore, connectedBit, mainPc,
                 posted, reboots>>

\* opcua_sub_task goes into UA_Server_run with the mutex, and its callback
\* returns with it when it has no buffer or discards the message.
Keeps(i) ==
  /\ tasks[i].kind = "opcua_sub" /\ i \in InSection
  /\ tasks' = [tasks EXCEPT ![i] = Outside(@, "loop")]
  /\ UNCHANGED <<created, wifi, events, handling, mutexVars, connectedBit, mainPc,
                 posted, reboots>>

\* A Give without a Take.  If nobody holds the mutex it has no effect.
GivesAnyway(i) ==
  /\ \/ tasks[i].kind \in {"opcua_pubsub", "mqtt_pub", "esp"} /\ tasks[i].pc = "loop"
     \/ tasks[i].kind = "mqtt_pub" /\ tasks[i].pc = "take"
  /\ holder # Free
  /\ holder' = Free /\ tasks' = [tasks EXCEPT ![holder] = Given(@)]
  /\ UNCHANGED <<created, wifi, events, handling, xSemaphore, connectedBit, mainPc,
                 posted, reboots>>

\* mqtt_mbedtls_sub_task after a lost connection, mqtt_esp_task after a million
\* iterations.
StartsAgain(i) ==
  /\ tasks[i].kind \in {"mqtt_sub", "esp"} /\ tasks[i].pc = "loop"
  /\ tasks' = [tasks EXCEPT ![i].pc = "take"]
  /\ UNCHANGED <<created, wifi, events, handling, mutexVars, connectedBit, mainPc,
                 posted, reboots>>

\* opcua_pubsub_task returns, which the task wrapper of sdkconfig answers with
\* an abort; a failed ESP_ERROR_CHECK of mqtt_esp_task; and opcua_sub_task goes
\* on without its transport layer, or without the decoded message.
TaskAborts(i) ==
  /\ \/ tasks[i].kind = "opcua_pubsub" /\ tasks[i].pc = "setup"
     \/ tasks[i].kind = "esp" /\ tasks[i].pc = "take"
     \/ tasks[i].kind = "opcua_sub" /\ tasks[i].pc \in {"setup", "section"}
  /\ Restarts

EventHandler ==
  HandlerStarts \/ HandleStart \/ HandlerCreatesTask \/ HandlerSetsBit
    \/ HandleDisconnected \/ ConnectAborts

Next ==
  \/ MainStartsWifi \/ MainGoesOn \/ DriverMoves
  \/ EventHandler
  \/ \E i \in DOMAIN tasks : \/ Enters(i) \/ Leaves(i) \/ Keeps(i) \/ GivesAnyway(i)
                             \/ StartsAgain(i) \/ TaskAborts(i)

Spec == Init /\ [][Next]_vars

\* The tasks that can exist under the bound on events: a connection takes
\* three events, START or DISCONNECTED, CONNECTED and GOT_IP, and starts two
\* tasks at most.
TaskIds == 1..(2 * (MaxEvents \div 3))

\* Fairness: a section ends, and so does the wait for a mutex that is held (WF);
\* a task that repeats its Take enters if it is possible again and again (SF).
\* In a section are the attempts to connect, which are assumed to return, and of
\* mqtt_esp_task the wait for the external client, which is assumed to connect.
\* Events are not fair.
FairSpec ==
  /\ Spec
  /\ \A i \in TaskIds :
       /\ WF_vars(i \in DOMAIN tasks /\ (Leaves(i) \/ Keeps(i)))
       /\ WF_vars(i \in DOMAIN tasks /\ GivesAnyway(i))
       /\ SF_vars(i \in DOMAIN tasks /\ Enters(i))
-----------------------------------------------------------------------------
(* Properties.                                                             *)

Task == [kind : {created[k] : k \in DOMAIN created},
         pc : {"take", "setup", "loop", "section"}, under : Nat, robbed : BOOLEAN]

TypeOK ==
  /\ created \in Variants
  /\ wifi \in {"off", "idle", "connecting", "associated", "online"}
  /\ events \in Seq({"START", "CONNECTED", "GOT_IP", "DISCONNECTED"})
  /\ xSemaphore \in Nat
  /\ tasks \in Seq(Task)
  /\ holder \in {Free} \cup DOMAIN tasks
  /\ \A i \in DOMAIN tasks : /\ tasks[i].under <= xSemaphore
                             /\ tasks[i].robbed => i \in InSection
  /\ connectedBit \in BOOLEAN /\ mainPc \in {"init", "waiting", "done"}
  /\ posted \in 0..MaxEvents /\ reboots \in 0..MaxReboots

\* event_handler says that it creates the semaphore "to guard a shared
\* resource".  The code does not keep it: the next event replaces the mutex
\* under a task that has taken it.
SectionsExclusive == \A i, j \in InSection : i = j

\* Nothing but a Give by a task that does not hold the mutex lets a second task
\* into a section under the same mutex, a replaced mutex included: whatever
\* events, late starts and restarts there are, of two tasks in their sections
\* under one mutex at least one has been robbed of it.
ExclusiveUnlessRobbed ==
  \A i, j \in InSection :
    i # j /\ tasks[i].under = tasks[j].under => tasks[i].robbed \/ tasks[j].robbed

\* The current mutex is never held for good.  Whoever holds it is in a section
\* at whose end it gives it; where opcua_sub_task keeps it, there is an
\* mqtt_mbedtls_pub_task, or the handler is about to start one, whose failed
\* Take gives it.
MutexComesBack ==
  holder # Free =>
    \/ holder \in InSection /\ tasks[holder].kind # "opcua_sub"
    \/ \E i \in DOMAIN tasks : tasks[i].kind = "mqtt_pub"
    \/ \E m \in DOMAIN handling : handling[m] = "mqtt_pub"

\* Once all events are handled, CONNECTED_BIT says whether the station has an
\* address, and then every task of its build variant has been started.
BitIsCurrent ==
  handling = Idle /\ events = << >> =>
    /\ connectedBit <=> wifi = "online"
    /\ connectedBit => \A k \in DOMAIN created :
         \E i \in DOMAIN tasks : tasks[i].kind = created[k]

\* No task, of the first or a later connection, is kept out for ever, although
\* opcua_sub_task never gives the mutex it entered with.
TasksEnter ==
  \A i \in TaskIds :
    (i \in DOMAIN tasks /\ tasks[i].pc = "take")
      ~> (i \notin DOMAIN tasks \/ tasks[i].pc # "take")
=============================================================================
