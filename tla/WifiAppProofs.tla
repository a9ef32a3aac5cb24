--------------------------- MODULE WifiAppProofs ---------------------------
(***************************************************************************)
(* Proofs about WifiApp, for every build variant and every bound on events *)
(* and restarts, in three parts.                                           *)
(*                                                                         *)
(* The types and the exclusion: of the tasks that took the current mutex,  *)
(* and were not robbed of it, there is one, and the mutex names it.  A new *)
(* mutex is one that no task has taken; a Give leaves nobody that is not   *)
(* robbed.  This is inductive together with the fact that only             *)
(* opcua_sub_task holds the mutex outside a section, and that an event     *)
(* that is being handled has made a mutex.                                 *)
(*                                                                         *)
(* The connected bit, which follows the connection.                        *)
(*                                                                         *)
(* The mutex that opcua_sub_task keeps: the task that gives it instead is  *)
(* there, or is what the handler has still to start.                       *)
(***************************************************************************)
EXTENDS WifiApp, SequenceTheorems, TLAPS

HandlerHasMutex == handling # Idle => xSemaphore > 0

\* A task that is in its section with the current mutex holds it.
UnrobbedHolds ==
  \A i \in InSection : tasks[i].under = xSemaphore /\ ~tasks[i].robbed => holder = i

\* The mutex is held in a section, or kept.
HeldOrKept ==
  holder # Free => holder \in InSection \/ tasks[holder].kind = "opcua_sub"

Inv ==
  TypeOK /\ HandlerHasMutex /\ UnrobbedHolds /\ ExclusiveUnlessRobbed /\ HeldOrKept

Event == {"START", "CONNECTED", "GOT_IP", "DISCONNECTED"}
Wifi == {"off", "idle", "connecting", "associated", "online"}

\* What one more element does to a sequence of tasks or holders.
LEMMA Longer ==
  ASSUME NEW S, NEW s \in Seq(S), NEW e \in S
  PROVE  /\ Append(s, e) \in Seq(S)
         /\ Len(Append(s, e)) = Len(s) + 1
         /\ DOMAIN Append(s, e) = 1..(Len(s) + 1)
         /\ \A i \in 1..Len(s) : Append(s, e)[i] = s[i]
         /\ Append(s, e)[Len(s) + 1] = e
  OBVIOUS

\* What a changed element does to one.
LEMMA Changed ==
  ASSUME NEW S, NEW s \in Seq(S), NEW k \in DOMAIN s, NEW e \in S
  PROVE  /\ [s EXCEPT ![k] = e] \in Seq(S)
         /\ Len([s EXCEPT ![k] = e]) = Len(s)
         /\ DOMAIN [s EXCEPT ![k] = e] = DOMAIN s
  OBVIOUS

\* A sequence of members of a set is one of members of a larger set.
LEMMA Wider ==
  ASSUME NEW S, NEW T, S \subseteq T, NEW s \in Seq(S)
  PROVE  s \in Seq(T)
  OBVIOUS

\* A sequence is told by its elements.
LEMMA Two ==
  ASSUME NEW a, NEW b, NEW s \in Seq({a, b}), Len(s) = 2, s[1] = a, s[2] = b
  PROVE  s = <<a, b>>
<1>1. <<a, b>> \in Seq({a, b}) /\ Len(<<a, b>>) = 2
  OBVIOUS
<1>2. \A k \in 1..Len(s) : s[k] = <<a, b>>[k]
  OBVIOUS
<1> QED BY <1>1, <1>2, SeqEqual

\* The same of three elements.
LEMMA Three ==
  ASSUME NEW a, NEW b, NEW c, NEW s \in Seq({a, b, c}), Len(s) = 3,
         s[1] = a, s[2] = b, s[3] = c
  PROVE  s = <<a, b, c>>
<1>1. <<a, b, c>> \in Seq({a, b, c}) /\ Len(<<a, b, c>>) = 3
  OBVIOUS
<1>2. \A k \in 1..Len(s) : s[k] = <<a, b, c>>[k]
  OBVIOUS
<1> QED BY <1>1, <1>2, SeqEqual

\* What appending does to the short sequences of events.
LEMMA Grows ==
  ASSUME NEW a, NEW b, NEW c
  PROVE  /\ Append(<< >>, a) = <<a>>
         /\ Append(<<a>>, b) = <<a, b>>
         /\ Append(<<a, b>>, c) = <<a, b, c>>
<1>1. Append(<<a>>, b) = <<a, b>>
  <2>1. <<a>> \in Seq({a, b})
    OBVIOUS
  <2>2. /\ Append(<<a>>, b) \in Seq({a, b}) /\ Len(Append(<<a>>, b)) = 2
        /\ Append(<<a>>, b)[1] = a /\ Append(<<a>>, b)[2] = b
    BY <2>1
  <2> QED BY <2>2, Two
<1>2. Append(<<a, b>>, c) = <<a, b, c>>
  <2>1. <<a, b>> \in Seq({a, b, c})
    OBVIOUS
  <2>2. /\ Append(<<a, b>>, c) \in Seq({a, b, c}) /\ Len(Append(<<a, b>>, c)) = 3
        /\ Append(<<a, b>>, c)[1] = a /\ Append(<<a, b>>, c)[2] = b
        /\ Append(<<a, b>>, c)[3] = c
    BY <2>1
  <2> QED BY <2>2, Three
<1> QED BY <1>1, <1>2

\* What taking the first does to them.
LEMMA Shrinks ==
  ASSUME NEW a, NEW b, NEW c
  PROVE  /\ Head(<<a>>) = a /\ Tail(<<a>>) = << >>
         /\ Head(<<a, b>>) = a /\ Tail(<<a, b>>) = <<b>>
         /\ Head(<<a, b, c>>) = a /\ Tail(<<a, b, c>>) = <<b, c>>
  OBVIOUS
\* The types, and that nobody is in a section, hold at boot.
LEMMA InvInit == Init => Inv
<1> SUFFICES ASSUME Init PROVE Inv
  OBVIOUS
<1>1. posted \in 0..MaxEvents /\ reboots \in 0..MaxReboots
  BY WifiAppAssumption DEF Init
<1>2. TypeOK
  <2>1. tasks \in Seq(Task) /\ (\A i \in DOMAIN tasks : FALSE) /\ events \in Seq(Event)
    BY DEF Init
  <2> QED BY <1>1, <2>1 DEF Init, Idle, TypeOK, Event
<1>3. UnrobbedHolds /\ ExclusiveUnlessRobbed /\ HeldOrKept
  BY DEF Init, UnrobbedHolds, ExclusiveUnlessRobbed, HeldOrKept, InSection
<1>4. HandlerHasMutex
  BY DEF Init, HandlerHasMutex
<1> QED
  BY <1>2, <1>3, <1>4 DEF Inv

\* A step that leaves the mutex and the tasks alone keeps what is said of
\* them.
LEMMA Aside ==
  ASSUME Inv, UNCHANGED <<created, xSemaphore, holder, tasks>>,
         handling' \in {handling, Idle},
         wifi' \in Wifi, events' \in Seq(Event), connectedBit' \in BOOLEAN,
         mainPc' \in {"init", "waiting", "done"},
         posted' \in 0..MaxEvents, reboots' \in 0..MaxReboots
  PROVE  Inv'
<1>1. TypeOK'
  BY DEF Inv, TypeOK, Task, Wifi, Event, InSection
<1>2. InSection' = InSection
  BY DEF InSection
<1>3. UnrobbedHolds' /\ ExclusiveUnlessRobbed' /\ HeldOrKept'
  BY <1>2 DEF Inv, UnrobbedHolds, ExclusiveUnlessRobbed, HeldOrKept
<1>4. HandlerHasMutex'
  BY DEF Inv, HandlerHasMutex
<1> QED BY <1>1, <1>3, <1>4 DEF Inv

\* What a task's step leaves of the others.
OthersStay(i) ==
  /\ UNCHANGED <<created, wifi, events, handling, xSemaphore, connectedBit, mainPc,
                 posted, reboots>>
  /\ tasks' \in Seq(Task) /\ DOMAIN tasks' = DOMAIN tasks
  /\ \A j \in DOMAIN tasks :
       /\ tasks'[j].kind = tasks[j].kind
       /\ tasks'[j].under <= xSemaphore
       /\ tasks'[j].robbed => tasks'[j].pc \in {"setup", "section"}
       /\ j # i => /\ tasks'[j].pc = tasks[j].pc
                   /\ tasks'[j].under = tasks[j].under
                   /\ tasks[j].robbed => tasks'[j].robbed

\* The tasks' records.
LEMMA ATask ==
  ASSUME TypeOK, NEW i \in DOMAIN tasks
  PROVE  /\ tasks[i] \in Task /\ tasks \in Seq(Task)
         /\ tasks[i].under \in Nat /\ xSemaphore \in Nat
         /\ tasks[i].under <= xSemaphore /\ i # Free
         /\ tasks[i].robbed => tasks[i].pc \in {"setup", "section"}
<1>1. tasks \in Seq(Task) /\ tasks[i] \in Task
  BY DEF TypeOK
<1>2. DOMAIN tasks = 1..Len(tasks) /\ Len(tasks) \in Nat
  BY <1>1
<1> QED BY <1>1, <1>2 DEF TypeOK, Task, Free, InSection

\* What entering, leaving, a Give and starting again make of a task's record.
LEMMA InsideTask ==
  ASSUME NEW t \in Task, NEW pc \in {"setup", "section"}, xSemaphore \in Nat
  PROVE  /\ Inside(t, pc) \in Task /\ Inside(t, pc).pc = pc
         /\ Inside(t, pc).under = xSemaphore /\ Inside(t, pc).kind = t.kind
  BY DEF Task, Inside

\* A task outside has no mutex, and has not been robbed of one.
LEMMA OutsideTask ==
  ASSUME NEW t \in Task, NEW pc \in {"take", "loop"}
  PROVE  /\ Outside(t, pc) \in Task /\ Outside(t, pc).pc = pc
         /\ Outside(t, pc).kind = t.kind /\ Outside(t, pc).under = 0
         /\ ~Outside(t, pc).robbed
  BY DEF Task, Outside

\* A flag of a record changes.
LEMMA Flagged ==
  ASSUME NEW t \in Task, NEW flag \in BOOLEAN
  PROVE  /\ [t EXCEPT !.robbed = flag] \in Task
         /\ [t EXCEPT !.robbed = flag].pc = t.pc
         /\ [t EXCEPT !.robbed = flag].kind = t.kind
         /\ [t EXCEPT !.robbed = flag].under = t.under
  BY DEF Task

\* A Give marks its holder, if that is in a section.
LEMMA GivenTask ==
  ASSUME NEW t \in Task
  PROVE  /\ Given(t) \in Task /\ Given(t).pc = t.pc
         /\ Given(t).kind = t.kind /\ Given(t).under = t.under
         /\ Given(t).robbed <=> t.pc \in {"setup", "section"}
<1> DEFINE flag == t.pc \in {"setup", "section"}
<1>1. flag \in BOOLEAN /\ Given(t) = [t EXCEPT !.robbed = flag]
  BY DEF Given
<1>2. Given(t).robbed <=> t.pc \in {"setup", "section"}
  BY DEF Task, Given
<1> HIDE DEF flag
<1> QED BY <1>1, <1>2, Flagged

\* A task waits again.
LEMMA AgainTask ==
  ASSUME NEW t \in Task
  PROVE  /\ [t EXCEPT !.pc = "take"] \in Task /\ [t EXCEPT !.pc = "take"].pc = "take"
         /\ [t EXCEPT !.pc = "take"].kind = t.kind
         /\ [t EXCEPT !.pc = "take"].under = t.under
         /\ [t EXCEPT !.pc = "take"].robbed = t.robbed
  BY DEF Task

\* A task goes in with the mutex.
LEMMA EntersStays ==
  ASSUME TypeOK, NEW i \in DOMAIN tasks, Enters(i)
  PROVE  /\ OthersStay(i) /\ i \in InSection' /\ tasks'[i].under = xSemaphore
         /\ \A j \in DOMAIN tasks : j # i => tasks'[j] = tasks[j]
<1> DEFINE place == IF tasks[i].pc = "take" THEN "setup" ELSE "section"
           new == Inside(tasks[i], place)
<1>1. tasks[i] \in Task /\ tasks \in Seq(Task) /\ xSemaphore \in Nat
  BY ATask
<1>2. place \in {"setup", "section"}
  OBVIOUS
<1>3. tasks' = [tasks EXCEPT ![i] = new]
  BY DEF Enters
<1> HIDE DEF place
<1>4. /\ new \in Task /\ new.kind = tasks[i].kind /\ new.under = xSemaphore
      /\ new.pc \in {"setup", "section"}
  BY <1>1, <1>2, InsideTask
<1> HIDE DEF new
<1>5. tasks' \in Seq(Task) /\ DOMAIN tasks' = DOMAIN tasks
  BY <1>1, <1>3, <1>4, Changed
<1>6. tasks'[i] = new /\ \A j \in DOMAIN tasks : j # i => tasks'[j] = tasks[j]
  BY <1>1, <1>3
<1>7. OthersStay(i)
  BY <1>1, <1>4, <1>5, <1>6, ATask DEF OthersStay, Enters
<1> QED BY <1>4, <1>5, <1>6, <1>7 DEF InSection

\* A task gives the mutex, at the end of its section or without having it;
\* who holds it is robbed.
LEMMA GiveStays ==
  ASSUME TypeOK, NEW i \in DOMAIN tasks, Leaves(i) \/ GivesAnyway(i)
  PROVE  /\ OthersStay(i)
         /\ Leaves(i) => i \notin InSection'
         /\ GivesAnyway(i) => tasks'[i].pc = tasks[i].pc /\ i \notin InSection
         /\ \A j \in DOMAIN tasks :
              j # i /\ j = holder /\ j \in InSection => tasks'[j].robbed
<1>1. tasks[i] \in Task /\ tasks \in Seq(Task)
  BY ATask
<1>2. \A j \in InSection : tasks[j].pc \in {"setup", "section"}
  BY DEF InSection
<1>3. CASE Leaves(i)
  <2> DEFINE new(j) == IF j = i THEN Outside(tasks[j], AfterSection(tasks[j]))
                       ELSE IF j = holder THEN Given(tasks[j]) ELSE tasks[j]
  <2>1. ASSUME NEW j \in DOMAIN tasks
        PROVE  /\ new(j) \in Task /\ new(j).kind = tasks[j].kind
               /\ new(j).under <= xSemaphore
               /\ new(j).robbed => new(j).pc \in {"setup", "section"}
               /\ j # i => /\ new(j).pc = tasks[j].pc
                           /\ new(j).under = tasks[j].under
                           /\ tasks[j].robbed => new(j).robbed
               /\ j # i /\ j = holder /\ j \in InSection => new(j).robbed
               /\ j = i => new(j).pc \notin {"setup", "section"}
    <3>1. /\ tasks[j] \in Task /\ xSemaphore \in Nat /\ tasks[j].under <= xSemaphore
          /\ tasks[j].robbed => tasks[j].pc \in {"setup", "section"}
      BY ATask
    <3>2. CASE j = i
      <4>1. AfterSection(tasks[j]) \in {"take", "loop"}
        BY DEF AfterSection
      <4>2. new(j) = Outside(tasks[j], AfterSection(tasks[j]))
        BY <3>2
      <4> HIDE DEF new
      <4> QED BY <3>1, <3>2, <4>1, <4>2, OutsideTask
    <3>3. CASE j # i /\ j = holder
      <4>1. new(j) = Given(tasks[j])
        BY <3>3
      <4> HIDE DEF new
      <4> QED BY <1>2, <3>1, <3>3, <4>1, GivenTask
    <3>4. CASE j # i /\ j # holder
      BY <3>1, <3>4
    <3> QED BY <3>2, <3>3, <3>4
  <2>2. tasks' = [j \in DOMAIN tasks |-> new(j)]
    BY <1>3 DEF Leaves
  <2> HIDE DEF new
  <2>3. DOMAIN tasks = 1..Len(tasks) /\ Len(tasks) \in Nat
    BY <1>1
  <2>4. tasks' \in Seq(Task) /\ DOMAIN tasks' = DOMAIN tasks
    BY <2>1, <2>2, <2>3
  <2>5. \A j \in DOMAIN tasks : tasks'[j] = new(j)
    BY <2>2
  <2>6. OthersStay(i)
    BY <1>3, <2>1, <2>4, <2>5 DEF OthersStay, Leaves
  <2>7. ~GivesAnyway(i)
    BY <1>3 DEF Leaves, GivesAnyway, InSection
  <2> QED BY <2>1, <2>4, <2>5, <2>6, <2>7 DEF InSection
<1>4. CASE GivesAnyway(i)
  <2> DEFINE new == Given(tasks[holder])
  <2>1. /\ holder \in DOMAIN tasks /\ tasks[holder] \in Task
        /\ tasks[holder].robbed => tasks[holder].pc \in {"setup", "section"}
        /\ tasks[holder].under <= xSemaphore
    BY <1>4, ATask DEF TypeOK, GivesAnyway
  <2>2. /\ new \in Task /\ new.kind = tasks[holder].kind /\ new.pc = tasks[holder].pc
        /\ new.under = tasks[holder].under
        /\ new.robbed <=> tasks[holder].pc \in {"setup", "section"}
    BY <2>1, GivenTask
  <2>3. tasks' = [tasks EXCEPT ![holder] = new]
    BY <1>4 DEF GivesAnyway
  <2> HIDE DEF new
  <2>4. tasks' \in Seq(Task) /\ DOMAIN tasks' = DOMAIN tasks
    BY <1>1, <2>1, <2>2, <2>3, Changed
  <2>5. tasks'[holder] = new /\ \A j \in DOMAIN tasks : j # holder => tasks'[j] = tasks[j]
    BY <1>1, <2>1, <2>3
  <2>6. ASSUME NEW j \in DOMAIN tasks
        PROVE  /\ tasks'[j].kind = tasks[j].kind
               /\ tasks'[j].under <= xSemaphore
               /\ tasks'[j].robbed => tasks'[j].pc \in {"setup", "section"}
               /\ tasks'[j].pc = tasks[j].pc
               /\ tasks'[j].under = tasks[j].under
               /\ tasks[j].robbed => tasks'[j].robbed
               /\ j = holder /\ j \in InSection => tasks'[j].robbed
    <3>1. CASE j = holder
      BY <1>2, <2>1, <2>2, <2>5, <3>1
    <3>2. CASE j # holder
      BY <2>5, <3>2, ATask
    <3> QED BY <3>1, <3>2
  <2>7. OthersStay(i)
    BY <1>4, <2>4, <2>6 DEF OthersStay, GivesAnyway
  <2>8. tasks'[i].pc = tasks[i].pc /\ i \notin InSection /\ ~Leaves(i)
    BY <1>4, <2>6 DEF GivesAnyway, Leaves, InSection
  <2> QED BY <2>6, <2>7, <2>8
<1> QED BY <1>3, <1>4

\* A task changes its place and leaves the mutex as it is.
LEMMA PlaceStays ==
  ASSUME TypeOK, NEW i \in DOMAIN tasks, Keeps(i) \/ StartsAgain(i)
  PROVE  /\ OthersStay(i) /\ i \notin InSection'
         /\ \A j \in DOMAIN tasks : j # i => tasks'[j] = tasks[j]
         /\ holder' = holder
         /\ i \notin InSection \/ tasks[i].kind = "opcua_sub"
<1>1. tasks[i] \in Task /\ tasks \in Seq(Task)
  BY ATask
<1>2. PICK new \in Task : /\ tasks' = [tasks EXCEPT ![i] = new]
                          /\ new.kind = tasks[i].kind /\ new.pc \in {"take", "loop"}
                          /\ new.under <= xSemaphore /\ ~new.robbed
  <2>1. CASE Keeps(i)
    <3>1. 0 <= xSemaphore
      BY DEF TypeOK
    <3>2. tasks' = [tasks EXCEPT ![i] = Outside(tasks[i], "loop")]
      BY <2>1 DEF Keeps
    <3> QED BY <1>1, <3>1, <3>2, OutsideTask
  <2>2. CASE StartsAgain(i)
    <3>1. tasks[i].under <= xSemaphore /\ ~tasks[i].robbed
      BY <2>2, ATask DEF StartsAgain
    <3>2. tasks' = [tasks EXCEPT ![i] = [tasks[i] EXCEPT !.pc = "take"]]
      BY <2>2 DEF StartsAgain
    <3> QED BY <1>1, <3>1, <3>2, AgainTask
  <2> QED BY <2>1, <2>2
<1>3. tasks' \in Seq(Task) /\ DOMAIN tasks' = DOMAIN tasks
  BY <1>1, <1>2, Changed
<1>4. tasks'[i] = new /\ \A j \in DOMAIN tasks : j # i => tasks'[j] = tasks[j]
  BY <1>1, <1>2
<1>5. OthersStay(i)
  BY <1>2, <1>3, <1>4, ATask DEF OthersStay, Keeps, StartsAgain, mutexVars
<1> QED BY <1>2, <1>3, <1>4, <1>5 DEF InSection, Keeps, StartsAgain, mutexVars

\* The steps of a task that do not restart the chip.
Uses(i) == Enters(i) \/ Leaves(i) \/ Keeps(i) \/ GivesAnyway(i) \/ StartsAgain(i)

\* A task's step keeps the types.
LEMMA TaskKeepsTypes ==
  ASSUME TypeOK, NEW i \in DOMAIN tasks, Uses(i)
  PROVE  OthersStay(i) /\ TypeOK'
<1>1. OthersStay(i)
  BY EntersStays, GiveStays, PlaceStays DEF Uses
<1>2. Task' = Task
  BY <1>1 DEF OthersStay, Task
<1>3. holder' \in {Free} \cup DOMAIN tasks'
  BY <1>1 DEF OthersStay, TypeOK, Uses, Enters, Leaves, Keeps, GivesAnyway,
     StartsAgain, mutexVars
<1> QED BY <1>1, <1>2, <1>3 DEF OthersStay, TypeOK, InSection

\* A task's step preserves the invariant.
LEMMA TaskMoves ==
  ASSUME Inv, NEW i \in DOMAIN tasks, Uses(i)
  PROVE  Inv'
<1>1. OthersStay(i) /\ TypeOK'
  BY TaskKeepsTypes DEF Inv
<1>2. InSection' \subseteq InSection \cup {i} /\ InSection \subseteq DOMAIN tasks
  BY <1>1 DEF OthersStay, InSection
<1>3. \A j \in InSection : ~tasks[j].robbed /\ tasks[j].under = xSemaphore => holder = j
  BY DEF Inv, UnrobbedHolds
<1>4. HandlerHasMutex'
  BY <1>1 DEF Inv, HandlerHasMutex, OthersStay
<1>5. CASE Enters(i)
  <2>1. /\ holder = Free /\ holder' = i /\ i \in InSection'
        /\ \A j \in DOMAIN tasks : j # i => tasks'[j] = tasks[j]
        /\ xSemaphore' = xSemaphore
    BY <1>5, EntersStays DEF Inv, Enters
  <2>2. ASSUME NEW j \in InSection', j # i, tasks'[j].under = xSemaphore
        PROVE  tasks'[j].robbed
    <3>1. j \in InSection /\ tasks[j].under = xSemaphore
      BY <1>2, <2>1, <2>2
    <3>2. tasks[j].robbed
      BY <1>2, <1>3, <2>1, <3>1, ATask DEF Inv
    <3> QED BY <1>2, <2>1, <2>2, <3>1, <3>2
  <2>3. UnrobbedHolds'
    BY <2>1, <2>2 DEF UnrobbedHolds
  <2>4. ExclusiveUnlessRobbed'
    <3> SUFFICES ASSUME NEW j \in InSection', NEW k \in InSection', j # k,
                        tasks'[j].under = tasks'[k].under
                 PROVE  tasks'[j].robbed \/ tasks'[k].robbed
      BY DEF ExclusiveUnlessRobbed
    <3>1. tasks'[i].under = xSemaphore
      BY <1>5, EntersStays DEF Inv
    <3>2. CASE j = i \/ k = i
      BY <2>2, <3>1, <3>2
    <3>3. CASE j # i /\ k # i
      BY <1>2, <2>1, <3>3 DEF Inv, ExclusiveUnlessRobbed
    <3> QED BY <3>2, <3>3
  <2>5. HeldOrKept'
    BY <2>1 DEF HeldOrKept
  <2> QED BY <1>1, <1>4, <2>3, <2>4, <2>5 DEF Inv
<1>6. CASE Leaves(i) \/ GivesAnyway(i)
  <2>1. /\ holder' = Free /\ i \notin InSection'
        /\ \A j \in DOMAIN tasks : j # i /\ j = holder /\ j \in InSection
                                     => tasks'[j].robbed
    BY <1>1, <1>6, GiveStays DEF Inv, Leaves, GivesAnyway, InSection
  <2>2. ASSUME NEW j \in InSection'
        PROVE  /\ j \in InSection /\ j # i /\ tasks'[j].under = tasks[j].under
               /\ tasks[j].robbed => tasks'[j].robbed
    BY <1>1, <1>2, <2>1, <2>2 DEF OthersStay
  <2>3. UnrobbedHolds'
    <3> SUFFICES ASSUME NEW j \in InSection', tasks'[j].under = xSemaphore,
                        ~tasks'[j].robbed
                 PROVE  FALSE
      BY <1>1 DEF UnrobbedHolds, OthersStay
    <3>1. holder = j
      BY <1>3, <2>2
    <3> QED BY <1>2, <2>1, <2>2, <3>1
  <2>4. ExclusiveUnlessRobbed'
    BY <2>2 DEF Inv, ExclusiveUnlessRobbed
  <2>5. HeldOrKept'
    BY <2>1 DEF HeldOrKept
  <2> QED BY <1>1, <1>4, <2>3, <2>4, <2>5 DEF Inv
<1>7. CASE Keeps(i) \/ StartsAgain(i)
  <2>1. /\ i \notin InSection' /\ holder' = holder /\ xSemaphore' = xSemaphore
        /\ \A j \in DOMAIN tasks : j # i => tasks'[j] = tasks[j]
        /\ i \notin InSection \/ tasks[i].kind = "opcua_sub"
    BY <1>1, <1>7, PlaceStays DEF Inv, OthersStay
  <2>2. \A j \in InSection' : j \in InSection /\ tasks'[j] = tasks[j]
    BY <1>2, <2>1
  <2>3. UnrobbedHolds' /\ ExclusiveUnlessRobbed'
    BY <2>1, <2>2 DEF Inv, UnrobbedHolds, ExclusiveUnlessRobbed
  <2>4. HeldOrKept'
    <3> SUFFICES ASSUME holder # Free
                 PROVE  holder \in InSection' \/ tasks'[holder].kind = "opcua_sub"
      BY <2>1 DEF HeldOrKept
    <3>1. holder \in InSection \/ tasks[holder].kind = "opcua_sub"
      BY DEF Inv, HeldOrKept
    <3>2. holder \in DOMAIN tasks
      BY DEF Inv, TypeOK
    <3>3. tasks'[holder].kind = tasks[holder].kind
      BY <1>1, <3>2 DEF OthersStay
    <3> QED BY <1>1, <2>1, <3>1, <3>2, <3>3 DEF InSection, OthersStay
  <2> QED BY <1>1, <1>4, <2>3, <2>4 DEF Inv
<1> QED BY <1>5, <1>6, <1>7 DEF Uses

\* The driver's and app_main's steps: one more event is within its bound.
LEMMA Posts ==
  ASSUME Inv, NEW event \in Event, Post(event)
  PROVE  events' \in Seq(Event) /\ posted' \in 0..MaxEvents
<1>1. events \in Seq(Event) /\ posted \in 0..MaxEvents /\ MaxEvents \in Nat
  BY WifiAppAssumption DEF Inv, TypeOK, Event
<1>2. events' \in Seq(Event)
  BY <1>1, Longer DEF Post
<1>3. posted' \in 0..MaxEvents
  BY <1>1 DEF Post
<1> QED BY <1>2, <1>3

\* A new mutex is free, and no task has taken it.
LEMMA NewMutex ==
  ASSUME Inv, HandlerStarts
  PROVE  Inv'
<1>1. /\ xSemaphore \in Nat /\ xSemaphore' = xSemaphore + 1 /\ holder' = Free
      /\ UNCHANGED <<created, wifi, tasks, connectedBit, mainPc, posted, reboots>>
  BY DEF Inv, TypeOK, HandlerStarts
<1>2. events' \in Seq(Event)
  BY DEF Inv, TypeOK, HandlerStarts, Event
<1>3. InSection' = InSection /\ Task' = Task
  BY <1>1 DEF InSection, Task
<1>4. \A i \in DOMAIN tasks : /\ tasks[i].under < xSemaphore'
                              /\ tasks[i].under <= xSemaphore'
  BY <1>1, ATask DEF Inv
<1>5. TypeOK'
  BY <1>1, <1>2, <1>3, <1>4 DEF Inv, TypeOK, Event
<1>6. UnrobbedHolds'
  <2>1. \A i \in InSection : tasks[i].under # xSemaphore'
    BY <1>1, <1>4, ATask DEF Inv, InSection
  <2> QED BY <1>1, <1>3, <2>1 DEF UnrobbedHolds
<1>7. ExclusiveUnlessRobbed' /\ HeldOrKept' /\ HandlerHasMutex'
  BY <1>1, <1>3 DEF Inv, ExclusiveUnlessRobbed, HeldOrKept, HandlerHasMutex
<1> QED BY <1>5, <1>6, <1>7 DEF Inv

\* A new task waits for the mutex and holds none.
LEMMA NewTask ==
  ASSUME Inv, HandlerCreatesTask
  PROVE  Inv'
<1> DEFINE new == [kind |-> Head(handling), pc |-> "take", under |-> 0,
                   robbed |-> FALSE]
<1>1. /\ tasks' = Append(tasks, new) /\ handling # Idle /\ xSemaphore > 0
      /\ UNCHANGED <<created, wifi, events, xSemaphore, holder, connectedBit,
                     mainPc, posted, reboots>>
      /\ xSemaphore \in Nat
  BY DEF Inv, TypeOK, HandlerHasMutex, HandlerCreatesTask, mutexVars
<1>2. new \in Task /\ Task' = Task
  BY <1>1 DEF HandlerCreatesTask, Task
<1>3. tasks \in Seq(Task) /\ Len(tasks) \in Nat /\ DOMAIN tasks = 1..Len(tasks)
  BY DEF Inv, TypeOK
<1>4. /\ tasks' \in Seq(Task) /\ DOMAIN tasks' = 1..(Len(tasks) + 1)
      /\ \A i \in DOMAIN tasks : tasks'[i] = tasks[i]
      /\ tasks'[Len(tasks) + 1] = new
  BY <1>1, <1>2, <1>3, Longer
<1>5. DOMAIN tasks \subseteq DOMAIN tasks'
  BY <1>3, <1>4
<1>6. InSection' = InSection /\ InSection \subseteq DOMAIN tasks
  BY <1>3, <1>4, <1>5 DEF InSection
<1>7. \A i \in DOMAIN tasks' : /\ tasks'[i].under <= xSemaphore'
                               /\ tasks'[i].robbed => i \in InSection'
  <2>1. \A i \in DOMAIN tasks : /\ tasks[i].under <= xSemaphore
                                /\ tasks[i].robbed => i \in InSection
    BY DEF Inv, TypeOK
  <2> QED BY <2>1, <1>1, <1>3, <1>4, <1>6
<1>8. TypeOK'
  BY <1>1, <1>2, <1>4, <1>5, <1>7 DEF Inv, TypeOK
<1>9. \A i \in InSection : tasks'[i] = tasks[i]
  BY <1>4, <1>6
<1>10. UnrobbedHolds' /\ ExclusiveUnlessRobbed'
  BY <1>1, <1>6, <1>9 DEF Inv, UnrobbedHolds, ExclusiveUnlessRobbed
<1>11. HeldOrKept'
  <2>1. holder \in {Free} \cup DOMAIN tasks
    BY DEF Inv, TypeOK
  <2> QED BY <1>1, <1>4, <1>6, <2>1 DEF Inv, HeldOrKept
<1>12. HandlerHasMutex'
  BY <1>1 DEF HandlerHasMutex
<1> QED BY <1>8, <1>10, <1>11, <1>12 DEF Inv

\* After a restart there is no mutex and no task.
LEMMA Restart ==
  ASSUME Inv, Restarts
  PROVE  Inv'
<1>1. reboots' \in 0..MaxReboots /\ posted' \in 0..MaxEvents
  BY WifiAppAssumption DEF Inv, TypeOK, Restarts
<1>2. TypeOK'
  <2>1. /\ tasks' \in Seq(Task') /\ (\A i \in DOMAIN tasks' : FALSE)
        /\ events' \in Seq(Event)
    BY DEF Restarts
  <2> QED BY <1>1, <2>1 DEF Inv, TypeOK, Restarts, Idle, Event
<1>3. UnrobbedHolds' /\ ExclusiveUnlessRobbed' /\ HeldOrKept' /\ HandlerHasMutex'
  BY DEF Restarts, UnrobbedHolds, ExclusiveUnlessRobbed, HeldOrKept, HandlerHasMutex,
         InSection
<1> QED BY <1>2, <1>3 DEF Inv

\* Every step of the application preserves the invariant.
LEMMA InvNext == Inv /\ [Next]_vars => Inv'
<1> SUFFICES ASSUME Inv, [Next]_vars PROVE Inv'
  OBVIOUS
<1>0. /\ wifi \in Wifi /\ events \in Seq(Event) /\ connectedBit \in BOOLEAN
      /\ mainPc \in {"init", "waiting", "done"}
      /\ posted \in 0..MaxEvents /\ reboots \in 0..MaxReboots
  BY DEF Inv, TypeOK, Wifi, Event
<1>1. CASE MainStartsWifi
  <2>1. "START" \in Event
    BY DEF Event
  <2> QED BY <1>0, <1>1, <2>1, Posts, Aside DEF MainStartsWifi, mutexVars, Wifi
<1>2. CASE MainGoesOn
  BY <1>0, <1>2, Aside DEF MainGoesOn, mutexVars
<1>3. CASE DriverMoves
  <2>1. PICK step \in {<<"connecting", "associated", "CONNECTED">>,
                       <<"connecting", "idle", "DISCONNECTED">>,
                       <<"associated", "online", "GOT_IP">>,
                       <<"associated", "idle", "DISCONNECTED">>,
                       <<"online", "idle", "DISCONNECTED">>} :
          /\ wifi' = step[2] /\ Post(step[3])
          /\ UNCHANGED <<created, handling, mutexVars, tasks, connectedBit,
                         mainPc, reboots>>
    BY <1>3 DEF DriverMoves
  <2>2. step[2] \in Wifi /\ step[3] \in Event
    BY DEF Wifi, Event
  <2>3. events' \in Seq(Event) /\ posted' \in 0..MaxEvents
    BY <2>1, <2>2, Posts
  <2> QED BY <1>0, <2>1, <2>2, <2>3, Aside DEF mutexVars
<1>4. CASE HandlerStarts
  BY <1>4, NewMutex
<1>5. CASE HandleStart
  <2>1. wifi' \in Wifi
    BY <1>0, <1>5 DEF HandleStart, Wifi
  <2> QED BY <1>0, <1>5, <2>1, Aside DEF HandleStart, mutexVars
<1>6. CASE HandlerCreatesTask
  BY <1>6, NewTask
<1>7. CASE HandlerSetsBit
  BY <1>0, <1>7, Aside DEF HandlerSetsBit, mutexVars
<1>8. CASE HandleDisconnected
  BY <1>0, <1>8, Aside DEF HandleDisconnected, mutexVars, Wifi
<1>9. CASE Restarts
  BY <1>9, Restart
<1>10. ASSUME NEW i \in DOMAIN tasks, Uses(i) PROVE Inv'
  BY <1>10, TaskMoves
<1>11. CASE UNCHANGED vars
  BY <1>0, <1>11, Aside DEF vars, mutexVars
<1> QED
  BY <1>1, <1>2, <1>3, <1>4, <1>5, <1>6, <1>7, <1>8, <1>9, <1>10, <1>11
     DEF Next, EventHandler, ConnectAborts, TaskAborts, Uses

\* The inductive invariant holds of the application.
THEOREM Invariant == Spec => []Inv
BY InvInit, InvNext, PTL DEF Spec

\* The application keeps its types: among them that a mutex is held by a task
\* that exists, although restarts delete the tasks and events replace the mutex.
THEOREM TypeCorrect == Spec => []TypeOK
<1>1. Inv => TypeOK
  BY DEF Inv
<1> QED BY <1>1, Invariant, PTL

\* Of two tasks in their sections under one mutex one has been robbed of it by
\* a Give without a Take: events, late starts, restarts and the Gives at the
\* ends of sections, which may be of another mutex, let nobody in.
THEOREM ExclusionUnlessRobbed == Spec => []ExclusiveUnlessRobbed
<1>1. Inv => ExclusiveUnlessRobbed
  BY DEF Inv
<1> QED BY <1>1, Invariant, PTL
-----------------------------------------------------------------------------
(* The connected bit.  What is posted and what is handled depends on where *)
(* the driver is: at most one connection is on its way, and the events of  *)
(* the one before are handled before a new one is asked for, because only  *)
(* the handler of DISCONNECTED asks for it.  So the bit is set by the last *)
(* GOT_IP that counts and cleared by the last DISCONNECTED.                *)

\* GOT_IP is being handled: the bit is what its handler sets last.
GotIp == handling # Idle /\ handling[Len(handling)] = "SET_BIT"

ToDo == {"START", "DISCONNECTED", "SET_BIT"} \cup {created[k] : k \in DOMAIN created}

Quiet == handling = Idle /\ ~connectedBit

Idles ==
  \/ Quiet /\ events \in {<< >>, <<"START">>, <<"CONNECTED", "DISCONNECTED">>,
                          <<"GOT_IP", "DISCONNECTED">>,
                          <<"CONNECTED", "GOT_IP", "DISCONNECTED">>}
  \/ handling = Idle /\ events = <<"DISCONNECTED">>
  \/ handling = <<"START">> /\ events = << >> /\ ~connectedBit
  \/ handling = <<"DISCONNECTED">> /\ events = << >>
  \/ GotIp /\ events = <<"DISCONNECTED">>

Online ==
  \/ Quiet /\ events \in {<<"CONNECTED", "GOT_IP">>, <<"GOT_IP">>}
  \/ handling = Idle /\ events = << >> /\ connectedBit
  \/ GotIp /\ events = << >>

EventsInv ==
  /\ wifi \in {"off", "connecting"} => Quiet /\ events = << >>
  /\ wifi = "idle" => Idles
  /\ wifi = "associated" => Quiet /\ events \in {<< >>, <<"CONNECTED">>}
  /\ wifi = "online" => Online
  /\ mainPc = "init" => wifi = "off"

Started(k) == \E i \in DOMAIN tasks : tasks[i].kind = created[k]

\* What is not started yet is still to be done before the bit is set.
StartedInv ==
  /\ GotIp => \A k \in DOMAIN created :
                Started(k) \/ \E m \in DOMAIN handling : handling[m] = created[k]
  /\ connectedBit => \A k \in DOMAIN created : Started(k)

ConnectionInv == handling \in Seq(ToDo) /\ EventsInv /\ StartedInv

\* The bit, and what to do, are told apart by what comes last.
LEMMA LastToDo ==
  /\ ~GotIp \/ handling \notin {Idle, <<"START">>, <<"DISCONNECTED">>}
  /\ handling = <<"SET_BIT">> => GotIp
<1>1. <<"START">>[Len(<<"START">>)] # "SET_BIT"
  OBVIOUS
<1>2. <<"DISCONNECTED">>[Len(<<"DISCONNECTED">>)] # "SET_BIT"
  OBVIOUS
<1>3. <<"SET_BIT">>[Len(<<"SET_BIT">>)] = "SET_BIT" /\ <<"SET_BIT">> # << >>
  OBVIOUS
<1> QED BY <1>1, <1>2, <1>3 DEF GotIp, Idle

\* The events and what is to be done are different things.
LEMMA ToDosDiffer ==
  /\ Idle # <<"START">> /\ Idle # <<"DISCONNECTED">> /\ Idle # <<"SET_BIT">>
  /\ <<"START">> # <<"DISCONNECTED">> /\ <<"START">> # <<"SET_BIT">>
  /\ <<"DISCONNECTED">> # <<"SET_BIT">>
<1>1. <<"START">>[1] = "START" /\ <<"DISCONNECTED">>[1] = "DISCONNECTED"
      /\ <<"SET_BIT">>[1] = "SET_BIT"
  OBVIOUS
<1> QED BY <1>1 DEF Idle

\* At the start the connection is down, no event waits and the bit is clear.
LEMMA ConnectionInit == Init => ConnectionInv
<1> SUFFICES ASSUME Init PROVE ConnectionInv
  OBVIOUS
<1>1. /\ wifi = "off" /\ events = << >> /\ handling = Idle /\ tasks = << >>
      /\ ~connectedBit
  BY DEF Init
<1> QED BY <1>1 DEF ConnectionInv, EventsInv, StartedInv, GotIp, Quiet, Idle

\* The first event, when app_main starts the driver.
LEMMA ConnectionMain ==
  ASSUME ConnectionInv, MainStartsWifi
  PROVE  ConnectionInv'
<1>1. /\ wifi = "off" /\ Quiet /\ events = << >>
      /\ wifi' = "idle" /\ mainPc' = "waiting" /\ events' = Append(events, "START")
      /\ UNCHANGED <<created, handling, tasks, connectedBit>>
  BY DEF ConnectionInv, EventsInv, MainStartsWifi, Post
<1>2. events' = <<"START">>
  BY <1>1, Grows
<1>3. EventsInv'
  BY <1>1, <1>2 DEF EventsInv, Idles, Quiet
<1>4. StartedInv'
  BY <1>1 DEF ConnectionInv, StartedInv, GotIp, Started
<1>5. (handling \in Seq(ToDo))'
  BY <1>1 DEF ConnectionInv, ToDo
<1> QED BY <1>3, <1>4, <1>5 DEF ConnectionInv

\* The driver's steps, each with its event.
LEMMA ConnectionDriver ==
  ASSUME ConnectionInv, DriverMoves
  PROVE  ConnectionInv'
<1>1. /\ UNCHANGED <<created, handling, tasks, connectedBit, mainPc>>
      /\ \/ wifi = "connecting" /\ wifi' = "associated" /\ events' = Append(events, "CONNECTED")
         \/ wifi = "connecting" /\ wifi' = "idle" /\ events' = Append(events, "DISCONNECTED")
         \/ wifi = "associated" /\ wifi' = "online" /\ events' = Append(events, "GOT_IP")
         \/ wifi = "associated" /\ wifi' = "idle" /\ events' = Append(events, "DISCONNECTED")
         \/ wifi = "online" /\ wifi' = "idle" /\ events' = Append(events, "DISCONNECTED")
  BY DEF DriverMoves, Post
<1>2. EventsInv'
  <2>1. mainPc' # "init"
    BY <1>1 DEF ConnectionInv, EventsInv
  <2>2. CASE wifi = "connecting" /\ wifi' = "associated" /\ events' = Append(events, "CONNECTED")
    <3>1. events' = <<"CONNECTED">> /\ Quiet'
      BY <1>1, <2>2, Grows DEF ConnectionInv, EventsInv, Quiet
    <3> QED BY <2>1, <2>2, <3>1 DEF EventsInv
  <2>3. CASE wifi = "connecting" /\ wifi' = "idle" /\ events' = Append(events, "DISCONNECTED")
    <3>1. events' = <<"DISCONNECTED">> /\ handling' = Idle
      BY <1>1, <2>3, Grows DEF ConnectionInv, EventsInv, Quiet
    <3> QED BY <2>1, <2>3, <3>1 DEF EventsInv, Idles
  <2>4. CASE wifi = "associated" /\ wifi' = "online" /\ events' = Append(events, "GOT_IP")
    <3>1. Quiet' /\ events' \in {<<"CONNECTED", "GOT_IP">>, <<"GOT_IP">>}
      BY <1>1, <2>4, Grows DEF ConnectionInv, EventsInv, Quiet
    <3> QED BY <2>1, <2>4, <3>1 DEF EventsInv, Online
  <2>5. CASE wifi = "associated" /\ wifi' = "idle" /\ events' = Append(events, "DISCONNECTED")
    <3>1. Quiet' /\ events' \in {<<"CONNECTED", "DISCONNECTED">>, <<"DISCONNECTED">>}
      BY <1>1, <2>5, Grows DEF ConnectionInv, EventsInv, Quiet
    <3> QED BY <2>1, <2>5, <3>1 DEF EventsInv, Idles, Quiet
  <2>6. CASE wifi = "online" /\ wifi' = "idle" /\ events' = Append(events, "DISCONNECTED")
    <3>1. \/ /\ Quiet'
             /\ events' \in {<<"CONNECTED", "GOT_IP", "DISCONNECTED">>,
                             <<"GOT_IP", "DISCONNECTED">>}
          \/ handling' = Idle /\ events' = <<"DISCONNECTED">>
          \/ GotIp' /\ events' = <<"DISCONNECTED">>
      BY <1>1, <2>6, Grows DEF ConnectionInv, EventsInv, Online, Quiet, GotIp
    <3> QED BY <2>1, <2>6, <3>1 DEF EventsInv, Idles
  <2> QED BY <1>1, <2>2, <2>3, <2>4, <2>5, <2>6
<1>3. StartedInv'
  BY <1>1 DEF ConnectionInv, StartedInv, GotIp, Started
<1>4. (handling \in Seq(ToDo))'
  BY <1>1 DEF ConnectionInv, ToDo
<1> QED BY <1>2, <1>3, <1>4 DEF ConnectionInv

\* The handler takes an event: of GOT_IP everything is still to be done.
LEMMA ConnectionEvent ==
  ASSUME Inv, ConnectionInv, HandlerStarts
  PROVE  ConnectionInv'
<1>1. /\ handling = Idle /\ events # << >> /\ events' = Tail(events)
      /\ UNCHANGED <<created, wifi, tasks, connectedBit, mainPc>>
      /\ Head(events) = "GOT_IP" => handling' = created \o <<"SET_BIT">>
      /\ Head(events) = "CONNECTED" => handling' = Idle
      /\ Head(events) \in {"START", "DISCONNECTED"} => handling' = <<Head(events)>>
  BY DEF HandlerStarts
<1>2. ~GotIp /\ handling # <<"START">> /\ handling # <<"DISCONNECTED">>
  BY <1>1, LastToDo, ToDosDiffer
<1>3. /\ created \in Seq(ToDo) /\ <<"SET_BIT">> \in Seq(ToDo) /\ Len(<<"SET_BIT">>) = 1
      /\ <<"START">> \in Seq(ToDo) /\ <<"DISCONNECTED">> \in Seq(ToDo)
      /\ <<"SET_BIT">>[1] = "SET_BIT"
  <2>1. created \in Seq({created[k] : k \in DOMAIN created})
    BY WifiAppAssumption DEF Inv, TypeOK
  <2>2. created \in Seq(ToDo)
    BY <2>1, Wider DEF ToDo
  <2>3. "SET_BIT" \in ToDo /\ "START" \in ToDo /\ "DISCONNECTED" \in ToDo
    BY DEF ToDo
  <2> QED BY <2>2, <2>3
<1>4. Head(events) = "GOT_IP" =>
        /\ GotIp' /\ handling' \in Seq(ToDo)
        /\ \A k \in DOMAIN created : \E m \in DOMAIN handling' : handling'[m] = created[k]
  <2> SUFFICES ASSUME handling' = created \o <<"SET_BIT">>
               PROVE  /\ GotIp' /\ handling' \in Seq(ToDo)
                      /\ \A k \in DOMAIN created :
                           \E m \in DOMAIN handling' : handling'[m] = created[k]
    BY <1>1
  <2>1. /\ handling' \in Seq(ToDo) /\ Len(handling') = Len(created) + 1
        /\ Len(created) \in Nat
        /\ handling'[Len(created) + 1] = "SET_BIT"
        /\ \A k \in 1..Len(created) : handling'[k] = created[k]
    BY <1>3, ConcatProperties
  <2>2. /\ DOMAIN created = 1..Len(created) /\ DOMAIN handling' = 1..(Len(created) + 1)
        /\ handling' # << >>
    BY <1>3, <2>1
  <2> QED BY <2>1, <2>2 DEF GotIp, Idle
<1>5. (handling \in Seq(ToDo))'
  <2>1. Head(events) \in {"START", "CONNECTED", "GOT_IP", "DISCONNECTED"}
    BY <1>1 DEF Inv, TypeOK
  <2>2. Idle \in Seq(ToDo)
    BY DEF Idle
  <2>3. handling' \in Seq(ToDo)
    BY <1>1, <1>3, <1>4, <2>1, <2>2
  <2> QED BY <1>1, <2>3 DEF ToDo
<1>6. GotIp' => Head(events) = "GOT_IP"
  <2>1. Head(events) \in {"START", "CONNECTED", "GOT_IP", "DISCONNECTED"}
    BY <1>1 DEF Inv, TypeOK
  <2>2. GotIp' => handling' \notin {Idle, <<"START">>, <<"DISCONNECTED">>}
    <3>1. <<"START">>[Len(<<"START">>)] # "SET_BIT"
      OBVIOUS
    <3>2. <<"DISCONNECTED">>[Len(<<"DISCONNECTED">>)] # "SET_BIT"
      OBVIOUS
    <3> QED BY <3>1, <3>2 DEF GotIp
  <2> QED BY <1>1, <2>1, <2>2
<1>7. StartedInv'
  BY <1>1, <1>4, <1>6 DEF ConnectionInv, StartedInv, Started
<1>8. EventsInv'
  <2>1. wifi \notin {"off", "connecting"}
    BY <1>1 DEF ConnectionInv, EventsInv
  <2>2. mainPc' # "init"
    BY <1>1, <2>1 DEF ConnectionInv, EventsInv
  <2>3. CASE wifi = "idle"
    <3>1. Idles
      BY <2>3 DEF ConnectionInv, EventsInv
    <3>2. CASE Quiet /\ events = <<"START">>
      <4>1. handling' = <<"START">> /\ events' = << >> /\ ~connectedBit'
        BY <1>1, <3>2, Shrinks DEF Quiet
      <4> QED BY <1>1, <2>2, <2>3, <4>1 DEF EventsInv, Idles
    <3>3. CASE Quiet /\ events = <<"CONNECTED", "DISCONNECTED">>
      <4>1. handling' = Idle /\ events' = <<"DISCONNECTED">>
        BY <1>1, <3>3, Shrinks
      <4> QED BY <1>1, <2>2, <2>3, <4>1 DEF EventsInv, Idles
    <3>4. CASE Quiet /\ events = <<"GOT_IP", "DISCONNECTED">>
      <4>1. GotIp' /\ events' = <<"DISCONNECTED">>
        BY <1>1, <1>4, <3>4, Shrinks
      <4> QED BY <1>1, <2>2, <2>3, <4>1 DEF EventsInv, Idles
    <3>5. CASE Quiet /\ events = <<"CONNECTED", "GOT_IP", "DISCONNECTED">>
      <4>1. Quiet' /\ events' = <<"GOT_IP", "DISCONNECTED">>
        BY <1>1, <3>5, Shrinks DEF Quiet
      <4> QED BY <1>1, <2>2, <2>3, <4>1 DEF EventsInv, Idles
    <3>6. CASE events = <<"DISCONNECTED">>
      <4>1. handling' = <<"DISCONNECTED">> /\ events' = << >>
        BY <1>1, <3>6, Shrinks
      <4> QED BY <1>1, <2>2, <2>3, <4>1 DEF EventsInv, Idles
    <3> QED BY <1>1, <1>2, <3>1, <3>2, <3>3, <3>4, <3>5, <3>6 DEF Idles
  <2>4. CASE wifi = "associated"
    <3>1. Quiet /\ events = <<"CONNECTED">>
      BY <1>1, <2>4 DEF ConnectionInv, EventsInv
    <3>2. Quiet' /\ events' = << >>
      BY <1>1, <3>1, Shrinks DEF Quiet
    <3> QED BY <1>1, <2>2, <2>4, <3>2 DEF EventsInv
  <2>5. CASE wifi = "online"
    <3>1. Quiet /\ events \in {<<"CONNECTED", "GOT_IP">>, <<"GOT_IP">>}
      BY <1>1, <1>2, <2>5 DEF ConnectionInv, EventsInv, Online
    <3>2. \/ Quiet' /\ events' = <<"GOT_IP">>
          \/ GotIp' /\ events' = << >>
      <4>1. CASE events = <<"CONNECTED", "GOT_IP">>
        <5>1. Quiet' /\ events' = <<"GOT_IP">>
          BY <1>1, <3>1, <4>1, Shrinks DEF Quiet
        <5> QED BY <5>1
      <4>2. CASE events = <<"GOT_IP">>
        <5>1. GotIp' /\ events' = << >>
          BY <1>1, <1>4, <4>2, Shrinks
        <5> QED BY <5>1
      <4> QED BY <3>1, <4>1, <4>2
    <3> QED BY <1>1, <2>2, <2>5, <3>2 DEF EventsInv, Online
  <2>6. wifi \in Wifi
    BY DEF Inv, TypeOK, Wifi
  <2> QED BY <2>1, <2>3, <2>4, <2>5, <2>6 DEF Wifi
<1> QED BY <1>5, <1>7, <1>8 DEF ConnectionInv

\* The handlers of START and of DISCONNECTED find no event behind them.
LEMMA ConnectionAsked ==
  ASSUME Inv, ConnectionInv, HandleStart \/ HandleDisconnected
  PROVE  ConnectionInv'
<1>1. /\ handling \in {<<"START">>, <<"DISCONNECTED">>} /\ handling # Idle /\ ~GotIp
      /\ handling' = Idle
      /\ UNCHANGED <<created, events, tasks, mainPc>>
  BY ToDosDiffer, LastToDo DEF HandleStart, HandleDisconnected
<1>2. wifi \in Wifi
  BY DEF Inv, TypeOK, Wifi
<1>3. wifi = "idle" /\ events = << >> /\ (handling = <<"START">> => ~connectedBit)
  BY <1>1, <1>2, ToDosDiffer DEF ConnectionInv, EventsInv, Idles, Online, Quiet, Wifi
<1>4. wifi' \in {"idle", "connecting"} /\ ~connectedBit'
  BY <1>3, ToDosDiffer DEF HandleStart, HandleDisconnected
<1>5. Quiet' /\ events' = << >>
  BY <1>1, <1>3, <1>4 DEF Quiet
<1>6. mainPc' # "init"
  BY <1>1, <1>3 DEF ConnectionInv, EventsInv
<1>7. EventsInv'
  BY <1>4, <1>5, <1>6 DEF EventsInv, Idles
<1>8. StartedInv'
  BY <1>1, <1>4 DEF StartedInv, GotIp
<1>9. (handling \in Seq(ToDo))'
  BY <1>1 DEF Idle
<1> QED BY <1>7, <1>8, <1>9 DEF ConnectionInv

\* A task is created, or the bit is set: GOT_IP is being handled.
LEMMA ConnectionGotIp ==
  ASSUME Inv, ConnectionInv, GotIp, UNCHANGED <<wifi, events, mainPc>>,
         GotIp' \/ (handling' = Idle /\ connectedBit' /\ events = << >>)
                \/ (handling' = Idle /\ events # << >>)
  PROVE  EventsInv'
<1>1. handling \notin {Idle, <<"START">>, <<"DISCONNECTED">>}
  BY LastToDo
<1>2. wifi \in Wifi
  BY DEF Inv, TypeOK, Wifi
<1>3. \/ wifi = "idle" /\ events = <<"DISCONNECTED">>
      \/ wifi = "online" /\ events = << >>
  BY <1>1, <1>2 DEF ConnectionInv, EventsInv, Idles, Online, Quiet, Wifi
<1>4. mainPc' # "init"
  BY <1>3 DEF ConnectionInv, EventsInv
<1>5. <<"DISCONNECTED">> # << >>
  OBVIOUS
<1> QED BY <1>3, <1>4, <1>5 DEF EventsInv, Idles, Online

\* While tasks are created, GOT_IP is being handled, and the bit is still to be set.
LEMMA TaskGotIp ==
  ASSUME Inv, ConnectionInv, HandlerCreatesTask
  PROVE  GotIp /\ GotIp'
<1> DEFINE new == [kind |-> Head(handling), pc |-> "take", under |-> 0,
                   robbed |-> FALSE]
<1>1. /\ tasks' = Append(tasks, new) /\ handling' = Tail(handling) /\ handling # << >>
      /\ UNCHANGED <<created, wifi, events, connectedBit, mainPc>>
      /\ tasks \in Seq(Task) /\ handling \in Seq(ToDo)
  BY DEF Inv, TypeOK, HandlerCreatesTask, Idle, ConnectionInv
<1>2. Head(handling) \notin {"START", "DISCONNECTED", "SET_BIT"}
  BY WifiAppAssumption DEF Inv, TypeOK, HandlerCreatesTask
<1>3. Head(handling) = handling[1] /\ Len(handling) \in Nat \ {0}
  BY <1>1
<1>4. GotIp
  <2>1. handling \notin {Idle, <<"START">>, <<"DISCONNECTED">>}
    BY <1>1, <1>2, Shrinks DEF Idle
  <2>2. wifi \in Wifi
    BY DEF Inv, TypeOK, Wifi
  <2> QED BY <2>1, <2>2 DEF ConnectionInv, EventsInv, Idles, Online, Quiet, Wifi
<1>5. handling[Len(handling)] = "SET_BIT" /\ Len(handling) >= 2
  BY <1>2, <1>3, <1>4 DEF GotIp
<1>6. /\ handling' \in Seq(ToDo) /\ Len(handling') = Len(handling) - 1
      /\ \A m \in 1..(Len(handling) - 1) : handling'[m] = handling[m + 1]
      /\ DOMAIN handling' = 1..(Len(handling) - 1) /\ DOMAIN handling = 1..Len(handling)
  BY <1>1, <1>3
<1>7. GotIp'
  <2>1. handling'[Len(handling) - 1] = "SET_BIT"
    BY <1>3, <1>5, <1>6
  <2>2. handling' # << >>
    BY <1>3, <1>5, <1>6
  <2> QED BY <1>6, <2>1, <2>2 DEF GotIp, Idle
<1> QED BY <1>4, <1>7

\* A task of the variant is created: it is done, and the rest is still to do.
LEMMA ConnectionTask ==
  ASSUME Inv, ConnectionInv, HandlerCreatesTask
  PROVE  ConnectionInv'
<1> DEFINE new == [kind |-> Head(handling), pc |-> "take", under |-> 0,
                   robbed |-> FALSE]
<1>1. /\ tasks' = Append(tasks, new) /\ handling' = Tail(handling) /\ handling # << >>
      /\ UNCHANGED <<created, wifi, events, connectedBit, mainPc>>
      /\ tasks \in Seq(Task) /\ handling \in Seq(ToDo)
  BY DEF Inv, TypeOK, HandlerCreatesTask, Idle, ConnectionInv
<1>2. Head(handling) \notin {"START", "DISCONNECTED", "SET_BIT"}
  BY WifiAppAssumption DEF Inv, TypeOK, HandlerCreatesTask
<1>3. Head(handling) = handling[1] /\ Len(handling) \in Nat \ {0}
  BY <1>1
<1>4. GotIp
  <2>1. handling \notin {Idle, <<"START">>, <<"DISCONNECTED">>}
    BY <1>1, <1>2, Shrinks DEF Idle
  <2>2. wifi \in Wifi
    BY DEF Inv, TypeOK, Wifi
  <2> QED BY <2>1, <2>2 DEF ConnectionInv, EventsInv, Idles, Online, Quiet, Wifi
<1>5. handling[Len(handling)] = "SET_BIT" /\ Len(handling) >= 2
  BY <1>2, <1>3, <1>4 DEF GotIp
<1>6. /\ handling' \in Seq(ToDo) /\ Len(handling') = Len(handling) - 1
      /\ \A m \in 1..(Len(handling) - 1) : handling'[m] = handling[m + 1]
      /\ DOMAIN handling' = 1..(Len(handling) - 1) /\ DOMAIN handling = 1..Len(handling)
  BY <1>1, <1>3
<1>7. GotIp'
  <2>1. handling'[Len(handling) - 1] = "SET_BIT"
    BY <1>3, <1>5, <1>6
  <2>2. handling' # << >>
    BY <1>3, <1>5, <1>6
  <2> QED BY <1>6, <2>1, <2>2 DEF GotIp, Idle
<1>8. /\ DOMAIN tasks \subseteq DOMAIN tasks' /\ Len(tasks) + 1 \in DOMAIN tasks'
      /\ \A i \in DOMAIN tasks : tasks'[i] = tasks[i]
      /\ tasks'[Len(tasks) + 1].kind = Head(handling)
  BY <1>1
<1>9. \A k \in DOMAIN created : Started(k) => Started(k)'
  BY <1>1, <1>8 DEF Started
<1>10. StartedInv'
  <2>1. ASSUME NEW k \in DOMAIN created, NEW m \in DOMAIN handling,
               handling[m] = created[k]
        PROVE  Started(k)' \/ \E n \in DOMAIN handling' : handling'[n] = created[k]
    <3>1. CASE m = 1
      BY <1>1, <1>3, <1>8, <2>1, <3>1 DEF Started
    <3>2. CASE m # 1
      <4>1. m - 1 \in DOMAIN handling' /\ handling'[m - 1] = handling[m]
        BY <1>3, <1>6, <3>2
      <4> QED BY <2>1, <4>1
    <3> QED BY <3>1, <3>2
  <2> QED BY <1>1, <1>4, <1>9, <2>1 DEF ConnectionInv, StartedInv
<1>11. EventsInv'
  BY <1>1, <1>4, <1>7, ConnectionGotIp
<1>12. (handling \in Seq(ToDo))'
  BY <1>1, <1>6 DEF ToDo
<1> QED BY <1>10, <1>11, <1>12 DEF ConnectionInv

\* The bit is set when every task has been started.
LEMMA ConnectionBit ==
  ASSUME Inv, ConnectionInv, HandlerSetsBit
  PROVE  ConnectionInv'
<1>1. /\ handling = <<"SET_BIT">> /\ handling' = Idle /\ connectedBit' = TRUE
      /\ UNCHANGED <<created, wifi, events, tasks, mainPc>>
  BY DEF HandlerSetsBit
<1>2. GotIp
  BY <1>1, LastToDo
<1>3. \A k \in DOMAIN created : Started(k)
  <2> SUFFICES ASSUME NEW k \in DOMAIN created, NEW m \in DOMAIN handling,
                      handling[m] = created[k]
               PROVE  FALSE
    BY <1>2 DEF ConnectionInv, StartedInv
  <2>1. created[k] = "SET_BIT"
    BY <1>1
  <2> QED BY <2>1, WifiAppAssumption DEF Inv, TypeOK
<1>4. StartedInv'
  BY <1>1, <1>3 DEF StartedInv, Started, GotIp
<1>5. EventsInv'
  BY <1>1, <1>2, ConnectionGotIp
<1>6. (handling \in Seq(ToDo))'
  BY <1>1 DEF Idle
<1> QED BY <1>4, <1>5, <1>6 DEF ConnectionInv

\* Every step of driver, event loop and tasks keeps the events that wait in agreement
\* with the connection and the bit.
LEMMA ConnectionNext == Inv /\ ConnectionInv /\ [Next]_vars => ConnectionInv'
<1> SUFFICES ASSUME Inv, ConnectionInv, [Next]_vars PROVE ConnectionInv'
  OBVIOUS
<1>1. CASE MainStartsWifi
  BY <1>1, ConnectionMain
<1>2. CASE MainGoesOn
  <2>1. UNCHANGED <<created, wifi, events, handling, tasks, connectedBit>>
        /\ mainPc' # "init"
    BY <1>2 DEF MainGoesOn
  <2> QED BY <2>1 DEF ConnectionInv, EventsInv, StartedInv, Idles, Online, Quiet,
             GotIp, Started, ToDo
<1>3. CASE DriverMoves
  BY <1>3, ConnectionDriver
<1>4. CASE HandlerStarts
  BY <1>4, ConnectionEvent
<1>5. CASE HandleStart \/ HandleDisconnected
  BY <1>5, ConnectionAsked
<1>6. CASE HandlerCreatesTask
  BY <1>6, ConnectionTask
<1>7. CASE HandlerSetsBit
  BY <1>7, ConnectionBit
<1>8. CASE Restarts
  <2>1. /\ wifi' = "off" /\ events' = << >> /\ handling' = Idle /\ tasks' = << >>
        /\ ~connectedBit'
    BY <1>8 DEF Restarts
  <2> QED BY <2>1 DEF ConnectionInv, EventsInv, StartedInv, GotIp, Quiet, Idle
<1>9. ASSUME NEW i \in DOMAIN tasks, Uses(i)
      PROVE  ConnectionInv'
  <2>1. UNCHANGED <<created, wifi, events, handling, connectedBit, mainPc>>
        /\ OthersStay(i)
    BY <1>9, TaskKeepsTypes DEF Inv, OthersStay
  <2>2. \A k \in DOMAIN created : Started(k) => Started(k)'
    BY <2>1 DEF OthersStay, Started
  <2>3. EventsInv'
    BY <2>1 DEF ConnectionInv, EventsInv, Idles, Online, Quiet, GotIp
  <2>4. StartedInv'
    BY <2>1, <2>2 DEF ConnectionInv, StartedInv, GotIp
  <2> QED BY <2>1, <2>3, <2>4 DEF ConnectionInv, ToDo
<1>10. CASE UNCHANGED vars
  BY <1>10 DEF vars, ConnectionInv, EventsInv, StartedInv, Idles, Online, Quiet,
     GotIp, Started, ToDo
<1> QED BY <1>1, <1>2, <1>3, <1>4, <1>5, <1>6, <1>7, <1>8, <1>9, <1>10
    DEF Next, EventHandler, ConnectAborts, TaskAborts, Uses

\* Whenever all events are handled, the bit says whether the station has an
\* address, and then every task of the variant has been started: no event that
\* comes while others wait, no abort and no restart leaves the bit stale.
THEOREM BitFollowsConnection == Spec => []BitIsCurrent
<1>1. Inv /\ ConnectionInv => BitIsCurrent
  <2> SUFFICES ASSUME Inv, ConnectionInv, handling = Idle, events = << >>
               PROVE  /\ connectedBit <=> wifi = "online"
                      /\ connectedBit => \A k \in DOMAIN created :
                           \E i \in DOMAIN tasks : tasks[i].kind = created[k]
    BY DEF BitIsCurrent
  <2>1. wifi \in Wifi /\ ~GotIp
    BY DEF Inv, TypeOK, Wifi, GotIp
  <2>2. /\ << >> \notin {<<"CONNECTED", "GOT_IP">>, <<"GOT_IP">>}
        /\ << >> # <<"DISCONNECTED">>
    OBVIOUS
  <2>3. connectedBit <=> wifi = "online"
    BY <2>1, <2>2, ToDosDiffer
       DEF ConnectionInv, EventsInv, Idles, Online, Quiet, Wifi
  <2> QED BY <2>3 DEF ConnectionInv, StartedInv, Started
<1> QED BY <1>1, ConnectionInit, ConnectionNext, Invariant, PTL DEF Spec
-----------------------------------------------------------------------------
(* The kept mutex.  The handler starts opcua_sub_task and                  *)
(* mqtt_mbedtls_pub_task in one go: while one of them is there alone, the  *)
(* other is what the handler does next.                                    *)

Has(kind) == \E i \in DOMAIN tasks : tasks[i].kind = kind

Publisher == Has("mqtt_pub") \/ \E m \in DOMAIN handling : handling[m] = "mqtt_pub"

PublisherFollows == Has("opcua_sub") => Publisher

\* A step that creates no task, ends none, and leaves the handler what it has
\* to do, unless that is no task.
LEMMA PublisherStays ==
  ASSUME PublisherFollows, DOMAIN tasks' = DOMAIN tasks,
         \A j \in DOMAIN tasks : tasks'[j].kind = tasks[j].kind,
         handling' = handling \/ \A m \in DOMAIN handling : handling[m] # "mqtt_pub"
  PROVE  PublisherFollows'
  BY DEF PublisherFollows, Publisher, Has

\* The publishing task is there or about to be started in every reachable
\* state with a subscribing one.
LEMMA PublisherNext ==
  ASSUME Inv, ConnectionInv, ConnectionInv', PublisherFollows, [Next]_vars
  PROVE  PublisherFollows'
<1>1. CASE MainStartsWifi \/ MainGoesOn \/ DriverMoves \/ UNCHANGED vars
  BY <1>1, PublisherStays DEF MainStartsWifi, MainGoesOn, DriverMoves, vars
<1>2. CASE HandlerStarts
  <2>1. UNCHANGED tasks /\ DOMAIN handling = {}
    BY <1>2 DEF HandlerStarts, Idle
  <2> QED BY <2>1, PublisherStays
<1>3. CASE HandleStart \/ HandleDisconnected
  <2>1. UNCHANGED tasks /\ handling \in {<<"START">>, <<"DISCONNECTED">>}
    BY <1>3 DEF HandleStart, HandleDisconnected
  <2>2. \A m \in DOMAIN handling : handling[m] # "mqtt_pub"
    BY <2>1
  <2> QED BY <2>1, <2>2, PublisherStays
<1>4. CASE HandlerSetsBit
  <2>1. UNCHANGED tasks /\ \A m \in DOMAIN handling : handling[m] # "mqtt_pub"
    BY <1>4 DEF HandlerSetsBit
  <2> QED BY <2>1, PublisherStays
<1>5. CASE HandlerCreatesTask
  <2> SUFFICES ASSUME Has("opcua_sub")' PROVE Publisher'
    BY DEF PublisherFollows
  <2>1. TypeOK' /\ created' = created
    BY <1>5, NewTask DEF Inv, HandlerCreatesTask
  <2>2. PICK k \in DOMAIN created' : created'[k] = "mqtt_pub"
    <3> USE <2>1
    <3>1. PICK i \in DOMAIN tasks' : tasks'[i].kind = "opcua_sub"
      BY DEF Has
    <3>2. tasks'[i] \in Task' /\ created' \in Variants
      BY <3>1 DEF TypeOK
    <3>3. PICK n \in DOMAIN created' : created'[n] = "opcua_sub"
      BY <3>1, <3>2 DEF Task
    <3> QED BY <3>2, <3>3, WifiAppAssumption
  <2>3. GotIp'
    BY <1>5, TaskGotIp
  <2>4. Started(k)' \/ \E m \in DOMAIN handling' : handling'[m] = created'[k]
    BY <2>2, <2>3 DEF ConnectionInv, StartedInv
  <2> QED BY <2>2, <2>4 DEF Started, Publisher, Has
<1>6. CASE Restarts
  <2>1. tasks' = << >>
    BY <1>6 DEF Restarts
  <2> QED BY <2>1 DEF PublisherFollows, Has
<1>7. ASSUME NEW i \in DOMAIN tasks, Uses(i) PROVE PublisherFollows'
  BY <1>7, TaskKeepsTypes, PublisherStays DEF Inv, OthersStay
<1> QED BY <1>1, <1>2, <1>3, <1>4, <1>5, <1>6, <1>7
        DEF Next, EventHandler, ConnectAborts, TaskAborts, Uses

\* The mutex is never held for good: its holder is in a section at whose end it
\* gives it, or the task that gives it without holding it is there or started
\* next, whatever events and restarts come between the starts of the two tasks.
THEOREM MutexIsGivenBack == Spec => []MutexComesBack
<1>1. Init => PublisherFollows
  BY DEF Init, PublisherFollows, Has
<1>2. Inv /\ ConnectionInv /\ ConnectionInv' /\ PublisherFollows /\ [Next]_vars
        => PublisherFollows'
  BY PublisherNext
<1>3. Inv /\ PublisherFollows => MutexComesBack
  <2> SUFFICES ASSUME Inv, PublisherFollows, holder # Free
               PROVE  \/ holder \in InSection /\ tasks[holder].kind # "opcua_sub"
                      \/ Publisher
    BY DEF MutexComesBack, Publisher, Has
  <2>1. holder \in DOMAIN tasks
    BY DEF Inv, TypeOK
  <2> QED BY <2>1 DEF Inv, HeldOrKept, PublisherFollows, Has
<1> QED BY <1>1, <1>2, <1>3, ConnectionInit, ConnectionNext, Invariant, PTL DEF Spec
=============================================================================
