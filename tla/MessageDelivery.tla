-------------------------- MODULE MessageDelivery --------------------------
(***************************************************************************)
(* How the MQTT client finds the handlers of a message: the table of       *)
(* message handlers that MQTTSubscribe fills, deliverMessage, which goes   *)
(* through it, and isTopicMatched, which compares a topic filter with a    *)
(* topic name character by character.                                      *)
(*                                                                         *)
(* Topics are sequences of levels, as in the rule for matching that MQTT   *)
(* gives; Text joins the levels to the sequence of characters that the     *)
(* code sees.                                                              *)
(***************************************************************************)
EXTENDS Naturals, Sequences, FiniteSets

CONSTANTS
  MAX_MESSAGE_HANDLERS,   \* 5 in the code
  Filters, Names,         \* topic filters and topic names, as levels
  MaxSubscriptions        \* bound of the model: per MQTTClientInit

\* Topics have levels without separators, and filters are in the format that
\* isTopicMatched relies on: '#' is the last level, and '+' and '#' are alone
\* in theirs.
ASSUME DeliveryAssumption ==
  /\ MAX_MESSAGE_HANDLERS \in Nat \ {0}
  /\ MaxSubscriptions \in Nat
  /\ Filters \cup Names \subseteq Seq(Seq(STRING)) \ {<< >>}
  /\ \A topic \in Filters \cup Names : \A k \in DOMAIN topic :
       \A i \in DOMAIN topic[k] : topic[k][i] # "/"
  /\ \A f \in Filters : \A k \in DOMAIN f :
       \/ f[k] = <<"+">>
       \/ f[k] = <<"#">> /\ k = Len(f)
       \/ \A i \in DOMAIN f[k] : f[k][i] \notin {"+", "#"}

VARIABLES
  messageHandlers,        \* the filter in each slot, or NoFilter
  granted,                \* history: subscriptions that returned SUCCESS
  name,                   \* the name of the message just delivered, if any
  called                  \* the slots whose handler it was given to

vars == <<messageHandlers, granted, name, called>>

Slots == 1..MAX_MESSAGE_HANDLERS
NoFilter == << >>
Separator == "/"

\* The levels of a topic, joined.
Text(topic) ==
  LET upto[k \in 1..Len(topic)] ==
        IF k = 1 THEN topic[1] ELSE upto[k - 1] \o <<Separator>> \o topic[k]
  IN upto[Len(topic)]

Init ==
  /\ messageHandlers = [s \in Slots |-> NoFilter]
  /\ granted = << >> /\ name = << >> /\ called = {}
-----------------------------------------------------------------------------
\* '+' stands for the characters up to the next separator: the position of
\* the last of them.
LevelEnd(n, i) ==
  CHOOSE j \in i..Len(n) :
    /\ \A k \in (i + 1)..j : n[k] # Separator
    /\ j = Len(n) \/ n[j + 1] = Separator

\* The loop of isTopicMatched ends with character i of the filter and
\* character j of the name.
Stops(f, n, i, j) ==
  \/ i > Len(f) \/ j > Len(n)
  \/ n[j] = Separator /\ f[i] # Separator
  \/ f[i] \notin {"+", "#"} /\ f[i] # n[j]

\* It goes on with character i + 1 of the filter and this one of the name.
After(f, n, i, j) ==
  CASE f[i] = "+" -> LevelEnd(n, j) + 1
    [] f[i] = "#" -> Len(n) + 1
    [] OTHER      -> j + 1

\* The positions at which it leaves filter and name.
Walk(f, n) ==
  LET walk[i \in 1..(Len(f) + 1)] ==
        [j \in 1..(Len(n) + 1) |->
           IF Stops(f, n, i, j) THEN <<i, j>> ELSE walk[i + 1][After(f, n, i, j)]]
  IN walk[1][1]

\* Faulty variant: the rest of the filter is not looked at.
MatchedPrefix(f, n) == Walk(f, n)[2] = Len(n) + 1

isTopicMatched(f, n) == Walk(f, n) = <<Len(f) + 1, Len(n) + 1>>

Matching(n) ==
  {s \in Slots : /\ messageHandlers[s] # NoFilter
                 /\ \/ Text(messageHandlers[s]) = Text(n)
                    \/ isTopicMatched(Text(messageHandlers[s]), Text(n))}

\* Faulty variant: a subscription always uses the first slot.
InstallFirst(f) == messageHandlers' = [messageHandlers EXCEPT ![1] = f]

\* The first free slot is used; if there is none the call succeeds all the
\* same.
Install(f) ==
  LET free == {s \in Slots : messageHandlers[s] = NoFilter} IN
  IF free = {}
    THEN UNCHANGED messageHandlers
    ELSE \E s \in free : /\ \A t \in free : s <= t
                         /\ messageHandlers' = [messageHandlers EXCEPT ![s] = f]

NothingDelivered == name' = << >> /\ called' = {}

Subscribe(f) ==
  /\ Len(granted) < MaxSubscriptions
  /\ Install(f)
  /\ granted' = Append(granted, f)
  /\ NothingDelivered

ClientInit ==
  /\ messageHandlers' = [s \in Slots |-> NoFilter]
  /\ granted' = << >>
  /\ NothingDelivered

deliverMessage(n) ==
  /\ name' = n /\ called' = Matching(n)
  /\ UNCHANGED <<messageHandlers, granted>>

Next ==
  \/ ClientInit
  \/ \E f \in Filters : Subscribe(f)
  \/ \E n \in Names : deliverMessage(n)

Spec == Init /\ [][Next]_vars
-----------------------------------------------------------------------------
(* The rule of MQTT: level by level, '+' for one level, '#' for the rest,  *)
(* including nothing.                                                      *)

Matches(f, n) ==
  LET rest == f[Len(f)] = <<"#">>
      levels == IF rest THEN Len(f) - 1 ELSE Len(f)
  IN /\ Len(n) = levels \/ (rest /\ Len(n) > levels)
     /\ \A i \in 1..levels : f[i] = <<"+">> \/ f[i] = n[i]

\* Names without an empty level, and with something where the filter has '#'.
Ordinary(f, n) ==
  /\ \A i \in DOMAIN n : n[i] # << >>
  /\ f[Len(f)] = <<"#">> => Len(n) >= Len(f)

\* A handler is never given a message whose name its filter does not match,
\* for any filter in the correct format and any name: the comparison by
\* characters errs on one side only.
OnlyMatching == \A s \in called : Matches(messageHandlers[s], name)

\* An ordinary message is given to a handler once for every subscription
\* that matches it, as long as no more of them were granted than there are
\* slots.
AllMatching ==
  LET matching == {k \in DOMAIN granted : Matches(granted[k], name)} IN
  /\ name # << >>
  /\ Len(granted) <= MAX_MESSAGE_HANDLERS
  /\ \A k \in matching : Ordinary(granted[k], name)
  => Cardinality(called) = Cardinality(matching)
=============================================================================
