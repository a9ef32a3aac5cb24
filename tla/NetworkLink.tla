---------------------------- MODULE NetworkLink ----------------------------
(***************************************************************************)
(* One task and its TLS connection to the broker: NetworkInit,             *)
(* NetworkConnect and NetworkDisconnect of MQTTmbedtls.c, the startClient  *)
(* of the tasks that use them, and what follows.  mqtt_mbedtls_sub_task    *)
(* leaves a connection that fails and starts again; the two tasks that     *)
(* only publish (mqtt_mbedtls_pub_task, mqtt_mbedtls_task) keep the first  *)
(* one they get, or get none, and go on.                                   *)
(*                                                                         *)
(* Of the structure Network, the model keeps the socket `server_fd`, the   *)
(* state of `ssl`, and whether the other contexts are allocated.  What a   *)
(* call asks of the system (sockets, allocated contexts, TLS buffers) is   *)
(* counted apart from what the structure remembers of it.  The buffers of  *)
(* `ssl` are never released: NetworkDisconnect has mbedtls_ssl_free        *)
(* commented out, so some call of NetworkConnect takes the last ones, and  *)
(* the calls after it fail until one of the allocations whose failure      *)
(* aborts the program restarts the chip.                                   *)
(***************************************************************************)
EXTENDS Naturals

CONSTANTS
  ConnectRetries    \* of startClient: 10 or 100

ASSUME NetworkLinkAssumption == ConnectRetries \in Nat

VARIABLES
  user,             \* the task: "sub", which starts again, "pub", which does
                    \* not, or "none" in a build variant without a connection
  pc,               \* where it is
  attempts,         \* startClient: failed attempts repeated so far
  fd,               \* server_fd: "garbage" of the stack, "closed" or "open"
  contexts,         \* conf, cacert, entropy, ctr_drbg: "raw", "live", "freed"
  ssl,              \* "raw", "fresh" after ssl_init, "setup", "over" (handshake)
  sockets,          \* sockets the system has open
  allocated,        \* allocated sets of contexts
  exhausted,        \* the heap has no TLS buffers left
  isconnected,      \* of MQTTClient
  broken            \* the peer or the network has ended the open connection

netVars  == <<fd, contexts, ssl, sockets, allocated, exhausted>>
linkVars == <<user, pc, attempts, netVars, isconnected, broken>>

LinkInit ==
  /\ user \in {"sub", "pub", "none"}
  /\ pc = "start" /\ attempts = 0
  /\ fd = "garbage" /\ contexts = "raw" /\ ssl = "raw"
  /\ sockets = 0 /\ allocated = 0 /\ exhausted = FALSE
  /\ isconnected = FALSE /\ broken = FALSE

\* What NetworkDisconnect releases; net_free closes what server_fd names.
NetworkDisconnect ==
  /\ sockets' = IF fd = "open" THEN sockets - 1 ELSE sockets
  /\ fd' = "closed"
  /\ allocated' = IF contexts = "live" THEN allocated - 1 ELSE allocated
  /\ contexts' = "freed"
  /\ broken' = FALSE
  /\ UNCHANGED <<ssl, exhausted>>
-----------------------------------------------------------------------------
(* Faulty variants of definitions below, for the properties to find.       *)

\* startClient tries again without the disconnect at label exit.
ConnectFailsUndone ==
  /\ pc = "failed"
  /\ IF attempts < ConnectRetries
       THEN pc' = "connect" /\ attempts' = attempts + 1
       ELSE pc' = "client" /\ attempts' = 0
  /\ UNCHANGED <<user, netVars, isconnected, broken>>

\* MQTTDisconnect returns early when its packet cannot be sent.
MqttDisconnectsUnlessBroken ==
  /\ pc = "leave"
  /\ pc' = "drop" /\ isconnected' = (isconnected /\ broken)
  /\ UNCHANGED <<user, attempts, netVars, broken>>

\* startClient counts one attempt too many.
ConnectFailsOnceMore ==
  /\ pc = "failed"
  /\ IF attempts <= ConnectRetries
       THEN pc' = "connect" /\ attempts' = attempts + 1
       ELSE pc' = "client" /\ attempts' = 0
  /\ NetworkDisconnect
  /\ UNCHANGED <<user, isconnected>>

\* The result of MQTTSubscribe is not looked at.
UseFailsInYield ==
  /\ pc = "use" /\ user = "sub" /\ broken
  /\ pc' = "leave"
  /\ UNCHANGED <<user, attempts, netVars, isconnected, broken>>
-----------------------------------------------------------------------------
(* NetworkConnect and startClient.                                         *)

NetworkInit ==
  /\ pc = "start" /\ user # "none"
  /\ pc' = "connect" /\ attempts' = 0
  /\ UNCHANGED <<user, netVars, isconnected, broken>>

\* Up to ssl_setup and net_init.
SetsUp ==
  /\ pc = "connect" /\ ~exhausted
  /\ contexts' = "live" /\ allocated' = allocated + 1
  /\ ssl' = "setup" /\ exhausted' \in BOOLEAN
  /\ fd' = "closed"
  /\ pc' = "tcp"
  /\ UNCHANGED <<user, attempts, sockets, isconnected, broken>>

\* config_defaults or ssl_setup fails, and without TLS buffers ssl_setup always
\* does; server_fd is as it was.
SetupFails ==
  /\ pc = "connect"
  /\ contexts' = "live" /\ allocated' = allocated + 1
  /\ ssl' = "fresh"
  /\ pc' = "failed"
  /\ UNCHANGED <<user, attempts, fd, sockets, exhausted, isconnected, broken>>

\* abort() after drbg_seed, crt_parse or set_hostname: the chip restarts.
SetupAborts ==
  /\ pc = "connect"
  /\ pc' = "start" /\ attempts' = 0
  /\ fd' = "garbage" /\ contexts' = "raw" /\ ssl' = "raw"
  /\ sockets' = 0 /\ allocated' = 0 /\ exhausted' = FALSE
  /\ isconnected' = FALSE /\ broken' = FALSE
  /\ UNCHANGED user

TcpConnects ==
  /\ pc = "tcp"
  /\ fd' = "open" /\ sockets' = sockets + 1
  /\ pc' = "handshake"
  /\ UNCHANGED <<user, attempts, contexts, ssl, allocated, exhausted, isconnected,
                 broken>>

TcpFails ==
  /\ pc = "tcp"
  /\ pc' = "failed"
  /\ UNCHANGED <<user, attempts, netVars, isconnected, broken>>

HandshakeSucceeds ==
  /\ pc = "handshake"
  /\ ssl' = "over"
  /\ pc' = "client"
  /\ UNCHANGED <<user, attempts, fd, contexts, sockets, allocated, exhausted,
                 isconnected, broken>>

HandshakeFails ==
  /\ pc = "handshake"
  /\ pc' = "failed"
  /\ UNCHANGED <<user, attempts, netVars, isconnected, broken>>

\* The label exit of NetworkConnect.  After the last attempt startClient goes
\* on without a connection.
ConnectFails ==
  /\ pc = "failed"
  /\ IF attempts < ConnectRetries
       THEN pc' = "connect" /\ attempts' = attempts + 1
       ELSE pc' = "client" /\ attempts' = 0
  /\ NetworkDisconnect
  /\ UNCHANGED <<user, isconnected>>

ClientInits ==
  /\ pc = "client"
  /\ pc' = "mqttConnect" /\ isconnected' = FALSE
  /\ UNCHANGED <<user, attempts, netVars, broken>>

\* A write gets through only on a connection with a finished handshake.
Writes == fd = "open" /\ ssl = "over" /\ contexts = "live" /\ ~broken

MqttConnects ==
  /\ pc = "mqttConnect" /\ ~isconnected /\ Writes
  /\ isconnected' = TRUE
  /\ pc' = "use"
  /\ UNCHANGED <<user, attempts, netVars, broken>>

MqttConnectFails ==
  /\ pc = "mqttConnect"
  /\ pc' = "use"
  /\ UNCHANGED <<user, attempts, netVars, isconnected, broken>>
-----------------------------------------------------------------------------
(* The connection in use, and its end.                                     *)

\* The subscribing task leaves on the first call that fails.
UseFails ==
  /\ pc = "use" /\ user = "sub"
  /\ pc' = "leave"
  /\ UNCHANGED <<user, attempts, netVars, isconnected, broken>>

MqttDisconnects ==
  /\ pc = "leave"
  /\ pc' = "drop" /\ isconnected' = FALSE
  /\ UNCHANGED <<user, attempts, netVars, broken>>

DropsLink ==
  /\ pc = "drop"
  /\ pc' = "start"
  /\ NetworkDisconnect
  /\ UNCHANGED <<user, attempts, isconnected>>

\* While a connection is being made, a break is the failure of that call.
LinkBreaks ==
  /\ pc = "use" /\ fd = "open" /\ ~broken
  /\ broken' = TRUE
  /\ UNCHANGED <<user, pc, attempts, netVars, isconnected>>

\* The steps of the task that its calls take by themselves.
LinkRuns ==
  \/ NetworkInit \/ SetsUp \/ SetupFails \/ TcpConnects \/ TcpFails
  \/ HandshakeSucceeds \/ HandshakeFails \/ ConnectFails
  \/ ClientInits \/ MqttConnects \/ MqttConnectFails
  \/ MqttDisconnects \/ DropsLink

LinkNext == LinkRuns \/ SetupAborts \/ UseFails \/ LinkBreaks

LinkSpec == LinkInit /\ [][LinkNext]_linkVars

\* Fairness: the task does not stop in a call (WF), the handshake included,
\* which has no time limit of its own; the allocations, a network
\* and a broker that are asked again and again serve it at some time (SF); the
\* first call on a client that is not connected, or on a connection that has
\* been ended, fails (WF).
LinkFairness ==
  /\ WF_linkVars(LinkRuns)
  /\ SF_linkVars(SetsUp) /\ SF_linkVars(TcpConnects) /\ SF_linkVars(HandshakeSucceeds)
  /\ SF_linkVars(MqttConnects)
  /\ WF_linkVars((~isconnected \/ broken) /\ UseFails)
-----------------------------------------------------------------------------
(* Properties.                                                             *)

LinkTypeOK ==
  /\ user \in {"sub", "pub", "none"}
  /\ pc \in {"start", "connect", "tcp", "handshake", "failed", "client",
             "mqttConnect", "use", "leave", "drop"}
  /\ attempts \in 0..ConnectRetries
  /\ fd \in {"garbage", "closed", "open"}
  /\ contexts \in {"raw", "live", "freed"}
  /\ ssl \in {"raw", "fresh", "setup", "over"}
  /\ sockets \in Nat /\ allocated \in Nat /\ exhausted \in BOOLEAN
  /\ isconnected \in BOOLEAN /\ broken \in BOOLEAN

\* However attempts, failures and restarts of the task follow each other, at
\* most one socket is open and one set of contexts allocated, and the
\* structure still names them: nothing but the TLS buffers is lost.
OneLink ==
  /\ sockets = IF fd = "open" THEN 1 ELSE 0
  /\ allocated = IF contexts = "live" THEN 1 ELSE 0

\* A client that counts as connected has a connection under it: no packet is
\* written to a closed socket or with freed contexts on the strength of
\* isconnected.
ConnectedMeansOpen ==
  isconnected => fd = "open" /\ ssl = "over" /\ contexts = "live"

\* The subscribing task gets from every connection it leaves to a new one,
\* until the heap is exhausted; and even then it gets through startClient,
\* without a connection, and goes on.
LinkReturns ==
  /\ pc = "leave" ~> (pc = "use" /\ isconnected) \/ exhausted
  /\ pc = "leave" ~> pc = "use"
=============================================================================
