------------------------------ MODULE MqttLink ------------------------------
(***************************************************************************)
(* The gateway's connection to the MQTT broker: MosquittoWrapper           *)
(* (src/xbee2mqtt/libs/mosquitto_wrapper.py) on top of paho-mqtt, with the *)
(* broker's side of the session.  paho runs inside mqtt.loop(), on the     *)
(* main thread: on_connect, on_disconnect and the retry are steps of that  *)
(* thread, while subscribe, unsubscribe and publish may be called by any.  *)
(*                                                                         *)
(* link is what the client's socket is doing:                              *)
(*   "off"      run() has not called connect() yet                         *)
(*   "wait"     CONNECT accepted by the broker, CONNACK not handled yet    *)
(*   "up"       on_connect ran with rc = 0                                 *)
(*   "refused"  CONNECT refused, CONNACK with rc # 0 not handled yet       *)
(*   "broken"   the connection is gone, loop() has not noticed             *)
(*   "retry"    inside __on_disconnect, sleeping 3 s before connect()      *)
(*   "dead"     that connect() raised: there is no socket any more, loop() *)
(*              returns an error that run() ignores, nothing reconnects    *)
(*   "exited"   the first connect() raised: run() is left by the exception *)
(***************************************************************************)
EXTENDS Naturals

CONSTANTS
    CommandTopic,   \* the topics a client may subscribe to
    SetWill,        \* set_will of the configuration file
    MaxCuts         \* bound: connections lost or refused in a behaviour

ASSUME LinkAssumption ==
    /\ SetWill \in BOOLEAN
    /\ MaxCuts \in Nat

VARIABLES
    broker,         \* "up" or "down"
    link,           \* the client's side, see above
    peer,           \* the client to the broker: "known" to be connected, or "gone"
    session,        \* the subscriptions the broker holds for the client
    status,         \* retained value of the status topic
    subscribeTo,    \* MosquittoWrapper.subscribe_to
    cuts            \* connections lost or refused so far

linkVars == <<broker, link, peer, session, status, subscribeTo, cuts>>

LinkState == {"off", "wait", "up", "refused", "broken", "retry", "dead", "exited"}

LinkTypeOK ==
    /\ broker \in {"up", "down"}
    /\ link \in LinkState
    /\ peer \in {"known", "gone"}
    /\ session \in SUBSET CommandTopic
    /\ status \in {"none", "0", "1"}
    /\ subscribeTo \in SUBSET CommandTopic
    /\ cuts \in 0..MaxCuts

LinkInit(startupTopics) ==
    /\ broker \in {"up", "down"}
    /\ link = "off"
    /\ peer = "gone"
    /\ session = {}
    /\ status = "none"
    /\ subscribeTo = startupTopics
    /\ cuts = 0

-----------------------------------------------------------------------------
(* What a packet does depends on the socket: paho drops a SUBSCRIBE, an    *)
(* UNSUBSCRIBE or a QoS 0 PUBLISH when there is none (rc is ignored), and  *)
(* what is written to a broken connection is lost.                         *)

Carries == link \in {"wait", "up"}

Subscribe(topics) ==
    session' = IF Carries THEN session \cup topics ELSE session

Unsubscribe(topics) ==
    session' = IF Carries THEN session \ topics ELSE session

\* The client is constructed with its id only and keeps paho's default, a
\* clean session; clean_session is then stored in an attribute paho ignores.
CleanSession == TRUE

AfterDisconnect == IF CleanSession THEN {} ELSE session

\* The broker gives the connection up without a DISCONNECT: it publishes the will.
AfterLoss == IF SetWill THEN "0" ELSE status

\* connect() with a reachable broker.  A connection the broker still holds
\* for the same client id is taken over, which is a loss of the old one.
Accepted ==
    /\ broker = "up"
    /\ link' = "wait"
    /\ peer' = "known"
    /\ session' = AfterDisconnect
    /\ status' = IF peer = "known" THEN AfterLoss ELSE status
    /\ UNCHANGED cuts

Refused ==
    /\ broker = "up"
    /\ cuts < MaxCuts
    /\ link' = "refused"
    /\ cuts' = cuts + 1
    /\ UNCHANGED <<peer, session, status>>

-----------------------------------------------------------------------------
(* Steps of the main thread *)

\* run(): the first connect(), outside the try of the loop.
Connect ==
    /\ link = "off"
    /\ \/ Accepted
       \/ Refused
       \/ /\ broker = "down"
          /\ link' = "exited"
          /\ UNCHANGED <<peer, session, status, cuts>>
    /\ UNCHANGED <<broker, subscribeTo>>

\* Mutant: no subscriptions on a connection that is not the first.
MutantOnConnectOnce ==
    /\ link = "wait"
    /\ link' = "up"
    /\ status' = "1"
    /\ session' = IF cuts = 0 THEN session \cup subscribeTo ELSE session
    /\ UNCHANGED <<broker, peer, subscribeTo, cuts>>

\* Mutant: the status is published by the first connect() only.
MutantOnConnectSilent ==
    /\ link = "wait"
    /\ link' = "up"
    /\ status' = IF cuts = 0 THEN "1" ELSE status
    /\ session' = session \cup subscribeTo
    /\ UNCHANGED <<broker, peer, subscribeTo, cuts>>

\* __on_connect with rc = 0: status "1", then the start-up subscriptions.
OnConnect ==
    /\ link = "wait"
    /\ link' = "up"
    /\ status' = "1"
    /\ session' = session \cup subscribeTo
    /\ UNCHANGED <<broker, peer, subscribeTo, cuts>>

\* Mutant: a refused connection is taken for a deliberate disconnection.
MutantOnDisconnect ==
    /\ link = "broken"
    /\ link' = "retry"
    /\ UNCHANGED <<broker, peer, session, status, subscribeTo, cuts>>

\* loop() finds the connection lost or refused and calls __on_disconnect.
OnDisconnect ==
    /\ link \in {"broken", "refused"}
    /\ link' = "retry"
    /\ UNCHANGED <<broker, peer, session, status, subscribeTo, cuts>>

\* The 3 s are over: __on_disconnect calls connect(), once.
Retry ==
    /\ link = "retry"
    /\ \/ Accepted
       \/ Refused
       \/ /\ broker = "down"
          /\ link' = "dead"
          /\ UNCHANGED <<peer, session, status, cuts>>
    /\ UNCHANGED <<broker, subscribeTo>>

-----------------------------------------------------------------------------
(* Steps of the network and of the broker *)

Cut ==
    /\ Carries
    /\ cuts < MaxCuts
    /\ link' = "broken"
    /\ cuts' = cuts + 1
    /\ UNCHANGED <<broker, peer, session, status, subscribeTo>>

\* The keepalive of a lost connection runs out: the broker publishes the will.
BrokerDrops ==
    /\ peer = "known"
    /\ ~Carries
    /\ peer' = "gone"
    /\ status' = AfterLoss
    /\ session' = AfterDisconnect
    /\ UNCHANGED <<broker, link, subscribeTo, cuts>>

\* A stopping broker publishes no will; retained messages survive it.
BrokerStop ==
    /\ broker = "up"
    /\ cuts < MaxCuts
    /\ broker' = "down"
    /\ peer' = "gone"
    /\ session' = AfterDisconnect
    /\ link' = IF Carries THEN "broken" ELSE link
    /\ cuts' = cuts + 1
    /\ UNCHANGED <<status, subscribeTo>>

BrokerStart ==
    /\ broker = "down"
    /\ broker' = "up"
    /\ UNCHANGED <<link, peer, session, status, subscribeTo, cuts>>

MainStep == Connect \/ OnConnect \/ OnDisconnect \/ Retry

NetworkStep == Cut \/ BrokerDrops \/ BrokerStop \/ BrokerStart

-----------------------------------------------------------------------------
(* The link alone, under a client that subscribes and unsubscribes at will *)
(* to the topics that are not start-up routes.                             *)

AppStep ==
    /\ link \notin {"off", "exited"}
    /\ \E t \in CommandTopic \ subscribeTo : Subscribe({t}) \/ Unsubscribe({t})
    /\ UNCHANGED <<broker, link, peer, status, subscribeTo, cuts>>

LinkAloneInit == \E topics \in SUBSET CommandTopic : LinkInit(topics)

LinkNext == MainStep \/ NetworkStep \/ AppStep

\* mqtt.loop() is called forever, and a stopped broker is started again.
LinkFairness ==
    /\ WF_linkVars(OnConnect)
    /\ WF_linkVars(OnDisconnect)
    /\ WF_linkVars(Retry)
    /\ WF_linkVars(BrokerStart)

LinkSpec == LinkAloneInit /\ [][LinkNext]_linkVars /\ LinkFairness

-----------------------------------------------------------------------------
\* Once on_connect has run, the broker holds every start-up subscription,
\* however often the connection was lost, taken over or refused before, and
\* whatever the rest of the program unsubscribed from meanwhile.
StartupTopicsSubscribed == link = "up" => subscribeTo \subseteq session

\* The status topic says "1" whenever the client is connected: no will of an
\* earlier connection (published late by the broker) overwrites it.
StatusWhileUp == link = "up" => status = "1"

\* A lost or refused connection is made again, however often it is lost or
\* refused meanwhile, unless the broker is down at the moment of a retry.
Heals == (link \in {"broken", "refused", "retry", "wait"}) ~> (link \in {"up", "dead"})
=============================================================================
