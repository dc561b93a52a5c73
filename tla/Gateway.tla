------------------------------- MODULE Gateway -------------------------------
(***************************************************************************)
(* The xbee2mqtt daemon (src/xbee2mqtt/xbee2mqtt.py): what it publishes,   *)
(* subscribes to and commands, and how a reload of its routes interleaves  *)
(* with the radio traffic.                                                 *)
(*                                                                         *)
(* Two threads run it:                                                     *)
(*   - the reader thread of python-xbee takes a packet from the serial     *)
(*     port and runs xbee_on_message for each message in it (reader);      *)
(*   - the main thread runs mqtt.loop() and so the link's callbacks (see   *)
(*     MqttLink) and mqtt_on_message (pending, between its lookup and its  *)
(*     send_message); the SIGUSR1 handler, do_reload, runs on it too, at   *)
(*     any moment, even inside mqtt_on_message or another do_reload        *)
(*     (frames, the innermost call last).  While it runs, nothing else     *)
(*     does on that thread.                                                *)
(*                                                                         *)
(* A port is a record [node, kind, num]; num is 0 for the ports that are   *)
(* not pins ("serial", "seen", "alias").  A topic is the tuple of the      *)
(* parts its text is made of.                                              *)
(***************************************************************************)
EXTENDS MqttLink, Sequences

CONSTANTS
    Port,           \* the ports messages come from
    Packets,        \* the packets the radio hands over: sequences of messages
    RouteTopic,     \* the topics the configuration may route ports to
    Files,          \* what the configuration file may hold
    Configs,        \* those of Files that parse, as their "routes" section
    Raising,        \* those of Configs that name an address without ports
    None,           \* python's None, and False as a topic
    Expose,         \* expose_undefined_topics
    ItemPattern,    \* the topic patterns contain "{item}"
    Window,         \* duplicate_check_window, in clock ticks
    Filtered(_, _), \* what the processor makes of a value for a topic
    MaxNested       \* bound: do_reload calls active at a time

IsPin(p) == p.kind \in {"dio", "pin"}

\* The port whose samples and commands are the digital value of p's pin.
DigitalPort(p) == [p EXCEPT !.kind = "dio"]

\* transform_pattern: {item} and {port} of a topic, out of the port's prefix.
Item(kind) ==
    CASE kind = "adc" -> "analog" [] kind = "dio" -> "digital"
      [] kind = "pin" -> "config" [] OTHER -> ""

PortText(p) == IF Item(p.kind) = "" THEN <<p.kind>> ELSE <<"pin", p.num>>

Transform(direction, p) == <<direction, p.node, PortText(p), Item(p.kind)>>

OutputTopic(p) == Transform("out", p)
InputTopic(p) == Transform("in", p)
SetTopic(t) == <<"set", t>>

Topic == RouteTopic \cup {OutputTopic(p) : p \in Port}

SetTopics(topics) == {SetTopic(t) : t \in topics}

Value == UNION {{packet[i].value : i \in DOMAIN packet} : packet \in Packets}

Message == [port : Port, value : Value]

Routes == [Port -> RouteTopic \cup {None}]

Actions == [RouteTopic -> Port \cup {None}]

ASSUME GatewayAssumption ==
    /\ Packets \subseteq Seq(Message) \ {<<>>}
    /\ None \notin RouteTopic /\ None \notin Port
    /\ RouteTopic \cap {OutputTopic(p) : p \in Port} = {}
    /\ Configs \subseteq Routes
    /\ Configs \subseteq Files
    /\ Raising \subseteq Configs
    /\ \A p \in Port : IsPin(p) => DigitalPort(p) \in Port
    /\ SetTopics(RouteTopic) \cup {InputTopic(p) : p \in Port} \subseteq CommandTopic
    /\ Expose \in BOOLEAN /\ ItemPattern \in BOOLEAN
    /\ Window \in Nat /\ MaxNested \in Nat

\* The modelled configurations route no two ports to one topic.
ASSUME ConfigsInjective ==
    \A c \in Configs : \A p, q \in Port : c[p] = c[q] /\ c[p] # None => p = q

VARIABLES
    config,     \* the configuration file
    routes,     \* _routes
    actions,    \* _actions, by topic without the "/set"
    frames,     \* the do_reload calls on the main thread
    reader,     \* the reader thread
    topics,     \* _topics: last value recorded per topic, and its age
    retained,   \* what the broker retains per published topic
    pending,    \* the command mqtt_on_message looked up and has not sent, and
                \* (history) the configuration loaded at that moment
    command,    \* the last command sent to a radio, until the next is looked up
    loaded,     \* history: the configuration read by the last do_reload
    nesting,    \* history: "apart", or "nested" if that one interrupted another
    missed,     \* history: whose subscriptions the connection lacks, see below
    offered,    \* history: the last value mqtt_publish got per topic
    handed      \* history: the last value mqtt_publish gave to the client

\* missed: "startup" while the last __on_connect was left by an exception,
\* "reload" if the connection the last do_reload subscribed on is not there.

routeVars == <<config, routes, actions, frames, loaded, nesting>>
readerVars == <<reader, topics, retained, offered, handed>>
commandVars == <<pending, command>>
vars == <<linkVars, routeVars, readerVars, commandVars, missed>>

-----------------------------------------------------------------------------
(* Configuration and reload *)

Routed(c) == {p \in Port : c[p] # None}

\* _actions as one uninterrupted load(c) leaves it.
ActionsOf(c) ==
    [t \in RouteTopic |->
        IF \E p \in Port : c[p] = t THEN CHOOSE p \in Port : c[p] = t ELSE None]

ActionTopics == SetTopics({t \in RouteTopic : actions[t] # None})

EditConfig ==
    /\ config' \in Files \ {config}
    /\ UNCHANGED <<linkVars, routes, actions, frames, loaded, nesting, readerVars, commandVars,
                   missed>>

\* What do_reload raises goes up to the loop in run(), out of every do_reload
\* and mqtt_on_message it interrupted, through __on_disconnect past its
\* connect(), and through __on_connect past its subscribe().  Before the first
\* connect() it ends the program.
Raise ==
    /\ frames' = <<>>
    /\ pending' = None
    /\ \/ /\ link' = CASE link = "retry" -> "dead" [] link = "off" -> "exited" [] OTHER -> link
          /\ UNCHANGED <<status, missed>>
       \/ /\ link = "wait"
          /\ link' = "up"
          /\ status' \in {status, "1"}
          /\ missed' = {"startup", "reload"}
    /\ UNCHANGED <<broker, peer, session, subscribeTo, cuts, config, routes, actions, loaded,
                   readerVars, command>>

\* SIGUSR1 interrupts the main thread: do_reload parses the file, and raises if
\* it cannot.
Reload ==
    /\ link # "exited"
    /\ Len(frames) < MaxNested
    /\ \/ /\ config \in Configs
          /\ frames' = Append(frames, [new |-> config, phase |-> "routes", todo |-> Routed(config)])
          /\ loaded' = config
          /\ nesting' = IF frames = <<>> THEN "apart" ELSE "nested"
          /\ UNCHANGED <<linkVars, config, routes, actions, readerVars, commandVars, missed>>
       \/ /\ config \notin Configs
          /\ nesting' = IF frames = <<>> THEN nesting ELSE "nested"
          /\ Raise

Top == frames[Len(frames)]
Pop == SubSeq(frames, 1, Len(frames) - 1)

\* Mutants: a load() that keeps the old routes, or the old actions.
MutantClearRoutes ==
    /\ frames # <<>> /\ Top.phase = "routes"
    /\ frames' = Append(Pop, [Top EXCEPT !.phase = "actions"])
    /\ UNCHANGED <<linkVars, config, routes, actions, loaded, nesting, readerVars, commandVars,
                   missed>>

MutantClearActions ==
    /\ frames # <<>> /\ Top.phase = "actions"
    /\ frames' = Append(Pop, [Top EXCEPT !.phase = "fill"])
    /\ UNCHANGED <<linkVars, config, routes, actions, loaded, nesting, readerVars, commandVars,
                   missed>>

\* load(): forget the old routes, then the old actions...
ClearRoutes ==
    /\ frames # <<>> /\ Top.phase = "routes"
    /\ routes' = [p \in Port |-> None]
    /\ frames' = Append(Pop, [Top EXCEPT !.phase = "actions"])
    /\ UNCHANGED <<linkVars, config, actions, loaded, nesting, readerVars, commandVars,
                   missed>>

ClearActions ==
    /\ frames # <<>> /\ Top.phase = "actions"
    /\ actions' = [t \in RouteTopic |-> None]
    /\ frames' = Append(Pop, [Top EXCEPT !.phase = "fill"])
    /\ UNCHANGED <<linkVars, config, routes, loaded, nesting, readerVars, commandVars,
                   missed>>

\* ... and store the new ones one by one, in the order of the dictionary.
StoreRoute(p) ==
    /\ frames # <<>> /\ Top.phase = "fill"
    /\ p \in Top.todo
    /\ routes' = [routes EXCEPT ![p] = Top.new[p]]
    /\ actions' = [actions EXCEPT ![Top.new[p]] = p]
    /\ frames' = Append(Pop, [Top EXCEPT !.todo = @ \ {p}])
    /\ UNCHANGED <<linkVars, config, loaded, nesting, readerVars, commandVars,
                   missed>>

\* An address without ports has no iteritems(): load() raises when the loop
\* reaches it, before, between or after the addresses that have.
RaiseInLoad ==
    /\ frames # <<>> /\ Top.phase = "fill"
    /\ Top.new \in Raising
    /\ \A p \in Top.todo, q \in Routed(Top.new) : p.node = q.node => q \in Top.todo
    /\ UNCHANGED nesting
    /\ Raise

SubscriptionsSent ==
    missed' = IF Carries THEN missed \ {"reload"} ELSE missed \cup {"reload"}

\* Mutant: a do_reload that subscribes to the topics of the start.
MutantFinishReload ==
    /\ frames # <<>> /\ Top.phase = "fill" /\ Top.todo = {}
    /\ Top.new \notin Raising
    /\ Subscribe(subscribeTo)
    /\ SubscriptionsSent
    /\ frames' = Pop
    /\ UNCHANGED <<broker, link, peer, status, subscribeTo, cuts,
                   config, routes, actions, loaded, nesting, readerVars, commandVars>>

\* do_reload subscribes to the new action topics and returns.
FinishReload ==
    /\ frames # <<>> /\ Top.phase = "fill" /\ Top.todo = {}
    /\ Top.new \notin Raising
    /\ Subscribe(ActionTopics)
    /\ SubscriptionsSent
    /\ frames' = Pop
    /\ UNCHANGED <<broker, link, peer, status, subscribeTo, cuts,
                   config, routes, actions, loaded, nesting, readerVars, commandVars>>

-----------------------------------------------------------------------------
(* mqtt_on_message, on the main thread: SIGUSR1 may come between its two   *)
(* steps, and what it then sends is what the old dictionary said.          *)

\* What parse() and the renaming of {item} make of an input topic.
ParsedPort(topic) ==
    IF \E p \in Port : Item(p.kind) # "" /\ InputTopic(p) = topic
    THEN CHOOSE p \in Port : Item(p.kind) # "" /\ InputTopic(p) = topic
    ELSE None

Target(topic) ==
    IF \E t \in RouteTopic : SetTopic(t) = topic /\ actions[t] # None
    THEN actions[CHOOSE t \in RouteTopic : SetTopic(t) = topic]
    ELSE ParsedPort(topic)

\* A topic that is neither makes parse() return None, and the attempt to
\* read its fields raises into the loop of run(): no command is sent.
OnMqttMessage ==
    /\ link = "up"
    /\ frames = <<>> /\ pending = None
    /\ \E topic \in session :
        /\ Target(topic) # None
        /\ pending' = [topic |-> topic, port |-> Target(topic),
                       by |-> IF nesting = "apart" THEN loaded ELSE None]
    /\ command' = None
    /\ UNCHANGED <<linkVars, routeVars, readerVars, missed>>

SendMessage ==
    /\ frames = <<>> /\ pending # None
    /\ command' = [topic |-> pending.topic, port |-> pending.port]
    /\ pending' = None
    /\ UNCHANGED <<linkVars, routeVars, readerVars, missed>>

-----------------------------------------------------------------------------
(* The reader thread *)

Idle == [pc |-> "idle", rest |-> <<>>, topic |-> None]

Current == Head(reader.rest)

\* A packet arrives: an IO sample, a UART line, a pin report, or the two
\* messages of an identification ("seen" and "alias").
Receive ==
    /\ link \notin {"off", "exited"}
    /\ reader.pc = "idle"
    /\ \E packet \in Packets :
        reader' = [pc |-> "lookup", rest |-> packet, topic |-> None]
    /\ UNCHANGED <<linkVars, routeVars, topics, retained, offered, handed, commandVars, missed>>

\* xbee_on_message: the topic of the message.  The default topic is computed
\* even for a routed port, and raises if the pattern has no "{item}":
\* python-xbee hands the exception to errorlog and drops the packet.
Lookup ==
    /\ reader.pc = "lookup"
    /\ LET p == Current.port IN
       reader' =
        IF Expose /\ ~ItemPattern THEN Idle
        ELSE [reader EXCEPT
                !.topic = IF routes[p] # None THEN routes[p]
                          ELSE IF Expose THEN OutputTopic(p) ELSE None,
                !.pc = IF Expose /\ IsPin(p) THEN "subscribe" ELSE "publish"]
    /\ UNCHANGED <<linkVars, routeVars, topics, retained, offered, handed, commandVars, missed>>

SubscribeInput ==
    /\ reader.pc = "subscribe"
    /\ Subscribe({InputTopic(Current.port)})
    /\ reader' = [reader EXCEPT !.pc = "digital"]
    /\ UNCHANGED <<broker, link, peer, status, subscribeTo, cuts,
                   routeVars, topics, retained, offered, handed, commandVars, missed>>

\* The digital topic of a pin is a command topic while the pin is an output.
SubscribeDigital ==
    /\ reader.pc = "digital"
    /\ LET digital == {InputTopic(DigitalPort(Current.port))} IN
       IF Current.port.kind = "pin" /\ Current.value \in {4, 5}
       THEN Subscribe(digital) ELSE Unsubscribe(digital)
    /\ reader' = [reader EXCEPT !.pc = "publish"]
    /\ UNCHANGED <<broker, link, peer, status, subscribeTo, cuts,
                   routeVars, topics, retained, offered, handed, commandVars, missed>>

NextMessage ==
    IF Len(reader.rest) = 1 THEN Idle
    ELSE [pc |-> "lookup", rest |-> Tail(reader.rest), topic |-> None]

\* Mutant: the values are not compared.
MutantDuplicate(t, value) == topics[t] # None /\ topics[t].age < Window

Duplicate(t, value) ==
    topics[t] # None /\ topics[t].age < Window /\ topics[t].value = value

\* mqtt_publish, up to the processor: drop a duplicate, record anything else.
MqttPublish ==
    /\ reader.pc = "publish"
    /\ LET t == reader.topic
           value == Current.value IN
       IF t = None
       THEN reader' = NextMessage /\ UNCHANGED <<topics, offered>>
       ELSE /\ offered' = [offered EXCEPT ![t] = value]
            /\ IF Duplicate(t, value)
               THEN reader' = NextMessage /\ UNCHANGED topics
               ELSE /\ topics' = [topics EXCEPT ![t] = [value |-> value, age |-> 0]]
                    /\ reader' = [reader EXCEPT !.pc = "send"]
    /\ UNCHANGED <<linkVars, routeVars, retained, handed, commandVars, missed>>

\* Mutant: the value is published without going through the processor.
MutantSend ==
    /\ reader.pc = "send"
    /\ LET t == reader.topic IN
       /\ retained' = IF Carries THEN [retained EXCEPT ![t] = Current.value] ELSE retained
       /\ handed' = [handed EXCEPT ![t] = Current.value]
    /\ reader' = NextMessage
    /\ UNCHANGED <<linkVars, routeVars, topics, offered, commandVars, missed>>

\* The processor's result goes to paho at QoS 0: lost when the link is.
Send ==
    /\ reader.pc = "send"
    /\ LET t == reader.topic IN
       /\ retained' = IF Carries
                      THEN [retained EXCEPT ![t] = Filtered(t, Current.value)]
                      ELSE retained
       /\ handed' = [handed EXCEPT ![t] = Current.value]
    /\ reader' = NextMessage
    /\ UNCHANGED <<linkVars, routeVars, topics, offered, commandVars, missed>>

\* The clock.  An age counts up to Window: beyond, nothing depends on it.
Tick ==
    /\ topics' = [t \in Topic |->
                    IF topics[t] # None /\ topics[t].age < Window
                    THEN [topics[t] EXCEPT !.age = @ + 1] ELSE topics[t]]
    /\ UNCHANGED <<linkVars, routeVars, reader, retained, offered, handed, commandVars, missed>>

-----------------------------------------------------------------------------
\* The configuration is loaded (a file that raises ends the program), then run()
\* takes the start-up subscriptions.
Init ==
    /\ config \in Configs \ Raising
    /\ routes = config
    /\ actions = ActionsOf(config)
    /\ frames = <<>>
    /\ loaded = config
    /\ nesting = "apart"
    /\ LinkInit(SetTopics({t \in RouteTopic : ActionsOf(config)[t] # None}))
    /\ reader = Idle
    /\ topics = [t \in Topic |-> None]
    /\ retained = [t \in Topic |-> None]
    /\ offered = [t \in Topic |-> None]
    /\ handed = [t \in Topic |-> None]
    /\ pending = None
    /\ command = None
    /\ missed = {}

\* A connection that is made again has the subscriptions of the start only.
LinkStep ==
    /\ NetworkStep \/ (frames = <<>> /\ pending = None /\ MainStep)
    /\ missed' = (IF link = "wait" /\ link' = "up" THEN missed \ {"startup"} ELSE missed)
                    \cup (IF link' \in {"off", "wait", "up"} THEN {} ELSE {"reload"})
    /\ UNCHANGED <<routeVars, readerVars, commandVars>>

ReloadStep ==
    \/ Reload \/ ClearRoutes \/ ClearActions
    \/ \E p \in Port : StoreRoute(p)
    \/ RaiseInLoad \/ FinishReload

ReaderStep ==
    \/ Receive \/ Lookup \/ SubscribeInput \/ SubscribeDigital
    \/ MqttPublish \/ Send

Next == EditConfig \/ LinkStep \/ ReloadStep \/ OnMqttMessage \/ SendMessage
        \/ ReaderStep \/ Tick

Spec == Init /\ [][Next]_vars

-----------------------------------------------------------------------------
Frame == [new : Configs, phase : {"routes", "actions", "fill"}, todo : SUBSET Port]

ReaderPc == {"idle", "lookup", "subscribe", "digital", "publish", "send"}

TypeOK ==
    /\ LinkTypeOK
    /\ config \in Files
    /\ routes \in Routes
    /\ actions \in Actions
    /\ frames \in Seq(Frame) /\ Len(frames) <= MaxNested
    /\ loaded \in Configs
    /\ nesting \in {"apart", "nested"}
    /\ reader \in [pc : ReaderPc, rest : Seq(Message), topic : Topic \cup {None}]
    /\ topics \in [Topic -> [value : Value, age : 0..Window] \cup {None}]
    /\ DOMAIN retained = Topic
    /\ offered \in [Topic -> Value \cup {None}]
    /\ handed \in [Topic -> Value \cup {None}]
    /\ \A c \in {pending, command} :
        c = None \/ (c.topic \in CommandTopic /\ c.port \in Port)
    /\ missed \subseteq {"startup", "reload"}

\* When no reload is running, _routes is exactly the configuration the last
\* one read, or a part of it if that load() raised at an address without ports:
\* nothing of an older file is left, and nothing of a good one is missing.
\* (Not so after a SIGUSR1 that interrupted the handler of another, until the
\* next that does not.)
ReloadInstallsConfig ==
    frames = <<>> /\ nesting = "apart" =>
        /\ \A p \in Port : routes[p] \in {None, loaded[p]}
        /\ loaded \notin Raising => routes = loaded

\* _routes and _actions are "bidirectional dicts" (the docstring of load)
\* whenever a command can be looked up, also after a load() that raised.
ActionsInvertRoutes ==
    frames = <<>> /\ nesting = "apart" =>
        \A p \in Port, t \in RouteTopic : actions[t] = p <=> routes[p] = t

\* A command goes to the port whose values the gateway publishes next to the
\* topic it came on: by the configuration of the moment it was looked up, or by
\* the pattern.  When that is not the one loaded now, a reload came between the
\* lookup and the sending: only there is a removed or moved route commanded.
CommandMatchesRoute ==
    [][command' \notin {None, command} /\ pending.by # None =>
        LET p == command'.port IN
        command'.topic \in {InputTopic(p), SetTopic(pending.by[p])}]_vars

\* Every route can be commanded: while connected, the broker holds a
\* subscription to its topic, whatever the reader unsubscribes from and wherever
\* in the making of the connection the reload came.  (Not so when do_reload
\* subscribed without a connection, or that connection was lost, or the last
\* reload raised, or raised out of __on_connect.)
ReloadSubscribes ==
    link = "up" /\ frames = <<>> /\ nesting = "apart"
        /\ loaded \notin Raising /\ "reload" \notin missed =>
            SetTopics({loaded[p] : p \in Routed(loaded)}) \subseteq session

\* Duplicate removal never hides a change: between messages, the last value
\* that came for a topic is the last one given to the MQTT client for it.
NoChangeHidden == reader.pc \in {"idle", "lookup"} => offered = handed

\* As long as no connection was lost, the broker retains for each topic what
\* the processor made of the last value that came for it.
BrokerShowsLastValue ==
    cuts = 0 /\ reader.pc \in {"idle", "lookup"} =>
        \A t \in Topic : offered[t] # None => retained[t] = Filtered(t, offered[t])
=============================================================================
