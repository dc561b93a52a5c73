---------------------------- MODULE GatewayProofs ----------------------------
(***************************************************************************)
(* Proofs about the gateway, for any ports, topics, packets, files and     *)
(* bounds.  The invariant of the whole is the conjunction of three, each   *)
(* about the variables of one part: what the reload changes (RouteInv),    *)
(* what the reader thread changes (ReaderInv) and the link (ClientInv).    *)
(***************************************************************************)
EXTENDS Gateway, SequenceTheorems, TLAPS

-----------------------------------------------------------------------------
(* The link alone, for any topics and any number of losses, and the steps  *)
(* of it that the proofs about the gateway use again.                      *)

\* What on_connect establishes and every other step keeps.
LinkSafe ==
    /\ LinkTypeOK
    /\ StartupTopicsSubscribed
    /\ StatusWhileUp

\* The initial state has the types, if run() subscribes to command topics.
LEMMA LinkInitSafe ==
    ASSUME NEW someTopics \in SUBSET CommandTopic, LinkInit(someTopics)
    PROVE  LinkSafe
BY LinkAssumption DEF LinkInit, LinkSafe, LinkTypeOK, LinkState,
    StartupTopicsSubscribed, StatusWhileUp

\* A step of the main thread keeps the three: on_connect publishes "1" and
\* subscribes, and no other step ends in "up".
LEMMA MainStepSafe ==
    ASSUME LinkSafe, MainStep
    PROVE  LinkSafe'
<1> USE LinkAssumption DEF LinkSafe, LinkTypeOK, LinkState,
        StartupTopicsSubscribed, StatusWhileUp
<1>1. CASE Connect
    <2>1. CASE Accepted
        BY <1>1, <2>1 DEF Connect, Accepted, AfterDisconnect, CleanSession, AfterLoss
    <2>2. CASE Refused
        BY <1>1, <2>2 DEF Connect, Refused
    <2>3. CASE broker = "down" /\ link' = "exited" /\ UNCHANGED <<peer, session, status, cuts>>
        BY <1>1, <2>3 DEF Connect
    <2> QED
        BY <1>1, <2>1, <2>2, <2>3 DEF Connect
<1>2. CASE OnConnect
    BY <1>2 DEF OnConnect
<1>3. CASE OnDisconnect
    BY <1>3 DEF OnDisconnect
<1>4. CASE Retry
    <2>1. CASE Accepted
        BY <1>4, <2>1 DEF Retry, Accepted, AfterDisconnect, CleanSession, AfterLoss
    <2>2. CASE Refused
        BY <1>4, <2>2 DEF Retry, Refused
    <2>3. CASE broker = "down" /\ link' = "dead" /\ UNCHANGED <<peer, session, status, cuts>>
        BY <1>4, <2>3 DEF Retry
    <2> QED
        BY <1>4, <2>1, <2>2, <2>3 DEF Retry
<1> QED
    BY <1>1, <1>2, <1>3, <1>4 DEF MainStep

\* A step of the network or the broker keeps them: what it takes away from the
\* session or writes over the status, it does on a connection that is not up.
LEMMA NetworkStepSafe ==
    ASSUME LinkSafe, NetworkStep
    PROVE  LinkSafe'
<1> USE LinkAssumption DEF LinkSafe, LinkTypeOK, LinkState, Carries,
        StartupTopicsSubscribed, StatusWhileUp
<1>1. CASE Cut
    BY <1>1 DEF Cut
<1>2. CASE BrokerDrops
    BY <1>2 DEF BrokerDrops, AfterLoss, AfterDisconnect, CleanSession
<1>3. CASE BrokerStop
    BY <1>3 DEF BrokerStop, AfterDisconnect, CleanSession
<1>4. CASE BrokerStart
    BY <1>4 DEF BrokerStart
<1> QED
    BY <1>1, <1>2, <1>3, <1>4 DEF NetworkStep

\* Subscribing to a command topic, or unsubscribing from topics that are not
\* start-up topics, keeps them too.
LEMMA SubscribeSafe ==
    ASSUME LinkSafe, NEW someTopics \in SUBSET CommandTopic, Subscribe(someTopics),
           UNCHANGED <<broker, link, peer, status, subscribeTo, cuts>>
    PROVE  LinkSafe'
BY DEF LinkSafe, LinkTypeOK, Subscribe, StartupTopicsSubscribed, StatusWhileUp

LEMMA UnsubscribeSafe ==
    ASSUME LinkSafe, NEW someTopics, someTopics \cap subscribeTo = {}, Unsubscribe(someTopics),
           UNCHANGED <<broker, link, peer, status, subscribeTo, cuts>>
    PROVE  LinkSafe'
BY DEF LinkSafe, LinkTypeOK, Unsubscribe, StartupTopicsSubscribed, StatusWhileUp

LEMMA LinkStutterSafe ==
    ASSUME LinkSafe, UNCHANGED linkVars
    PROVE  LinkSafe'
BY DEF LinkSafe, LinkTypeOK, linkVars, StartupTopicsSubscribed, StatusWhileUp

LEMMA LinkAlwaysSafe == LinkSpec => []LinkSafe
<1>1. LinkAloneInit => LinkSafe
    BY LinkInitSafe DEF LinkAloneInit
<1>2. LinkSafe /\ [LinkNext]_linkVars => LinkSafe'
    <2> SUFFICES ASSUME LinkSafe, [LinkNext]_linkVars PROVE LinkSafe'
        OBVIOUS
    <2>1. CASE MainStep
        BY <2>1, MainStepSafe
    <2>2. CASE NetworkStep
        BY <2>2, NetworkStepSafe
    <2>3. CASE AppStep
        <3>1. PICK t \in CommandTopic \ subscribeTo : Subscribe({t}) \/ Unsubscribe({t})
            BY <2>3 DEF AppStep
        <3>2. UNCHANGED <<broker, link, peer, status, subscribeTo, cuts>>
            BY <2>3 DEF AppStep
        <3>3. CASE Subscribe({t})
            BY <3>2, <3>3, SubscribeSafe
        <3>4. CASE Unsubscribe({t})
            BY <3>2, <3>4, UnsubscribeSafe
        <3> QED
            BY <3>1, <3>3, <3>4
    <2>4. CASE UNCHANGED linkVars
        BY <2>4, LinkStutterSafe
    <2> QED
        BY <2>1, <2>2, <2>3, <2>4 DEF LinkNext
<1> QED
    BY <1>1, <1>2, PTL DEF LinkSpec

\* Every variable of the link keeps its type.
THEOREM LinkTypeCorrect == LinkSpec => []LinkTypeOK
<1>1. LinkSafe => LinkTypeOK
    BY DEF LinkSafe
<1> QED
    BY <1>1, LinkAlwaysSafe, PTL

\* A connected gateway is subscribed to every topic it had at start-up.
THEOREM StartupTopicsCorrect == LinkSpec => []StartupTopicsSubscribed
<1>1. LinkSafe => StartupTopicsSubscribed
    BY DEF LinkSafe
<1> QED
    BY <1>1, LinkAlwaysSafe, PTL

\* No late will hides that the gateway is connected.
THEOREM StatusCorrect == LinkSpec => []StatusWhileUp
<1>1. LinkSafe => StatusWhileUp
    BY DEF LinkSafe
<1> QED
    BY <1>1, LinkAlwaysSafe, PTL

-----------------------------------------------------------------------------
(* The routes *)

RouteTypes ==
    /\ config \in Files
    /\ routes \in Routes
    /\ actions \in Actions
    /\ frames \in Seq(Frame)
    /\ Len(frames) <= MaxNested
    /\ loaded \in Configs
    /\ nesting \in {"apart", "nested"}

\* The topics looked up are those of the ports of file that are not in todo.
LooksUp(lookup, file, todo) ==
    \A p \in Port, t \in RouteTopic : lookup[t] = p <=> p \notin todo /\ file[p] = t

\* What a do_reload has stored of its file: the routes not left to do.
Progress(f, file, stored, lookup) ==
    /\ f.new = file
    /\ f.phase \in {"routes", "actions"} => f.todo = Routed(file)
    /\ f.phase = "actions" => stored = [p \in Port |-> None]
    /\ f.phase = "fill" =>
        /\ stored = [p \in Port |-> IF p \in f.todo THEN None ELSE file[p]]
        /\ LooksUp(lookup, file, f.todo)

\* What a load() that is over has stored of its file: all but the routes in
\* todo, which are there only if an address without ports made it raise.
Installed(file, stored, lookup, todo) ==
    /\ stored = [p \in Port |-> IF p \in todo THEN None ELSE file[p]]
    /\ LooksUp(lookup, file, todo)
    /\ file \notin Raising => todo = {}

\* A do_reload that interrupts none, while nothing interrupts it, has stored
\* just that, and leaves the configuration it read, or what it stored of it.
RouteInv ==
    /\ RouteTypes
    /\ nesting = "apart" =>
        /\ frames = <<>> => \E todo \in SUBSET Port : Installed(loaded, routes, actions, todo)
        /\ frames # <<>> => Len(frames) = 1 /\ Progress(frames[1], loaded, routes, actions)

LEMMA TopAndPop ==
    ASSUME NEW s \in Seq(Frame), s # <<>>
    PROVE  /\ s[Len(s)] \in Frame
           /\ SubSeq(s, 1, Len(s) - 1) \in Seq(Frame)
           /\ Len(SubSeq(s, 1, Len(s) - 1)) = Len(s) - 1
<1> DEFINE n == Len(s) - 1
<1>1. Len(s) \in Nat \ {0} /\ n \in Nat
    BY EmptySeq
<1>2. s[Len(s)] \in Frame
    BY <1>1, ElementOfSeq
<1>3. \A i \in 1..n : s[i] \in Frame
    BY <1>1, ElementOfSeq
<1>4. SubSeq(s, 1, n) \in Seq(Frame)
    BY <1>1, <1>3
<1> HIDE DEF n
<1>5. Len(SubSeq(s, 1, n)) = IF 1 <= n THEN n - 1 + 1 ELSE 0
    BY <1>1, <1>3, SubSeqProperties, SMT
<1>6. Len(SubSeq(s, 1, n)) = n
    BY <1>1, <1>5
<1> QED
    BY <1>2, <1>4, <1>6 DEF n

\* A step of the innermost do_reload replaces its frame.
LEMMA ReplaceTop ==
    ASSUME NEW s \in Seq(Frame), s # <<>>, NEW f \in Frame,
           NEW t, t = Append(SubSeq(s, 1, Len(s) - 1), f)
    PROVE  /\ t \in Seq(Frame)
           /\ t # <<>>
           /\ Len(t) = Len(s)
           /\ Len(s) = 1 => t[1] = f
<1> DEFINE rest == SubSeq(s, 1, Len(s) - 1)
<1>1. rest \in Seq(Frame) /\ Len(rest) = Len(s) - 1
    BY TopAndPop
<1>2. Len(s) \in Nat \ {0}
    BY EmptySeq
<1>3. t = Append(rest, f)
    OBVIOUS
<1> HIDE DEF rest
<1>4. t \in Seq(Frame) /\ Len(t) = Len(rest) + 1
    BY <1>1, <1>3
<1>5. Len(t) = Len(s)
    BY <1>1, <1>2, <1>4
<1>6. t # <<>>
    BY <1>2, <1>5, EmptySeq
<1>7. Len(s) = 1 => t[1] = f
    BY <1>1, <1>3
<1> QED
    BY <1>4, <1>5, <1>6, <1>7

LEMMA RouteInvInit == Init => RouteInv
<1> SUFFICES ASSUME Init PROVE RouteInv
    OBVIOUS
<1>1. routes \in Routes
    BY GatewayAssumption DEF Init
<1>2. actions \in Actions
    <2>1. ASSUME NEW t \in RouteTopic
          PROVE  (IF \E p \in Port : config[p] = t
                  THEN CHOOSE p \in Port : config[p] = t ELSE None) \in Port \cup {None}
        <3>1. CASE \E p \in Port : config[p] = t
            <4>1. (CHOOSE p \in Port : config[p] = t) \in Port
                BY <3>1, Zenon
            <4> QED
                BY <3>1, <4>1
        <3> QED
            BY <3>1
    <2>2. actions = [t \in RouteTopic |->
                        IF \E p \in Port : config[p] = t
                        THEN CHOOSE p \in Port : config[p] = t ELSE None]
        BY DEF Init, ActionsOf
    <2> QED
        BY <2>1, <2>2, Zenon DEF Actions
<1>4. LooksUp(actions, config, {})
    <2> SUFFICES ASSUME NEW p \in Port, NEW t \in RouteTopic
                 PROVE  actions[t] = p <=> config[p] = t
        BY DEF LooksUp
    <2>1. \A q \in Port : config[q] = t /\ config[p] = t => p = q
        BY GatewayAssumption, ConfigsInjective DEF Init
    <2>2. CASE \E q \in Port : config[q] = t
        <3> DEFINE q == CHOOSE q \in Port : config[q] = t
        <3>1. q \in Port /\ config[q] = t
            BY <2>2, Zenon
        <3>2. actions[t] = q
            BY <2>2 DEF Init, ActionsOf
        <3> HIDE DEF q
        <3> QED
            BY <2>1, <3>1, <3>2
    <2>3. CASE ~\E q \in Port : config[q] = t
        <3>1. actions[t] = None
            BY <2>3 DEF Init, ActionsOf
        <3> QED
            BY <2>3, <3>1, GatewayAssumption
    <2> QED
        BY <2>2, <2>3
<1>5. frames \in Seq(Frame) /\ Len(frames) <= MaxNested
    <2>1. <<>> \in Seq(Frame) /\ Len(<<>>) = 0
        OBVIOUS
    <2> QED
        BY <2>1, GatewayAssumption DEF Init
<1>6. Installed(loaded, routes, actions, {})
    BY <1>1, <1>4 DEF Init, Installed, Routes
<1> QED
    BY <1>1, <1>2, <1>5, <1>6, GatewayAssumption DEF Init, RouteInv, RouteTypes

LEMMA ReloadKeepsRouteInv ==
    ASSUME RouteInv, Reload
    PROVE  RouteInv'
<1> USE DEF RouteInv, RouteTypes
<1>1. UNCHANGED <<config, routes, actions>> /\ Len(frames) < MaxNested
    BY DEF Reload, Raise
<1>2. CASE config \in Configs
    <2> DEFINE f == [new |-> config, phase |-> "routes", todo |-> Routed(config)]
    <2>1. frames' = Append(frames, f) /\ loaded' = config
        BY <1>2, GatewayAssumption DEF Reload
    <2>2. nesting' = IF frames = <<>> THEN "apart" ELSE "nested"
        BY <1>2 DEF Reload
    <2>3. f \in Frame
        BY <1>2, GatewayAssumption DEF Frame, Routed
    <2>4. frames' \in Seq(Frame) /\ Len(frames') = Len(frames) + 1 /\ Len(frames) \in Nat
        BY <2>1, <2>3
    <2>5. Len(frames') <= MaxNested /\ frames' # <<>>
        BY <2>4, <1>1, GatewayAssumption
    <2>6. ASSUME nesting' = "apart"
          PROVE  Len(frames') = 1 /\ Progress(frames'[1], loaded', routes', actions')
        <3>1. frames = <<>>
            BY <2>2, <2>6
        <3>2. Len(frames') = 1 /\ frames'[1] = f
            BY <2>1, <3>1
        <3> QED
            BY <2>1, <3>2 DEF Progress, Routed
    <2> HIDE DEF f
    <2> QED
        BY <1>1, <1>2, <2>1, <2>2, <2>4, <2>5, <2>6
<1>3. CASE config \notin Configs
    <2>1. /\ frames' = <<>>
          /\ nesting' = IF frames = <<>> THEN nesting ELSE "nested"
          /\ UNCHANGED loaded
        BY <1>3 DEF Reload, Raise
    <2>2. frames' \in Seq(Frame) /\ Len(frames') <= MaxNested
        BY <2>1, GatewayAssumption
    <2> QED
        BY <1>1, <2>1, <2>2
<1> QED
    BY <1>2, <1>3

LEMMA LoadKeepsRouteInv ==
    ASSUME RouteInv, ClearRoutes \/ ClearActions \/ \E p \in Port : StoreRoute(p)
    PROVE  RouteInv'
<1> DEFINE top == frames[Len(frames)]
<1>1. frames # <<>> /\ UNCHANGED <<config, loaded, nesting>>
    BY DEF ClearRoutes, ClearActions, StoreRoute
<1>2. top \in Frame
    BY <1>1, TopAndPop DEF RouteInv, RouteTypes
<1>3. nesting = "apart" => Len(frames) = 1 /\ Progress(top, loaded, routes, actions)
    BY <1>1 DEF RouteInv
<1>4. ASSUME NEW g \in Frame, frames' = Append(SubSeq(frames, 1, Len(frames) - 1), g),
             routes' \in Routes, actions' \in Actions,
             nesting = "apart" => Progress(g, loaded', routes', actions')
      PROVE  RouteInv'
    <2>1. frames \in Seq(Frame)
        BY DEF RouteInv, RouteTypes
    <2>2. /\ frames' \in Seq(Frame) /\ frames' # <<>>
          /\ Len(frames') = Len(frames)
          /\ Len(frames) = 1 => frames'[1] = g
        BY <1>1, <1>4, <2>1, ReplaceTop, Zenon
    <2>3. nesting' = "apart" => Len(frames') = 1 /\ Progress(frames'[1], loaded', routes', actions')
        BY <1>1, <1>3, <1>4, <2>2
    <2> QED
        BY <1>1, <1>4, <2>2, <2>3 DEF RouteInv, RouteTypes
<1>5. CASE ClearRoutes
    <2> DEFINE g == [top EXCEPT !.phase = "actions"]
    <2>1. /\ top.phase = "routes" /\ routes' = [p \in Port |-> None] /\ UNCHANGED actions
          /\ frames' = Append(SubSeq(frames, 1, Len(frames) - 1), g)
        BY <1>5 DEF ClearRoutes, Top, Pop
    <2>2. /\ g \in Frame
          /\ g.new = top.new /\ g.todo = top.todo /\ g.phase = "actions"
        BY <1>2 DEF Frame
    <2>3. nesting = "apart" => Progress(g, loaded', routes', actions')
        BY <1>1, <1>3, <2>1, <2>2 DEF Progress, Routed
    <2>4. routes' \in Routes /\ actions' \in Actions
        BY <2>1 DEF RouteInv, RouteTypes, Routes
    <2> HIDE DEF g
    <2> QED
        BY <1>4, <2>1, <2>2, <2>3, <2>4
<1>6. CASE ClearActions
    <2> DEFINE g == [top EXCEPT !.phase = "fill"]
    <2>1. /\ top.phase = "actions" /\ actions' = [t \in RouteTopic |-> None] /\ UNCHANGED routes
          /\ frames' = Append(SubSeq(frames, 1, Len(frames) - 1), g)
        BY <1>6 DEF ClearActions, Top, Pop
    <2>2. /\ g \in Frame
          /\ g.new = top.new /\ g.todo = top.todo /\ g.phase = "fill"
        BY <1>2 DEF Frame
    <2>3. nesting = "apart" => Progress(g, loaded', routes', actions')
        <3> SUFFICES ASSUME nesting = "apart" PROVE Progress(g, loaded', routes', actions')
            OBVIOUS
        <3>1. loaded \in Routes
            BY GatewayAssumption DEF RouteInv, RouteTypes
        <3>2. \A p \in Port : p \notin Routed(loaded) => loaded[p] = None
            BY DEF Routed
        <3>3. LooksUp(actions', loaded, g.todo)
            BY <1>3, <2>1, <2>2, <3>2, GatewayAssumption DEF Progress, LooksUp
        <3> QED
            BY <1>1, <1>3, <2>1, <2>2, <3>1, <3>2, <3>3 DEF Progress
    <2>4. routes' \in Routes /\ actions' \in Actions
        BY <2>1 DEF RouteInv, RouteTypes, Actions
    <2> HIDE DEF g
    <2> QED
        BY <1>4, <2>1, <2>2, <2>3, <2>4
<1>7. ASSUME NEW p \in Port, StoreRoute(p)
      PROVE  RouteInv'
    <2> DEFINE g == [top EXCEPT !.todo = @ \ {p}]
    <2>1. /\ top.phase = "fill" /\ p \in top.todo
          /\ routes' = [routes EXCEPT ![p] = top.new[p]]
          /\ actions' = [actions EXCEPT ![top.new[p]] = p]
          /\ frames' = Append(SubSeq(frames, 1, Len(frames) - 1), g)
        BY <1>7 DEF StoreRoute, Top, Pop
    <2>2. /\ g \in Frame
          /\ g.new = top.new /\ g.todo = top.todo \ {p} /\ g.phase = "fill"
        BY <1>2, <2>1 DEF Frame
    <2>3. routes' \in Routes
        <3>1. top.new \in Configs /\ top.new \in Routes
            BY <1>2, GatewayAssumption DEF Frame
        <3> QED
            BY <2>1, <3>1 DEF RouteInv, RouteTypes, Routes
    <2>4. actions' \in Actions
        BY <2>1 DEF RouteInv, RouteTypes, Actions
    <2>5. nesting = "apart" => Progress(g, loaded', routes', actions')
        <3> SUFFICES ASSUME nesting = "apart" PROVE Progress(g, loaded', routes', actions')
            OBVIOUS
        <3>1. routes = [q \in Port |-> IF q \in top.todo THEN None ELSE loaded[q]]
            BY <1>3, <2>1 DEF Progress
        <3>2. routes' = [q \in Port |-> IF q \in g.todo THEN None ELSE loaded[q]]
            BY <1>3, <2>1, <2>2, <3>1 DEF Progress
        <3>3. LooksUp(actions', loaded, g.todo)
            <4>1. loaded \in Configs /\ loaded = top.new /\ LooksUp(actions, loaded, top.todo)
                BY <1>3, <2>1 DEF Progress, RouteInv, RouteTypes
            <4>2. SUFFICES ASSUME NEW q \in Port, NEW t \in RouteTopic
                           PROVE  actions'[t] = q <=> q \notin g.todo /\ loaded[q] = t
                BY DEF LooksUp
            <4>3. CASE t = loaded[p]
                <5>1. actions'[t] = p
                    BY <2>1, <4>1, <4>3 DEF RouteInv, RouteTypes, Actions
                <5>2. loaded[q] = t => q = p
                    BY <4>1, <4>3, GatewayAssumption, ConfigsInjective
                <5> QED
                    BY <2>2, <4>3, <5>1, <5>2
            <4>4. CASE t # loaded[p]
                <5>1. actions'[t] = actions[t]
                    BY <2>1, <4>1, <4>4 DEF RouteInv, RouteTypes, Actions
                <5> QED
                    BY <2>2, <4>1, <4>4, <5>1 DEF LooksUp
            <4> QED
                BY <4>3, <4>4
        <3> QED
            BY <1>1, <1>3, <2>2, <3>2, <3>3 DEF Progress
    <2> HIDE DEF g
    <2> QED
        BY <1>4, <2>1, <2>2, <2>3, <2>4, <2>5
<1> QED
    BY <1>5, <1>6, <1>7

\* A load() over, it leaves what it has stored: a part of the file if it raised...
LEMMA RaiseKeepsRouteInv ==
    ASSUME RouteInv, RaiseInLoad
    PROVE  RouteInv'
<1> DEFINE top == frames[Len(frames)]
<1>1. /\ frames # <<>> /\ top.phase = "fill" /\ top.new \in Raising
      /\ frames' = <<>>
      /\ UNCHANGED <<config, routes, actions, loaded, nesting>>
    BY DEF RaiseInLoad, Raise, Top
<1>2. frames' \in Seq(Frame) /\ Len(frames') <= MaxNested
    BY <1>1, GatewayAssumption
<1>3. ASSUME nesting = "apart"
      PROVE  top.todo \in SUBSET Port /\ Installed(loaded, routes, actions, top.todo)
    <2>1. top \in Frame
        BY <1>1, TopAndPop DEF RouteInv, RouteTypes
    <2>2. Progress(top, loaded, routes, actions)
        BY <1>1, <1>3 DEF RouteInv
    <2> QED
        BY <1>1, <2>1, <2>2 DEF Progress, Installed, Frame
<1>4. nesting' = "apart" => \E todo \in SUBSET Port : Installed(loaded', routes', actions', todo)
    BY <1>1, <1>3
<1> QED
    BY <1>1, <1>2, <1>4 DEF RouteInv, RouteTypes

\* ... and all of it if it did not.
LEMMA FinishKeepsRouteInv ==
    ASSUME RouteInv, FinishReload
    PROVE  RouteInv'
<1> DEFINE rest == SubSeq(frames, 1, Len(frames) - 1)
           top == frames[Len(frames)]
<1>1. /\ frames # <<>> /\ top.phase = "fill" /\ top.todo = {}
      /\ frames' = rest
      /\ UNCHANGED <<config, routes, actions, loaded, nesting>>
    BY DEF FinishReload, Top, Pop
<1>2. frames \in Seq(Frame) /\ Len(frames) <= MaxNested /\ Len(frames) \in Nat
    BY DEF RouteInv, RouteTypes
<1>3. rest \in Seq(Frame) /\ Len(rest) = Len(frames) - 1
    BY <1>1, <1>2, TopAndPop
<1>4. Len(rest) <= MaxNested
    BY <1>2, <1>3, GatewayAssumption
<1>5. ASSUME nesting = "apart"
      PROVE  rest = <<>> /\ Installed(loaded, routes, actions, {})
    <2>1. Len(frames) = 1 /\ Progress(top, loaded, routes, actions)
        BY <1>1, <1>5 DEF RouteInv
    <2>2. rest = <<>>
        BY <1>3, <2>1, EmptySeq
    <2> QED
        BY <1>1, <2>1, <2>2 DEF Progress, Installed
<1> HIDE DEF rest
<1>6. nesting' = "apart" =>
        frames' = <<>> /\ \E todo \in SUBSET Port : Installed(loaded', routes', actions', todo)
    BY <1>1, <1>5
<1> QED
    BY <1>1, <1>3, <1>4, <1>6 DEF RouteInv, RouteTypes

LEMMA RouteInvStutter ==
    ASSUME RouteInv, UNCHANGED routeVars
    PROVE  RouteInv'
BY DEF RouteInv, RouteTypes, Progress, LooksUp, Installed, routeVars

\* Every step keeps the invariant of the routes: only those of the reload and
\* the edition of the file touch them.
LEMMA NextKeepsRouteInv ==
    ASSUME RouteInv, [Next]_vars
    PROVE  RouteInv'
<1>1. CASE EditConfig
    <2>1. config' \in Files /\ UNCHANGED <<routes, actions, frames, loaded, nesting>>
        BY <1>1 DEF EditConfig
    <2> QED
        BY <2>1 DEF RouteInv, RouteTypes
<1>2. CASE LinkStep
    BY <1>2, RouteInvStutter DEF LinkStep
<1>3. CASE ReloadStep
    <2>1. CASE Reload
        BY <2>1, ReloadKeepsRouteInv
    <2>2. CASE ClearRoutes \/ ClearActions \/ \E p \in Port : StoreRoute(p)
        BY <2>2, LoadKeepsRouteInv
    <2>3. CASE RaiseInLoad
        BY <2>3, RaiseKeepsRouteInv
    <2>4. CASE FinishReload
        BY <2>4, FinishKeepsRouteInv
    <2> QED
        BY <1>3, <2>1, <2>2, <2>3, <2>4 DEF ReloadStep
<1>4. CASE OnMqttMessage \/ SendMessage
    BY <1>4, RouteInvStutter DEF OnMqttMessage, SendMessage
<1>5. CASE ReaderStep
    <2>1. UNCHANGED routeVars
        BY <1>5 DEF ReaderStep, Receive, Lookup, SubscribeInput, SubscribeDigital,
            MqttPublish, Send
    <2> QED
        BY <2>1, RouteInvStutter
<1>6. CASE Tick
    BY <1>6, RouteInvStutter DEF Tick
<1>7. CASE UNCHANGED vars
    BY <1>7, RouteInvStutter DEF vars
<1> QED
    BY <1>1, <1>2, <1>3, <1>4, <1>5, <1>6, <1>7 DEF Next

LEMMA AlwaysRouteInv == Spec => []RouteInv
<1> QED
    BY RouteInvInit, NextKeepsRouteInv, PTL DEF Spec

\* A reload that interrupts no other installs the configuration it read, or the
\* part of it that comes before an address without ports, whatever else runs
\* meanwhile and however many reloads came before, raised or not.
THEOREM ReloadCorrect == Spec => []ReloadInstallsConfig
<1>1. RouteInv => ReloadInstallsConfig
    <2> SUFFICES ASSUME RouteInv, frames = <<>>, nesting = "apart"
                 PROVE  /\ \A p \in Port : routes[p] \in {None, loaded[p]}
                        /\ loaded \notin Raising => routes = loaded
        BY DEF ReloadInstallsConfig
    <2>1. PICK todo \in SUBSET Port : Installed(loaded, routes, actions, todo)
        BY DEF RouteInv
    <2>2. loaded \in Routes
        BY GatewayAssumption DEF RouteInv, RouteTypes
    <2> QED
        BY <2>1, <2>2 DEF Installed, Routes
<1> QED
    BY <1>1, AlwaysRouteInv, PTL

\* Whenever a command can be looked up, _routes and _actions agree, by the
\* same argument: what is stored so far agrees with the routes left to do, and
\* it is left so when load() raises.
THEOREM ActionsCorrect == Spec => []ActionsInvertRoutes
<1>1. RouteInv => ActionsInvertRoutes
    <2> SUFFICES ASSUME RouteInv, frames = <<>>, nesting = "apart",
                        NEW p \in Port, NEW t \in RouteTopic
                 PROVE  actions[t] = p <=> routes[p] = t
        BY DEF ActionsInvertRoutes
    <2>1. PICK todo \in SUBSET Port : Installed(loaded, routes, actions, todo)
        BY DEF RouteInv
    <2>2. t # None
        BY GatewayAssumption
    <2> QED
        BY <2>1, <2>2 DEF Installed, LooksUp
<1> QED
    BY <1>1, AlwaysRouteInv, PTL

\* What a topic is a command for: a port with that input topic, or the one
\* _actions has for it.
LEMMA TargetSource ==
    ASSUME RouteInv, NEW topic, Target(topic) # None
    PROVE  /\ Target(topic) \in Port
           /\ \/ topic = InputTopic(Target(topic))
              \/ \E t \in RouteTopic : topic = SetTopic(t) /\ actions[t] = Target(topic)
<1>1. CASE \E t \in RouteTopic : SetTopic(t) = topic /\ actions[t] # None
    <2>1. PICK t \in RouteTopic : SetTopic(t) = topic /\ actions[t] # None
        BY <1>1
    <2>2. \A u \in RouteTopic : SetTopic(u) = topic => u = t
        BY <2>1 DEF SetTopic
    <2>3. (CHOOSE u \in RouteTopic : SetTopic(u) = topic) = t
        BY <2>1, <2>2
    <2>4. Target(topic) = actions[t]
        BY <1>1, <2>3 DEF Target
    <2> QED
        BY <2>1, <2>4 DEF RouteInv, RouteTypes, Actions
<1>2. CASE ~\E t \in RouteTopic : SetTopic(t) = topic /\ actions[t] # None
    <2>1. Target(topic) = ParsedPort(topic)
        BY <1>2 DEF Target
    <2>2. \E p \in Port : Item(p.kind) # "" /\ InputTopic(p) = topic
        BY <2>1 DEF ParsedPort
    <2>3. ParsedPort(topic) = CHOOSE p \in Port : Item(p.kind) # "" /\ InputTopic(p) = topic
        BY <2>2 DEF ParsedPort
    <2>4. ParsedPort(topic) \in Port /\ InputTopic(ParsedPort(topic)) = topic
        BY <2>2, <2>3
    <2> QED
        BY <2>1, <2>4
<1> QED
    BY <1>1, <1>2

\* A command looked up, and not yet sent, matches the configuration of the
\* moment it was looked up, however many reloads came since.
PendingInv ==
    pending # None =>
        /\ pending.port \in Port
        /\ pending.by # None =>
            pending.topic \in {InputTopic(pending.port), SetTopic(pending.by[pending.port])}

LEMMA LookupMakesPending ==
    ASSUME RouteInv, OnMqttMessage
    PROVE  PendingInv' /\ pending'.topic \in session
<1>1. PICK topic \in session :
        /\ Target(topic) # None
        /\ pending' = [topic |-> topic, port |-> Target(topic),
                       by |-> IF nesting = "apart" THEN loaded ELSE None]
    BY DEF OnMqttMessage
<1>2. Target(topic) \in Port
    BY <1>1, TargetSource
<1>3. ASSUME nesting = "apart"
      PROVE  topic \in {InputTopic(Target(topic)), SetTopic(loaded[Target(topic)])}
    <2>1. PICK todo \in SUBSET Port : Installed(loaded, routes, actions, todo)
        BY <1>3 DEF OnMqttMessage, RouteInv
    <2>2. ASSUME NEW t \in RouteTopic, actions[t] = Target(topic)
          PROVE  loaded[Target(topic)] = t
        BY <1>2, <2>1, <2>2 DEF Installed, LooksUp
    <2> QED
        BY <1>1, <2>2, TargetSource
<1> QED
    BY <1>1, <1>2, <1>3 DEF PendingInv

\* A command is sent to the port whose topic it came on, whatever was routed
\* to that topic before the lookup and whatever is when it is sent.
THEOREM CommandsCorrect == Spec => CommandMatchesRoute
<1> DEFINE Matches ==
        LET p == command'.port IN
        command'.topic \in {InputTopic(p), SetTopic(pending.by[p])}
<1>1. Init => PendingInv
    BY DEF Init, PendingInv
<1>2. RouteInv /\ PendingInv /\ [Next]_vars => PendingInv'
    <2> SUFFICES ASSUME RouteInv, PendingInv, [Next]_vars PROVE PendingInv'
        OBVIOUS
    <2>1. CASE OnMqttMessage
        BY <2>1, LookupMakesPending
    <2>2. CASE UNCHANGED pending \/ pending' = None
        BY <2>2 DEF PendingInv
    <2>3. OnMqttMessage \/ UNCHANGED pending \/ pending' = None
        BY DEF Next, EditConfig, LinkStep, ReloadStep, Reload, Raise, ClearRoutes, ClearActions,
            StoreRoute, RaiseInLoad, FinishReload, SendMessage, ReaderStep, Receive, Lookup,
            SubscribeInput, SubscribeDigital, MqttPublish, Send, Tick, vars, commandVars
    <2> QED
        BY <2>1, <2>2, <2>3
<1>3. PendingInv /\ [Next]_vars =>
        [command' \notin {None, command} /\ pending.by # None => Matches]_vars
    <2> SUFFICES ASSUME PendingInv, Next, command' \notin {None, command}, pending.by # None
                 PROVE  Matches
        OBVIOUS
    <2>1. SendMessage
        BY DEF Next, EditConfig, LinkStep, ReloadStep, Reload, Raise, ClearRoutes, ClearActions,
            StoreRoute, RaiseInLoad, FinishReload, OnMqttMessage, ReaderStep, Receive, Lookup,
            SubscribeInput, SubscribeDigital, MqttPublish, Send, Tick, commandVars
    <2> QED
        BY <2>1 DEF SendMessage, PendingInv
<1> QED
    BY <1>1, <1>2, <1>3, AlwaysRouteInv, PTL DEF Spec, CommandMatchesRoute

-----------------------------------------------------------------------------
(* The reader thread *)

ReaderTypes ==
    /\ reader \in [pc : ReaderPc, rest : Seq(Message), topic : Topic \cup {None}]
    /\ topics \in [Topic -> [value : Value, age : 0..Window] \cup {None}]
    /\ DOMAIN retained = Topic
    /\ offered \in [Topic -> Value \cup {None}]
    /\ handed \in [Topic -> Value \cup {None}]

\* A message being handled is there; only those of pins get to the dynamic
\* subscriptions; what is sent has a topic.
ReaderPlace ==
    /\ reader.pc # "idle" => reader.rest # <<>>
    /\ reader.pc \in {"subscribe", "digital"} => IsPin(Current.port)
    /\ reader.pc = "send" => reader.topic \in Topic

\* _topics holds the last value that came for a topic, if any; and that value
\* has been given to the client, but for the one on its way.
Offers ==
    /\ \A t \in Topic : topics[t] # None => offered[t] = topics[t].value
    /\ reader.pc # "send" => offered = handed
    /\ reader.pc = "send" =>
        /\ offered[reader.topic] = Current.value
        /\ \A t \in Topic \ {reader.topic} : offered[t] = handed[t]

ReaderInv == ReaderTypes /\ ReaderPlace /\ Offers

LEMMA ReaderInvInit == Init => ReaderInv
BY DEF Init, Idle, ReaderInv, ReaderTypes, ReaderPlace, Offers, ReaderPc

LEMMA ReaderInvStutter ==
    ASSUME ReaderInv, UNCHANGED readerVars
    PROVE  ReaderInv'
BY DEF ReaderInv, ReaderTypes, ReaderPlace, Offers, readerVars, Current

LEMMA LongTail ==
    ASSUME NEW S, NEW s \in Seq(S), s # <<>>, Len(s) # 1
    PROVE  Tail(s) # <<>>
<1>1. Len(Tail(s)) = Len(s) - 1
    BY HeadTailProperties
<1>2. Len(s) \in Nat \ {0} /\ Len(<<>>) = 0
    BY EmptySeq
<1>3. Len(Tail(s)) # Len(<<>>)
    BY <1>1, <1>2
<1> QED
    BY <1>3, Zenon

\* The current message is one of the packet's.
LEMMA CurrentMessage ==
    ASSUME ReaderInv, reader.pc # "idle"
    PROVE  /\ Current \in Message
           /\ Current.port \in Port /\ Current.value \in Value
           /\ Tail(reader.rest) \in Seq(Message)
           /\ Len(reader.rest) # 1 => Tail(reader.rest) # <<>>
<1>1. reader.rest \in Seq(Message) /\ reader.rest # <<>>
    BY DEF ReaderInv, ReaderTypes, ReaderPlace
<1>2. Current \in Message
    BY <1>1, HeadTailProperties DEF Current
<1>3. Tail(reader.rest) \in Seq(Message) /\ Len(Tail(reader.rest)) = Len(reader.rest) - 1
    BY <1>1, HeadTailProperties
<1>4. Len(reader.rest) # 1 => Tail(reader.rest) # <<>>
    BY <1>1, LongTail
<1> QED
    BY <1>2, <1>3, <1>4 DEF Message

\* After a message comes the next one of the packet, without a topic yet.
LEMMA NextMessageType ==
    ASSUME ReaderInv, reader.pc # "idle"
    PROVE  /\ NextMessage \in [pc : ReaderPc, rest : Seq(Message), topic : Topic \cup {None}]
           /\ NextMessage.pc \in {"idle", "lookup"}
           /\ NextMessage.topic = None
           /\ NextMessage.pc # "idle" => NextMessage.rest # <<>>
<1>1. CASE Len(reader.rest) = 1
    BY <1>1 DEF NextMessage, Idle, ReaderPc
<1>2. CASE Len(reader.rest) # 1
    BY <1>2, CurrentMessage DEF NextMessage, ReaderPc
<1> QED
    BY <1>1, <1>2

LEMMA LookupKeepsReaderInv ==
    ASSUME ReaderInv, RouteInv, Lookup
    PROVE  ReaderInv'
<1>1. /\ reader.pc = "lookup"
      /\ UNCHANGED <<topics, retained, offered, handed>>
    BY DEF Lookup
<1>2. Current.port \in Port
    BY <1>1, CurrentMessage
<1> DEFINE p == Current.port
<1>3. CASE Expose /\ ~ItemPattern
    <2>1. reader' = Idle
        BY <1>3 DEF Lookup
    <2> QED
        BY <1>1, <2>1 DEF ReaderInv, ReaderTypes, ReaderPlace, Offers, Idle, ReaderPc
<1>4. CASE ~(Expose /\ ~ItemPattern)
    <2> DEFINE topic == IF routes[p] # None THEN routes[p]
                        ELSE IF Expose THEN OutputTopic(p) ELSE None
               pc == IF Expose /\ IsPin(p) THEN "subscribe" ELSE "publish"
    <2>1. reader' = [reader EXCEPT !.topic = topic, !.pc = pc]
        BY <1>4 DEF Lookup
    <2>2. topic \in Topic \cup {None}
        BY <1>2 DEF RouteInv, RouteTypes, Routes, Topic
    <2>3. pc \in ReaderPc /\ pc \in {"subscribe", "publish"} /\ (pc = "subscribe" => IsPin(p))
        BY DEF ReaderPc
    <2> HIDE DEF topic, pc
    <2>4. /\ reader'.topic = topic /\ reader'.pc = pc /\ reader'.rest = reader.rest
          /\ reader' \in [pc : ReaderPc, rest : Seq(Message), topic : Topic \cup {None}]
        BY <2>1, <2>2, <2>3 DEF ReaderInv, ReaderTypes
    <2>5. ReaderPlace'
        BY <1>1, <2>3, <2>4 DEF ReaderInv, ReaderPlace, Current
    <2> QED
        BY <1>1, <2>3, <2>4, <2>5 DEF ReaderInv, ReaderTypes, Offers
<1> QED
    BY <1>3, <1>4

LEMMA PublishKeepsReaderInv ==
    ASSUME ReaderInv, MqttPublish
    PROVE  ReaderInv'
<1> DEFINE t == reader.topic
           value == Current.value
<1>1. reader.pc = "publish" /\ UNCHANGED <<retained, handed>>
    BY DEF MqttPublish
<1>2. value \in Value
    BY <1>1, CurrentMessage
<1>3. t \in Topic \cup {None} /\ offered = handed
    BY <1>1 DEF ReaderInv, ReaderTypes, Offers
<1>4. CASE t = None
    <2>1. reader' = NextMessage /\ UNCHANGED <<topics, offered>>
        BY <1>4 DEF MqttPublish
    <2> QED
        BY <1>1, <1>3, <2>1, NextMessageType DEF ReaderInv, ReaderTypes, ReaderPlace, Offers
<1>5. CASE t # None
    <2>1. t \in Topic /\ offered' = [offered EXCEPT ![t] = value]
        BY <1>3, <1>5 DEF MqttPublish
    <2>2. offered' \in [Topic -> Value \cup {None}]
        BY <1>2, <2>1 DEF ReaderInv, ReaderTypes
    <2>3. CASE Duplicate(t, value)
        <3>1. reader' = NextMessage /\ UNCHANGED topics
            BY <1>5, <2>3 DEF MqttPublish
        <3>2. offered[t] = value
            BY <2>1, <2>3 DEF Duplicate, ReaderInv, Offers
        <3>3. UNCHANGED offered
            BY <2>1, <3>2 DEF ReaderInv, ReaderTypes
        <3> QED
            BY <1>1, <1>3, <3>1, <3>3, NextMessageType
            DEF ReaderInv, ReaderTypes, ReaderPlace, Offers
    <2>4. CASE ~Duplicate(t, value)
        <3>1. /\ topics' = [topics EXCEPT ![t] = [value |-> value, age |-> 0]]
              /\ reader' = [reader EXCEPT !.pc = "send"]
            BY <1>5, <2>4 DEF MqttPublish
        <3>2. [value |-> value, age |-> 0] \in [value : Value, age : 0..Window]
            BY <1>2, GatewayAssumption
        <3>3. topics' \in [Topic -> [value : Value, age : 0..Window] \cup {None}]
            BY <2>1, <3>1, <3>2 DEF ReaderInv, ReaderTypes
        <3>4. /\ reader' \in [pc : ReaderPc, rest : Seq(Message), topic : Topic \cup {None}]
              /\ reader'.pc = "send" /\ reader'.topic = t /\ reader'.rest = reader.rest
            BY <3>1 DEF ReaderInv, ReaderTypes, ReaderPc
        <3>5. ReaderTypes'
            BY <1>1, <2>2, <3>3, <3>4 DEF ReaderInv, ReaderTypes
        <3>6. ReaderPlace'
            BY <1>1, <2>1, <3>4 DEF ReaderInv, ReaderPlace
        <3>7. \A u \in Topic : topics'[u] # None => offered'[u] = topics'[u].value
            BY <2>1, <3>1 DEF ReaderInv, ReaderTypes, Offers
        <3>8. Current' = Current
            BY <3>4 DEF Current
        <3>9. /\ offered'[t] = value
              /\ \A u \in Topic \ {t} : offered'[u] = handed'[u]
            BY <1>1, <1>3, <2>1 DEF ReaderInv, ReaderTypes
        <3>10. Offers'
            BY <3>4, <3>7, <3>8, <3>9 DEF Offers
        <3> QED
            BY <3>5, <3>6, <3>10 DEF ReaderInv
    <2> QED
        BY <2>3, <2>4
<1> QED
    BY <1>4, <1>5

LEMMA ReceiveKeepsReaderInv ==
    ASSUME ReaderInv, Receive
    PROVE  ReaderInv'
<1>1. PICK packet \in Packets : reader' = [pc |-> "lookup", rest |-> packet, topic |-> None]
    BY DEF Receive
<1>2. packet \in Seq(Message) /\ packet # <<>>
    BY GatewayAssumption
<1>3. reader.pc = "idle" /\ UNCHANGED <<topics, retained, offered, handed>>
    BY DEF Receive
<1> QED
    BY <1>1, <1>2, <1>3 DEF ReaderInv, ReaderTypes, ReaderPlace, Offers, ReaderPc

LEMMA DynamicKeepsReaderInv ==
    ASSUME ReaderInv, SubscribeInput \/ SubscribeDigital
    PROVE  ReaderInv'
<1>1. PICK pc \in {"digital", "publish"} :
        reader' = [reader EXCEPT !.pc = pc] /\ reader.pc \in {"subscribe", "digital"}
    BY DEF SubscribeInput, SubscribeDigital
<1>2. UNCHANGED <<topics, retained, offered, handed>>
    BY DEF SubscribeInput, SubscribeDigital
<1>3. /\ reader' \in [pc : ReaderPc, rest : Seq(Message), topic : Topic \cup {None}]
      /\ reader'.pc = pc /\ reader'.rest = reader.rest /\ reader'.topic = reader.topic
    BY <1>1 DEF ReaderInv, ReaderTypes, ReaderPc
<1>4. ReaderPlace'
    BY <1>1, <1>3 DEF ReaderInv, ReaderPlace, Current
<1> QED
    BY <1>1, <1>2, <1>3, <1>4 DEF ReaderInv, ReaderTypes, Offers

LEMMA SendKeepsReaderInv ==
    ASSUME ReaderInv, Send
    PROVE  ReaderInv'
<1> DEFINE t == reader.topic
           value == Current.value
<1>1. reader.pc = "send" /\ reader' = NextMessage /\ UNCHANGED <<topics, offered>>
    BY DEF Send
<1>2. t \in Topic /\ value \in Value
    BY <1>1, CurrentMessage DEF ReaderInv, ReaderPlace
<1>3. handed' = [handed EXCEPT ![t] = value]
    BY DEF Send
<1>4. DOMAIN retained' = Topic
    BY DEF Send, ReaderInv, ReaderTypes
<1>5. handed' \in [Topic -> Value \cup {None}]
    BY <1>2, <1>3 DEF ReaderInv, ReaderTypes
<1>6. offered' = handed'
    <2>1. \A u \in Topic : offered[u] = handed'[u]
        BY <1>1, <1>2, <1>3 DEF ReaderInv, ReaderTypes, Offers
    <2> QED
        BY <1>1, <1>5, <2>1 DEF ReaderInv, ReaderTypes
<1>7. ReaderTypes' /\ ReaderPlace'
    BY <1>1, <1>4, <1>5, NextMessageType DEF ReaderInv, ReaderTypes, ReaderPlace
<1> QED
    BY <1>1, <1>6, <1>7, NextMessageType DEF ReaderInv, Offers

LEMMA TickKeepsReaderInv ==
    ASSUME ReaderInv, Tick
    PROVE  ReaderInv'
<1>1. UNCHANGED <<reader, retained, offered, handed>>
    BY DEF Tick
<1>2. ASSUME NEW t \in Topic
      PROVE  /\ topics'[t] \in [value : Value, age : 0..Window] \cup {None}
             /\ topics'[t] # None => topics[t] # None /\ topics'[t].value = topics[t].value
    <2>1. topics[t] \in [value : Value, age : 0..Window] \cup {None}
        BY DEF ReaderInv, ReaderTypes
    <2>2. CASE topics[t] # None /\ topics[t].age < Window
        <3>1. topics'[t] = [topics[t] EXCEPT !.age = @ + 1]
            BY <2>2 DEF Tick
        <3>2. topics[t].age + 1 \in 0..Window
            BY <2>1, <2>2, GatewayAssumption
        <3> QED
            BY <2>1, <2>2, <3>1, <3>2
    <2>3. CASE ~(topics[t] # None /\ topics[t].age < Window)
        BY <2>1, <2>3 DEF Tick
    <2> QED
        BY <2>2, <2>3
<1>3. topics' \in [Topic -> [value : Value, age : 0..Window] \cup {None}]
    <2>1. DOMAIN topics' = Topic /\ topics' = [t \in Topic |-> topics'[t]]
        BY DEF Tick
    <2> QED
        BY <1>2, <2>1
<1> QED
    BY <1>1, <1>2, <1>3 DEF ReaderInv, ReaderTypes, ReaderPlace, Offers, Current

LEMMA NextKeepsReaderInv ==
    ASSUME ReaderInv, RouteInv, [Next]_vars
    PROVE  ReaderInv'
<1>1. CASE EditConfig
    BY <1>1, ReaderInvStutter DEF EditConfig
<1>2. CASE LinkStep
    BY <1>2, ReaderInvStutter DEF LinkStep
<1>3. CASE ReloadStep
    <2>1. UNCHANGED readerVars
        BY <1>3 DEF ReloadStep, Reload, Raise, ClearRoutes, ClearActions, StoreRoute,
            RaiseInLoad, FinishReload
    <2> QED
        BY <2>1, ReaderInvStutter
<1>4. CASE OnMqttMessage \/ SendMessage
    BY <1>4, ReaderInvStutter DEF OnMqttMessage, SendMessage
<1>5. CASE ReaderStep
    BY <1>5, ReceiveKeepsReaderInv, LookupKeepsReaderInv, DynamicKeepsReaderInv,
       PublishKeepsReaderInv, SendKeepsReaderInv DEF ReaderStep
<1>6. CASE Tick
    BY <1>6, TickKeepsReaderInv
<1>7. CASE UNCHANGED vars
    BY <1>7, ReaderInvStutter DEF vars
<1> QED
    BY <1>1, <1>2, <1>3, <1>4, <1>5, <1>6, <1>7 DEF Next

LEMMA AlwaysReaderInv == Spec => []ReaderInv
<1> QED
    BY ReaderInvInit, NextKeepsReaderInv, AlwaysRouteInv, PTL DEF Spec

\* The removal of duplicates hides no change of value: the last value that
\* came for a topic is the last one the MQTT client got for it.
THEOREM DuplicatesCorrect == Spec => []NoChangeHidden
<1>1. ReaderInv => NoChangeHidden
    BY DEF ReaderInv, Offers, NoChangeHidden
<1> QED
    BY <1>1, AlwaysReaderInv, PTL

-----------------------------------------------------------------------------
(* The link under the gateway, and the commands *)

\* What the link guarantees alone, it guarantees under the gateway, because
\* the topics the gateway unsubscribes from are not start-up topics, until a
\* reload raises out of __on_connect; then again from the next __on_connect on.
ClientInv ==
    /\ LinkTypeOK
    /\ "startup" \notin missed => LinkSafe
    /\ missed \subseteq {"startup", "reload"}
    /\ subscribeTo \subseteq SetTopics(RouteTopic)
    /\ \A c \in {pending, command} :
        c = None \/ (c.topic \in CommandTopic /\ c.port \in Port)

LEMMA ClientInvInit == Init => ClientInv
<1> SUFFICES ASSUME Init PROVE ClientInv
    OBVIOUS
<1> DEFINE startup == SetTopics({t \in RouteTopic : ActionsOf(config)[t] # None})
<1>1. startup \subseteq SetTopics(RouteTopic) /\ startup \in SUBSET CommandTopic
    BY GatewayAssumption DEF SetTopics
<1>2. LinkInit(startup)
    BY DEF Init
<1>3. subscribeTo = startup /\ command = None /\ pending = None /\ missed = {}
    BY <1>2 DEF LinkInit, Init
<1>4. LinkSafe
    BY <1>1, <1>2, LinkInitSafe
<1> QED
    BY <1>1, <1>3, <1>4 DEF ClientInv, LinkSafe

LEMMA InputIsNoStartupTopic ==
    ASSUME ClientInv, NEW p
    PROVE  {InputTopic(p)} \cap subscribeTo = {}
<1>1. ASSUME NEW t PROVE InputTopic(p) # SetTopic(t)
    BY DEF InputTopic, Transform, SetTopic
<1> QED
    BY <1>1 DEF ClientInv, SetTopics

\* A step of the link keeps what it guarantees: what is missing while it is up
\* is made good by the next __on_connect.
LEMMA LinkStepKeepsClientInv ==
    ASSUME ClientInv, LinkStep
    PROVE  ClientInv'
<1>1. LinkTypeOK /\ missed \subseteq {"startup", "reload"}
    BY DEF ClientInv
<1>2. /\ UNCHANGED <<subscribeTo, pending, command>>
      /\ missed' \subseteq {"startup", "reload"}
    BY <1>1 DEF LinkStep, MainStep, NetworkStep, Connect, OnConnect, OnDisconnect,
        Retry, Cut, BrokerDrops, BrokerStop, BrokerStart, commandVars
<1>3. ASSUME LinkSafe' PROVE ClientInv'
    BY <1>2, <1>3 DEF ClientInv, LinkSafe
<1>4. CASE "startup" \notin missed \/ link # "up"
    <2>1. LinkSafe
        BY <1>4 DEF ClientInv, LinkSafe, StartupTopicsSubscribed, StatusWhileUp
    <2>2. LinkSafe'
        BY <2>1, MainStepSafe, NetworkStepSafe DEF LinkStep
    <2> QED
        BY <1>3, <2>2
<1>5. CASE "startup" \in missed /\ link = "up"
    <2>1. NetworkStep
        BY <1>5 DEF LinkStep, MainStep, Connect, OnConnect, OnDisconnect, Retry
    <2>2. LinkTypeOK' /\ link' \in {"up", "broken"}
        BY <1>1, <1>5, <2>1, LinkAssumption DEF NetworkStep, Cut, BrokerDrops, BrokerStop,
            BrokerStart, LinkTypeOK, LinkState, Carries, AfterLoss, AfterDisconnect, CleanSession
    <2>3. CASE link' = "up"
        <3>1. "startup" \in missed'
            BY <1>5, <2>3 DEF LinkStep
        <3> QED
            BY <1>2, <2>2, <3>1 DEF ClientInv
    <2>4. CASE link' = "broken"
        BY <1>3, <2>2, <2>4 DEF LinkSafe, StartupTopicsSubscribed, StatusWhileUp
    <2> QED
        BY <2>2, <2>3, <2>4
<1> QED
    BY <1>4, <1>5

\* A do_reload that raises ends a connection that is not up, or leaves
\* __on_connect: what it then lacks is on record.
LEMMA RaiseKeepsClientInv ==
    ASSUME ClientInv, Raise
    PROVE  ClientInv'
<1>1. /\ pending' = None
      /\ UNCHANGED <<broker, peer, session, subscribeTo, cuts, command>>
    BY DEF Raise
<1>2. CASE /\ link' = CASE link = "retry" -> "dead" [] link = "off" -> "exited" [] OTHER -> link
           /\ UNCHANGED <<status, missed>>
    <2>1. link' = link \/ link' \in {"dead", "exited"}
        BY <1>2
    <2> QED
        BY <1>1, <1>2, <2>1
        DEF ClientInv, LinkSafe, LinkTypeOK, LinkState, StartupTopicsSubscribed, StatusWhileUp
<1>3. CASE link' = "up" /\ status' \in {status, "1"} /\ missed' = {"startup", "reload"}
    BY <1>1, <1>3 DEF ClientInv, LinkTypeOK, LinkState
<1> QED
    BY <1>2, <1>3 DEF Raise

\* The subscriptions and unsubscriptions of the gateway keep it.
LEMMA SubscribingKeepsClientInv ==
    ASSUME ClientInv, NEW someTopics \in SUBSET CommandTopic,
           Subscribe(someTopics) \/ (Unsubscribe(someTopics) /\ someTopics \cap subscribeTo = {}),
           UNCHANGED <<broker, link, peer, status, subscribeTo, cuts, pending, command>>,
           "startup" \in missed' <=> "startup" \in missed,
           missed' \subseteq {"startup", "reload"}
    PROVE  ClientInv'
<1>1. LinkTypeOK'
    BY DEF ClientInv, LinkTypeOK, Subscribe, Unsubscribe
<1>2. "startup" \notin missed => LinkSafe'
    BY SubscribeSafe, UnsubscribeSafe DEF ClientInv
<1> QED
    BY <1>1, <1>2 DEF ClientInv

LEMMA NextKeepsClientInv ==
    ASSUME ClientInv, RouteInv, ReaderInv, [Next]_vars
    PROVE  ClientInv'
<1>1. ASSUME UNCHANGED <<linkVars, commandVars, missed>>
      PROVE  ClientInv'
    BY <1>1 DEF ClientInv, LinkSafe, LinkTypeOK, StartupTopicsSubscribed, StatusWhileUp,
        linkVars, commandVars
<1>2. CASE LinkStep
    BY <1>2, LinkStepKeepsClientInv
<1>3. CASE Reload \/ RaiseInLoad
    <2>1. Raise \/ UNCHANGED <<linkVars, commandVars, missed>>
        BY <1>3 DEF Reload, RaiseInLoad
    <2> QED
        BY <1>1, <2>1, RaiseKeepsClientInv
<1>4. CASE FinishReload
    <2>1. ActionTopics \in SUBSET CommandTopic
        BY GatewayAssumption DEF ActionTopics, SetTopics
    <2>2. /\ Subscribe(ActionTopics)
          /\ UNCHANGED <<broker, link, peer, status, subscribeTo, cuts, pending, command>>
          /\ missed' = IF Carries THEN missed \ {"reload"} ELSE missed \cup {"reload"}
        BY <1>4 DEF FinishReload, SubscriptionsSent, commandVars
    <2>3. missed \subseteq {"startup", "reload"}
        BY DEF ClientInv
    <2> QED
        BY <2>1, <2>2, <2>3, SubscribingKeepsClientInv
<1>5. CASE SubscribeInput \/ SubscribeDigital
    <2> DEFINE p == Current.port
    <2>1. reader.pc \in {"subscribe", "digital"}
        BY <1>5 DEF SubscribeInput, SubscribeDigital
    <2>2. p \in Port /\ DigitalPort(p) \in Port
        BY <2>1, CurrentMessage, GatewayAssumption DEF ReaderInv, ReaderPlace
    <2>3. {InputTopic(p)} \in SUBSET CommandTopic /\ {InputTopic(DigitalPort(p))} \in SUBSET CommandTopic
        BY <2>2, GatewayAssumption
    <2>4. {InputTopic(DigitalPort(p))} \cap subscribeTo = {}
        BY InputIsNoStartupTopic
    <2>5. /\ UNCHANGED <<broker, link, peer, status, subscribeTo, cuts, pending, command, missed>>
          /\ \/ Subscribe({InputTopic(p)})
             \/ Subscribe({InputTopic(DigitalPort(p))})
             \/ Unsubscribe({InputTopic(DigitalPort(p))})
        BY <1>5 DEF SubscribeInput, SubscribeDigital, commandVars
    <2>6. missed \subseteq {"startup", "reload"}
        BY DEF ClientInv
    <2> HIDE DEF p
    <2> QED
        BY <2>3, <2>4, <2>5, <2>6, SubscribingKeepsClientInv
<1>6. CASE OnMqttMessage \/ SendMessage
    <2>1. UNCHANGED <<linkVars, missed>>
        BY <1>6 DEF OnMqttMessage, SendMessage
    <2>2. \A c \in {pending', command'} :
            c = None \/ (c.topic \in CommandTopic /\ c.port \in Port)
        <3>1. CASE OnMqttMessage
            <4>1. command' = None
                BY <3>1 DEF OnMqttMessage
            <4>2. pending'.port \in Port /\ pending'.topic \in CommandTopic
                <5>1. PICK topic \in session :
                        /\ Target(topic) # None
                        /\ pending' = [topic |-> topic, port |-> Target(topic),
                                       by |-> IF nesting = "apart" THEN loaded ELSE None]
                    BY <3>1 DEF OnMqttMessage
                <5> QED
                    BY <5>1, TargetSource DEF ClientInv, LinkTypeOK
            <4> QED
                BY <4>1, <4>2
        <3>2. CASE SendMessage
            BY <3>2 DEF SendMessage, ClientInv
        <3> QED
            BY <1>6, <3>1, <3>2
    <2> QED
        BY <2>1, <2>2 DEF ClientInv, LinkSafe, LinkTypeOK, StartupTopicsSubscribed,
            StatusWhileUp, linkVars
<1> QED
    BY <1>1, <1>2, <1>3, <1>4, <1>5, <1>6
    DEF Next, ReloadStep, ReaderStep, EditConfig, ClearRoutes, ClearActions, StoreRoute,
        Receive, Lookup, MqttPublish, Send, Tick, vars

LEMMA AlwaysClientInv == Spec => []ClientInv
<1> QED
    BY ClientInvInit, NextKeepsClientInv, AlwaysRouteInv, AlwaysReaderInv, PTL DEF Spec

\* The types of all variables.
THEOREM TypeCorrect == Spec => []TypeOK
<1>1. RouteInv /\ ReaderInv /\ ClientInv => TypeOK
    BY DEF RouteInv, RouteTypes, ReaderInv, ReaderTypes, ClientInv, TypeOK
<1> QED
    BY <1>1, AlwaysRouteInv, AlwaysReaderInv, AlwaysClientInv, PTL

\* A connected gateway has its start-up subscriptions, also with the reader
\* thread unsubscribing and the reload subscribing on their own, unless a
\* reload raised out of the last __on_connect.
THEOREM SubscriptionsCorrect ==
    Spec => []("startup" \notin missed => StartupTopicsSubscribed)
<1>1. ClientInv => ("startup" \notin missed => StartupTopicsSubscribed)
    BY DEF ClientInv, LinkSafe
<1> QED
    BY <1>1, AlwaysClientInv, PTL

-----------------------------------------------------------------------------
(* The subscriptions of the routes *)

LoadedTopics == SetTopics({loaded[p] : p \in Routed(loaded)})

\* The loaded routes are subscribed to, or will be by the __on_connect that is
\* due.  A client without a connection lacks those of the last do_reload, but
\* before its first connection, when the routes are those of the start.
SessionInv ==
    /\ link = "off" => session = {}
    /\ link \in {"broken", "refused", "retry"} => "reload" \in missed
    /\ link \in {"off", "wait", "up"} /\ frames = <<>> /\ nesting = "apart"
            /\ loaded \notin Raising /\ "reload" \notin missed =>
        LoadedTopics \subseteq session \cup (IF link = "up" THEN {} ELSE subscribeTo)

LEMMA SessionInvInit == Init => SessionInv
<1> SUFFICES ASSUME Init PROVE SessionInv
    OBVIOUS
<1>1. link = "off" /\ session = {} /\ loaded = config /\ config \in Routes
    BY GatewayAssumption DEF Init, LinkInit
<1>2. subscribeTo = SetTopics({t \in RouteTopic : ActionsOf(config)[t] # None})
    BY DEF Init, LinkInit
<1>3. ASSUME NEW p \in Routed(config)
      PROVE  config[p] \in RouteTopic /\ ActionsOf(config)[config[p]] # None
    <2>1. p \in Port /\ config[p] \in RouteTopic
        BY <1>1, <1>3 DEF Routed, Routes
    <2>2. (CHOOSE q \in Port : config[q] = config[p]) \in Port
        BY <2>1, Zenon
    <2> QED
        BY <2>1, <2>2, GatewayAssumption DEF ActionsOf
<1>4. LoadedTopics \subseteq subscribeTo
    BY <1>1, <1>2, <1>3 DEF LoadedTopics, SetTopics
<1> QED
    BY <1>1, <1>4 DEF SessionInv

\* _actions holds every topic of a configuration that was loaded whole.
LEMMA ActionTopicsOfLoaded ==
    ASSUME RouteInv, FinishReload, nesting = "apart"
    PROVE  LoadedTopics \subseteq ActionTopics
<1>1. RouteInv'
    BY FinishKeepsRouteInv
<1>2. UNCHANGED <<routes, actions, loaded, nesting>> /\ frames # <<>>
    BY DEF FinishReload
<1>3. Len(frames) = 1 /\ Progress(frames[1], loaded, routes, actions)
    BY <1>2 DEF RouteInv
<1>4. LooksUp(actions, loaded, {})
    BY <1>3 DEF FinishReload, Top, Progress
<1>5. ASSUME NEW p \in Routed(loaded)
      PROVE  loaded[p] \in RouteTopic /\ actions[loaded[p]] # None
    <2>1. p \in Port /\ loaded[p] \in RouteTopic
        BY <1>5, GatewayAssumption DEF Routed, Routes, RouteInv, RouteTypes
    <2>2. actions[loaded[p]] = p
        BY <1>4, <2>1 DEF LooksUp
    <2> QED
        BY <2>1, <2>2, GatewayAssumption
<1> QED
    BY <1>5 DEF LoadedTopics, ActionTopics, SetTopics

LEMMA NextKeepsSessionInv ==
    ASSUME SessionInv, RouteInv, ReaderInv, ClientInv, [Next]_vars
    PROVE  SessionInv'
<1>1. ASSUME UNCHANGED <<link, session, subscribeTo, missed, loaded>>,
             frames' # <<>> \/ (UNCHANGED <<frames, nesting>>)
      PROVE  SessionInv'
    BY <1>1 DEF SessionInv, LoadedTopics
<1>2. CASE LinkStep
    <2>1. UNCHANGED <<frames, nesting, loaded, subscribeTo>>
        BY <1>2 DEF LinkStep, routeVars, MainStep, NetworkStep, Connect, OnConnect, OnDisconnect,
            Retry, Cut, BrokerDrops, BrokerStop, BrokerStart
    <2>2. LoadedTopics' = LoadedTopics
        BY <2>1 DEF LoadedTopics
    <2>3. \/ link = "off" /\ link' = "wait" /\ session' = {}
          \/ link = "wait" /\ link' = "up" /\ session' = session \cup subscribeTo
          \/ link = "retry" /\ link' = "wait" /\ "reload" \in missed'
          \/ link' \in {"broken", "refused", "retry", "dead", "exited"}
          \/ link' = link /\ (link = "off" => session' = {}) /\ (link \in {"wait", "up"} => session' = session)
        BY <1>2 DEF LinkStep, MainStep, NetworkStep, Connect, Accepted, Refused, OnConnect,
            OnDisconnect, Retry, Cut, BrokerDrops, BrokerStop, BrokerStart, Carries,
            AfterDisconnect, CleanSession, SessionInv
    <2>4. /\ link' \notin {"off", "wait", "up"} => "reload" \in missed'
          /\ "reload" \in missed => "reload" \in missed'
        BY <1>2 DEF LinkStep
    <2> QED
        BY <2>1, <2>2, <2>3, <2>4 DEF SessionInv
<1>3. CASE Reload \/ RaiseInLoad
    <2>1. CASE Raise
        <3>1. /\ UNCHANGED <<session, subscribeTo, loaded>>
              /\ \/ /\ link' = link \/ link' \in {"dead", "exited"}
                    /\ UNCHANGED missed
                 \/ link' = "up" /\ "reload" \in missed'
            BY <2>1 DEF Raise
        <3>2. \/ frames = <<>> /\ nesting' = nesting
              \/ nesting' = "nested"
              \/ loaded' \in Raising
            <4>1. CASE Reload
                <5>1. CASE config \in Configs
                    <6>1. frames' # <<>>
                        BY <4>1, <5>1, AppendProperties DEF Reload, RouteInv, RouteTypes
                    <6> QED
                        BY <2>1, <6>1 DEF Raise
                <5>2. CASE config \notin Configs
                    BY <4>1, <5>2 DEF Reload
                <5> QED
                    BY <5>1, <5>2
            <4>2. CASE RaiseInLoad /\ nesting = "apart"
                <5>1. Len(frames) = 1 /\ Progress(frames[1], loaded, routes, actions)
                    BY <4>2 DEF RaiseInLoad, RouteInv
                <5> QED
                    BY <3>1, <4>2, <5>1 DEF RaiseInLoad, Top, Progress
            <4>3. CASE RaiseInLoad /\ nesting # "apart"
                BY <4>3 DEF RaiseInLoad, RouteInv, RouteTypes
            <4> QED
                BY <1>3, <4>1, <4>2, <4>3
        <3>3. LoadedTopics' = LoadedTopics
            BY <3>1 DEF LoadedTopics
        <3> QED
            BY <3>1, <3>2, <3>3 DEF SessionInv
    <2>2. CASE ~Raise
        <3>1. /\ UNCHANGED <<link, session, subscribeTo, missed>>
              /\ \E f : frames' = Append(frames, f)
            BY <1>3, <2>2 DEF Reload, RaiseInLoad, linkVars
        <3>2. frames' # <<>>
            BY <3>1, AppendProperties DEF RouteInv, RouteTypes
        <3> QED
            BY <3>1, <3>2 DEF SessionInv
    <2> QED
        BY <2>1, <2>2
<1>4. CASE FinishReload
    <2>1. /\ Subscribe(ActionTopics) /\ SubscriptionsSent
          /\ UNCHANGED <<link, subscribeTo, loaded, nesting>>
        BY <1>4 DEF FinishReload
    <2>2. nesting = "apart" => LoadedTopics \subseteq ActionTopics
        BY <1>4, ActionTopicsOfLoaded
    <2>3. LoadedTopics' = LoadedTopics
        BY <2>1 DEF LoadedTopics
    <2> QED
        BY <2>1, <2>2, <2>3 DEF SessionInv, Subscribe, SubscriptionsSent, Carries
<1>5. CASE SubscribeInput \/ SubscribeDigital
    <2>1. PICK p :
            /\ Subscribe({InputTopic(p)}) \/ Unsubscribe({InputTopic(p)})
            /\ UNCHANGED <<link, subscribeTo, loaded, nesting, frames, missed>>
        BY <1>5 DEF SubscribeInput, SubscribeDigital, routeVars
    <2>2. \A t : InputTopic(p) # SetTopic(t)
        BY DEF InputTopic, Transform, SetTopic
    <2>3. InputTopic(p) \notin LoadedTopics
        BY <2>2 DEF LoadedTopics, SetTopics
    <2>4. LoadedTopics' = LoadedTopics
        BY <2>1 DEF LoadedTopics
    <2>5. /\ link = "off" => UNCHANGED session
          /\ \A t \in LoadedTopics : t \in session => t \in session'
        BY <2>1, <2>3 DEF Subscribe, Unsubscribe, Carries
    <2> QED
        BY <2>1, <2>4, <2>5 DEF SessionInv
<1>6. CASE ClearRoutes \/ ClearActions \/ \E p \in Port : StoreRoute(p)
    <2>1. /\ UNCHANGED <<link, session, subscribeTo, missed, loaded>>
          /\ frames # <<>>
          /\ \E f \in Frame : frames' = Append(SubSeq(frames, 1, Len(frames) - 1), f)
        <3>1. frames # <<>>
            BY <1>6 DEF ClearRoutes, ClearActions, StoreRoute
        <3>2. Top \in Frame
            BY <3>1, TopAndPop DEF Top, RouteInv, RouteTypes
        <3> QED
            BY <1>6, <3>1, <3>2 DEF ClearRoutes, ClearActions, StoreRoute, Pop, Frame, linkVars
    <2>2. frames' # <<>>
        BY <2>1, ReplaceTop DEF RouteInv, RouteTypes
    <2> QED
        BY <1>1, <2>1, <2>2
<1> QED
    BY <1>1, <1>2, <1>3, <1>4, <1>5, <1>6
    DEF Next, ReloadStep, ReaderStep, EditConfig, OnMqttMessage, SendMessage,
        Receive, Lookup, MqttPublish, Send, Tick, vars, linkVars, routeVars

\* While connected, every loaded route can be commanded, whatever the reader
\* unsubscribes from, and whenever in the making of the connection it was
\* loaded, unless its do_reload had no connection to subscribe on.
THEOREM RoutesSubscribed == Spec => []ReloadSubscribes
<1>1. SessionInv => ReloadSubscribes
    BY DEF SessionInv, LoadedTopics, ReloadSubscribes
<1> QED
    BY <1>1, SessionInvInit, NextKeepsSessionInv, AlwaysRouteInv, AlwaysReaderInv,
       AlwaysClientInv, PTL DEF Spec

-----------------------------------------------------------------------------
(* The broker's retained values *)

\* Before a connection was lost or refused, the client is only ever unconnected
\* before run() connects it; and what was given to it, the broker retains.
DeliveryInv ==
    cuts = 0 =>
        /\ link \in {"off", "exited", "wait", "up"}
        /\ reader.pc # "idle" => Carries
        /\ \A t \in Topic : handed[t] # None => retained[t] = Filtered(t, handed[t])

\* The connection is not given up before one is lost.
LEMMA LinkKeepsDelivery ==
    ASSUME DeliveryInv, LinkTypeOK, MainStep \/ NetworkStep, UNCHANGED readerVars
    PROVE  DeliveryInv'
<1>1. cuts \in Nat
    BY LinkAssumption DEF LinkTypeOK
<1>2. CASE UNCHANGED cuts
    <2> SUFFICES ASSUME cuts = 0 PROVE DeliveryInv'
        BY <1>2 DEF DeliveryInv
    <2>1. /\ link \in {"off", "exited", "wait", "up"}
          /\ reader.pc # "idle" => link \in {"wait", "up"}
        BY DEF DeliveryInv, Carries
    <2>2. /\ link' \in {"off", "exited", "wait", "up"}
          /\ link \in {"wait", "up"} => link' \in {"wait", "up"}
        BY <1>1, <1>2, <2>1 DEF MainStep, NetworkStep, Connect, OnConnect, OnDisconnect, Retry,
            Accepted, Refused, Cut, BrokerDrops, BrokerStop, BrokerStart
    <2> QED
        BY <1>2, <2>1, <2>2 DEF DeliveryInv, Carries, readerVars
<1>3. CASE cuts' = cuts + 1
    BY <1>1, <1>3 DEF DeliveryInv
<1>4. UNCHANGED cuts \/ cuts' = cuts + 1
    BY DEF MainStep, NetworkStep, Connect, OnConnect, OnDisconnect, Retry,
        Accepted, Refused, Cut, BrokerDrops, BrokerStop, BrokerStart
<1> QED
    BY <1>2, <1>3, <1>4

LEMMA NextKeepsDelivery ==
    ASSUME DeliveryInv, ReaderInv, ClientInv, [Next]_vars
    PROVE  DeliveryInv'
<1>1. CASE UNCHANGED <<link, cuts, reader, retained, handed>>
    BY <1>1 DEF DeliveryInv, Carries
<1>2. CASE LinkStep
    BY <1>2, LinkKeepsDelivery DEF LinkStep, ClientInv
<1>3. CASE Reload \/ RaiseInLoad
    <2>1. /\ \/ link' = link
             \/ link = "retry" /\ link' = "dead"
             \/ link = "off" /\ link' = "exited"
             \/ link = "wait" /\ link' = "up"
          /\ UNCHANGED <<cuts, reader, retained, handed>>
        BY <1>3 DEF Reload, RaiseInLoad, Raise, linkVars, readerVars
    <2> QED
        BY <2>1 DEF DeliveryInv, Carries
<1>4. CASE ReaderStep
    <2>1. UNCHANGED <<link, cuts>>
        BY <1>4 DEF ReaderStep, Receive, Lookup, SubscribeInput, SubscribeDigital,
            MqttPublish, Send, linkVars
    <2>2. CASE Send
        <3> DEFINE t == reader.topic
        <3>1. /\ reader.pc = "send"
              /\ retained' = IF Carries
                             THEN [retained EXCEPT ![t] = Filtered(t, Current.value)]
                             ELSE retained
              /\ handed' = [handed EXCEPT ![t] = Current.value]
            BY <2>2 DEF Send
        <3>2. DOMAIN retained = Topic /\ DOMAIN handed = Topic
            BY DEF ReaderInv, ReaderTypes
        <3> QED
            BY <2>1, <3>1, <3>2 DEF DeliveryInv, Carries
    <2>3. CASE ~Send
        <3>1. UNCHANGED <<retained, handed>>
            BY <1>4, <2>3 DEF ReaderStep, Receive, Lookup, SubscribeInput, SubscribeDigital,
                MqttPublish
        <3>2. reader.pc # "idle" \/ link \notin {"off", "exited"}
            BY <1>4 DEF ReaderStep, Receive, Lookup, SubscribeInput, SubscribeDigital,
                MqttPublish, Send
        <3> QED
            BY <2>1, <3>1, <3>2 DEF DeliveryInv, Carries
    <2> QED
        BY <2>2, <2>3
<1>5. \/ UNCHANGED <<link, cuts, reader, retained, handed>>
      \/ LinkStep \/ Reload \/ RaiseInLoad \/ ReaderStep
    BY DEF Next, EditConfig, ReloadStep, ClearRoutes, ClearActions, StoreRoute, FinishReload,
        OnMqttMessage, SendMessage, Tick, vars, linkVars, readerVars
<1> QED
    BY <1>1, <1>2, <1>3, <1>4, <1>5

\* Until a connection is lost, the broker shows the last value of every port,
\* as the processor makes it, duplicates dropped or not.
THEOREM BrokerCorrect == Spec => []BrokerShowsLastValue
<1>1. Init => DeliveryInv
    BY DEF Init, LinkInit, Idle, DeliveryInv
<1>2. ReaderInv /\ DeliveryInv => BrokerShowsLastValue
    BY DEF ReaderInv, ReaderTypes, Offers, DeliveryInv, BrokerShowsLastValue
<1> QED
    BY <1>1, <1>2, NextKeepsDelivery, AlwaysReaderInv, AlwaysClientInv, PTL DEF Spec
=============================================================================
