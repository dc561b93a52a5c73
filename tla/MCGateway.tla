------------------------------ MODULE MCGateway ------------------------------
(* One radio with a pin, seen as a digital sample and as a pin report, and   *)
(* with the two ports of an identification; two topics to route them to.     *)
EXTENDS Gateway, TLC

CONSTANTS r1, r2, Unreadable

Dio == [node |-> "n", kind |-> "dio", num |-> 3]
Pin == [node |-> "n", kind |-> "pin", num |-> 3]
Seen == [node |-> "n", kind |-> "seen", num |-> 0]
Alias == [node |-> "n", kind |-> "alias", num |-> 0]

MCPort == {Dio, Pin}
MCRouteTopic == {r1, r2}

Msg(p, v) == [port |-> p, value |-> v]

\* Samples of the pin in both states, reports of it as output and as input.
MCPackets == {<<Msg(Dio, 0)>>, <<Msg(Dio, 1)>>, <<Msg(Pin, 4)>>, <<Msg(Pin, 3)>>}

\* Two radios, for the run about the routes: samples of a pin of one, the alias
\* of the other.  Which topics they go to matters, their values do not.
OtherAlias == [Alias EXCEPT !.node = "m"]
RoutingPort == {Dio, OtherAlias}
RoutingPackets == {<<Msg(Dio, 1)>>}

\* Going from one to the other moves a route, adds or drops one, and gives a
\* topic to another port.  Of the last, load() stores the routes of none, either
\* or both radios before it raises.
Cfg(d, a) == Dio :> d @@ OtherAlias :> a
RoutingRaising == {Cfg(r2, r1)}
RoutingConfigs == {Cfg(r1, None), Cfg(None, r2)} \cup RoutingRaising

\* One configuration that never changes, with a route and unrouted ports.
OneConfig == {Dio :> r1 @@ Pin :> None}
NoRaising == {}

\* What the file holds: a configuration, or something half written.
ReadableFiles == Configs
MCFiles == Configs \cup {Unreadable}

\* A filter that makes one value of two.
MCFiltered(t, v) == IF v \in {0, 4} THEN 10 ELSE 11

MCCommandTopic ==
    SetTopics(RouteTopic) \cup {InputTopic(p) : p \in Port}

\* What a command looked up and not yet sent is worth: nothing else of it
\* matters until it is sent, and then only to CommandMatchesRoute.
PendingMatches ==
    pending # None /\ pending.by # None =>
        pending.topic \in {InputTopic(pending.port), SetTopic(pending.by[pending.port])}

\* For the run about the routes: what was published, the broker's record of the
\* client and the last command change nothing else there (the window is 0), nor
\* do the routes and what was loaded once a nested reload made a mixture of them,
\* until the next one begins by clearing it: states that differ in those only
\* are one.
RoutingView ==
    <<broker, link, session, subscribeTo, cuts, config, actions, frames, nesting,
      IF nesting = "apart" THEN <<routes, loaded>> ELSE <<>>,
      reader.pc, pending # None, PendingMatches, missed>>
=============================================================================
