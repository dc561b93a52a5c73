------------------------- MODULE DomoticzMqttProofs -------------------------
(* The types, PublishedOnce and GivenUpOnlyByTls, for any number of senders. *)
EXTENDS DomoticzMqtt, TLAPS

-----------------------------------------------------------------------------
(* The types *)

LEMMA TypeInit == Init => TypeOK
  <1>1. Init => FlagsTyped  BY Zenon DEF Init, FlagsTyped
  <1>2. Init => StateTyped
    BY MqttAssumption DEF Init, StateTyped, Steps, Events, SenderSteps
  <1>. QED  BY <1>1, <1>2 DEF TypeOK

LEMMA TypeStep ==
    ASSUME TypeOK, PublishedOnce, [Next]_vars
    PROVE  TypeOK'
  <1>. USE MqttAssumption
  <1>1. CASE ConnectInt
    <2>1. FlagsTyped'
      BY <1>1, Zenon DEF TypeOK, FlagsTyped, ConnectInt, ConnectIntEx, Opened, RetryLater, linkVars, flagVars, lockVars, boundVars, stopVars
    <2>2. StateTyped'
      BY <1>1 DEF TypeOK, PublishedOnce, StateTyped, Steps, Events, SenderSteps, ConnectInt, ConnectIntEx, Opened, RetryLater, linkVars, flagVars, lockVars, boundVars, stopVars
    <2>. QED
      BY <2>1, <2>2 DEF TypeOK
  <1>2. CASE Timer
    <2>1. FlagsTyped'
      BY <1>2, Zenon DEF TypeOK, FlagsTyped, Timer, Due, ConnectIntEx, Opened, RetryLater, linkVars, flagVars, lockVars, boundVars, stopVars
    <2>2. StateTyped'
      BY <1>2 DEF TypeOK, PublishedOnce, StateTyped, Steps, Events, SenderSteps, Timer, Due, ConnectIntEx, Opened, RetryLater, linkVars, flagVars, lockVars, boundVars, stopVars
    <2>. QED
      BY <2>1, <2>2 DEF TypeOK
  <1>3. CASE Turn
    <2>1. FlagsTyped'
      BY <1>3, Zenon DEF TypeOK, FlagsTyped, Turn, Stops, flagVars, linkVars, lockVars, boundVars, stopVars
    <2>2. StateTyped'
      BY <1>3 DEF TypeOK, PublishedOnce, StateTyped, Steps, Events, SenderSteps, Turn, Stops, flagVars, linkVars, lockVars, boundVars, stopVars
    <2>. QED
      BY <2>1, <2>2 DEF TypeOK
  <1>4. CASE ReadAccepted
    <2>1. FlagsTyped'
      BY <1>4, Zenon DEF TypeOK, FlagsTyped, ReadAccepted, Reads, flagVars, linkVars, lockVars, boundVars, stopVars
    <2>2. StateTyped'
      BY <1>4 DEF TypeOK, PublishedOnce, StateTyped, Steps, Events, SenderSteps, ReadAccepted, Reads, flagVars, linkVars, lockVars, boundVars, stopVars
    <2>. QED
      BY <2>1, <2>2 DEF TypeOK
  <1>5. CASE ReadRefused
    <2>1. FlagsTyped'
      BY <1>5, Zenon DEF TypeOK, FlagsTyped, ReadRefused, Reads, flagVars, linkVars, lockVars, boundVars, stopVars
    <2>2. StateTyped'
      BY <1>5 DEF TypeOK, PublishedOnce, StateTyped, Steps, Events, SenderSteps, ReadRefused, Reads, flagVars, linkVars, lockVars, boundVars, stopVars
    <2>. QED
      BY <2>1, <2>2 DEF TypeOK
  <1>6. CASE ReadMessage
    <2>1. FlagsTyped'
      BY <1>6, Zenon DEF TypeOK, FlagsTyped, ReadMessage, Reads, flagVars, linkVars, lockVars, boundVars, stopVars
    <2>2. StateTyped'
      BY <1>6 DEF TypeOK, PublishedOnce, StateTyped, Steps, Events, SenderSteps, ReadMessage, Reads, flagVars, linkVars, lockVars, boundVars, stopVars
    <2>. QED
      BY <2>1, <2>2 DEF TypeOK
  <1>7. CASE ReadLost
    <2>1. FlagsTyped'
      BY <1>7, Zenon DEF TypeOK, FlagsTyped, ReadLost, Reads, flagVars, linkVars, lockVars, boundVars, stopVars
    <2>2. StateTyped'
      BY <1>7 DEF TypeOK, PublishedOnce, StateTyped, Steps, Events, SenderSteps, ReadLost, Reads, flagVars, linkVars, lockVars, boundVars, stopVars
    <2>. QED
      BY <2>1, <2>2 DEF TypeOK
  <1>8. CASE HandshakeFails
    <2>1. FlagsTyped'
      BY <1>8, Zenon DEF TypeOK, FlagsTyped, HandshakeFails, Opened, flagVars, linkVars, lockVars, boundVars, stopVars
    <2>2. StateTyped'
      BY <1>8 DEF TypeOK, PublishedOnce, StateTyped, Steps, Events, SenderSteps, HandshakeFails, Opened, flagVars, linkVars, lockVars, boundVars, stopVars
    <2>. QED
      BY <2>1, <2>2 DEF TypeOK
  <1>9. CASE ReadNothing
    <2>1. FlagsTyped'
      BY <1>9, Zenon DEF TypeOK, FlagsTyped, ReadNothing, flagVars, linkVars, lockVars, boundVars, stopVars
    <2>2. StateTyped'
      BY <1>9 DEF TypeOK, PublishedOnce, StateTyped, Steps, Events, SenderSteps, ReadNothing, flagVars, linkVars, lockVars, boundVars, stopVars
    <2>. QED
      BY <2>1, <2>2 DEF TypeOK
  <1>10. CASE ShortCallback
    <2>1. FlagsTyped'
      BY <1>10, Zenon DEF TypeOK, FlagsTyped, ShortCallback, Connected, Refused, Disconnected, flagVars, linkVars, lockVars, boundVars, stopVars
    <2>2. StateTyped'
      BY <1>10 DEF TypeOK, PublishedOnce, StateTyped, Steps, Events, SenderSteps, ShortCallback, Connected, Refused, Disconnected, flagVars, linkVars, lockVars, boundVars, stopVars
    <2>. QED
      BY <2>1, <2>2 DEF TypeOK
  <1>11. CASE EnterCallback
    <2>1. FlagsTyped'
      BY <1>11, Zenon DEF TypeOK, FlagsTyped, EnterCallback, flagVars, linkVars, lockVars, boundVars, stopVars
    <2>2. StateTyped'
      BY <1>11 DEF TypeOK, PublishedOnce, StateTyped, Steps, Events, SenderSteps, EnterCallback, flagVars, linkVars, lockVars, boundVars, stopVars
    <2>. QED
      BY <2>1, <2>2 DEF TypeOK
  <1>12. CASE OnMessage
    <2>1. FlagsTyped'
      BY <1>12, Zenon DEF TypeOK, FlagsTyped, OnMessage, flagVars, linkVars, lockVars, boundVars, stopVars
    <2>2. StateTyped'
      BY <1>12 DEF TypeOK, PublishedOnce, StateTyped, Steps, Events, SenderSteps, OnMessage, flagVars, linkVars, lockVars, boundVars, stopVars
    <2>. QED
      BY <2>1, <2>2 DEF TypeOK
  <1>13. CASE SendFromCallback
    <2>1. FlagsTyped'
      BY <1>13, Zenon DEF TypeOK, FlagsTyped, SendFromCallback, flagVars, linkVars, lockVars, boundVars, stopVars
    <2>2. StateTyped'
      BY <1>13 DEF TypeOK, PublishedOnce, StateTyped, Steps, Events, SenderSteps, SendFromCallback, flagVars, linkVars, lockVars, boundVars, stopVars
    <2>. QED
      BY <2>1, <2>2 DEF TypeOK
  <1>14. CASE AwaitWorker
    <2>1. FlagsTyped'
      BY <1>14, Zenon DEF TypeOK, FlagsTyped, AwaitWorker, flagVars, linkVars, lockVars, boundVars, stopVars
    <2>2. StateTyped'
      BY <1>14 DEF TypeOK, PublishedOnce, StateTyped, Steps, Events, SenderSteps, AwaitWorker, flagVars, linkVars, lockVars, boundVars, stopVars
    <2>. QED
      BY <2>1, <2>2 DEF TypeOK
  <1>15. CASE LeaveCallback
    <2>1. FlagsTyped'
      BY <1>15, Zenon DEF TypeOK, FlagsTyped, LeaveCallback, flagVars, linkVars, lockVars, boundVars, stopVars
    <2>2. StateTyped'
      BY <1>15 DEF TypeOK, PublishedOnce, StateTyped, Steps, Events, SenderSteps, LeaveCallback, flagVars, linkVars, lockVars, boundVars, stopVars
    <2>. QED
      BY <2>1, <2>2 DEF TypeOK
  <1>16. CASE LoopWrites
    <2>1. FlagsTyped'
      BY <1>16, Zenon DEF TypeOK, FlagsTyped, LoopWrites, flagVars, linkVars, lockVars, boundVars, stopVars
    <2>2. StateTyped'
      BY <1>16 DEF TypeOK, PublishedOnce, StateTyped, Steps, Events, SenderSteps, LoopWrites, flagVars, linkVars, lockVars, boundVars, stopVars
    <2>. QED
      BY <2>1, <2>2 DEF TypeOK
  <1>17. ASSUME NEW s \in Senders, Signal(s) PROVE TypeOK'
    <2>1. FlagsTyped'
      BY <1>17, Zenon DEF TypeOK, FlagsTyped, Signal, SenderGoes, flagVars, linkVars, lockVars, boundVars, stopVars
    <2>2. StateTyped'
      BY <1>17 DEF TypeOK, PublishedOnce, StateTyped, Steps, Events, SenderSteps, Signal, SenderGoes, flagVars, linkVars, lockVars, boundVars, stopVars
    <2>. QED
      BY <2>1, <2>2 DEF TypeOK
  <1>18. ASSUME NEW s \in Senders, Lock(s) PROVE TypeOK'
    <2>1. FlagsTyped'
      BY <1>18, Zenon DEF TypeOK, FlagsTyped, Lock, SenderGoes, flagVars, linkVars, lockVars, boundVars, stopVars
    <2>2. StateTyped'
      BY <1>18 DEF TypeOK, PublishedOnce, StateTyped, Steps, Events, SenderSteps, Lock, SenderGoes, flagVars, linkVars, lockVars, boundVars, stopVars
    <2>. QED
      BY <2>1, <2>2 DEF TypeOK
  <1>19. ASSUME NEW s \in Senders, Publish(s) PROVE TypeOK'
    <2>1. FlagsTyped'
      BY <1>19, Zenon DEF TypeOK, FlagsTyped, Publish, SenderGoes, flagVars, linkVars, lockVars, boundVars, stopVars
    <2>2. StateTyped'
      BY <1>19 DEF TypeOK, PublishedOnce, StateTyped, Steps, Events, SenderSteps, Publish, SenderGoes, flagVars, linkVars, lockVars, boundVars, stopVars
    <2>. QED
      BY <2>1, <2>2 DEF TypeOK
  <1>20. ASSUME NEW s \in Senders, BeginWrite(s) PROVE TypeOK'
    <2>1. FlagsTyped'
      BY <1>20, Zenon DEF TypeOK, FlagsTyped, BeginWrite, SenderGoes, flagVars, linkVars, lockVars, boundVars, stopVars
    <2>2. StateTyped'
      BY <1>20 DEF TypeOK, PublishedOnce, StateTyped, Steps, Events, SenderSteps, BeginWrite, SenderGoes, flagVars, linkVars, lockVars, boundVars, stopVars
    <2>. QED
      BY <2>1, <2>2 DEF TypeOK
  <1>21. ASSUME NEW s \in Senders, EndWrite(s) PROVE TypeOK'
    <2>1. FlagsTyped'
      BY <1>21, Zenon DEF TypeOK, FlagsTyped, EndWrite, SenderGoes, flagVars, linkVars, lockVars, boundVars, stopVars
    <2>2. StateTyped'
      BY <1>21 DEF TypeOK, PublishedOnce, StateTyped, Steps, Events, SenderSteps, EndWrite, SenderGoes, flagVars, linkVars, lockVars, boundVars, stopVars
    <2>. QED
      BY <2>1, <2>2 DEF TypeOK
  <1>22. ASSUME NEW s \in Senders, WriteFails(s) PROVE TypeOK'
    <2>1. FlagsTyped'
      BY <1>22, Zenon DEF TypeOK, FlagsTyped, WriteFails, SenderGoes, AfterError, flagVars, linkVars, lockVars, boundVars, stopVars
    <2>2. StateTyped'
      BY <1>22 DEF TypeOK, PublishedOnce, StateTyped, Steps, Events, SenderSteps, WriteFails, SenderGoes, AfterError, flagVars, linkVars, lockVars, boundVars, stopVars
    <2>. QED
      BY <2>1, <2>2 DEF TypeOK
  <1>23. ASSUME NEW s \in Senders, Unlock(s) PROVE TypeOK'
    <2>1. FlagsTyped'
      BY <1>23, Zenon DEF TypeOK, FlagsTyped, Unlock, SenderGoes, Answered, flagVars, linkVars, lockVars, boundVars, stopVars
    <2>2. StateTyped'
      BY <1>23 DEF TypeOK, PublishedOnce, StateTyped, Steps, Events, SenderSteps, Unlock, SenderGoes, Answered, flagVars, linkVars, lockVars, boundVars, stopVars
    <2>. QED
      BY <2>1, <2>2 DEF TypeOK
  <1>24. CASE EndStop
    <2>1. FlagsTyped'
      BY <1>24, Zenon DEF TypeOK, FlagsTyped, EndStop, Unhook, flagVars, linkVars, lockVars, boundVars, stopVars
    <2>2. StateTyped'
      BY <1>24 DEF TypeOK, PublishedOnce, StateTyped, Steps, Events, SenderSteps, EndStop, Unhook, flagVars, linkVars, lockVars, boundVars, stopVars
    <2>. QED
      BY <2>1, <2>2 DEF TypeOK
  <1>25. CASE RequestStop
    <2>1. FlagsTyped'
      BY <1>25, Zenon DEF TypeOK, FlagsTyped, RequestStop, flagVars, linkVars, lockVars, boundVars, stopVars
    <2>2. StateTyped'
      BY <1>25 DEF TypeOK, PublishedOnce, StateTyped, Steps, Events, SenderSteps, RequestStop, flagVars, linkVars, lockVars, boundVars, stopVars
    <2>. QED
      BY <2>1, <2>2 DEF TypeOK
  <1>26. CASE Cut
    <2>1. FlagsTyped'
      BY <1>26, Zenon DEF TypeOK, FlagsTyped, Cut, flagVars, linkVars, lockVars, boundVars, stopVars
    <2>2. StateTyped'
      BY <1>26 DEF TypeOK, PublishedOnce, StateTyped, Steps, Events, SenderSteps, Cut, flagVars, linkVars, lockVars, boundVars, stopVars
    <2>. QED
      BY <2>1, <2>2 DEF TypeOK
  <1>27. CASE BrokerStarts
    <2>1. FlagsTyped'
      BY <1>27, Zenon DEF TypeOK, FlagsTyped, BrokerStarts, flagVars, linkVars, lockVars, boundVars, stopVars
    <2>2. StateTyped'
      BY <1>27 DEF TypeOK, PublishedOnce, StateTyped, Steps, Events, SenderSteps, BrokerStarts, flagVars, linkVars, lockVars, boundVars, stopVars
    <2>. QED
      BY <2>1, <2>2 DEF TypeOK
  <1>28. CASE UNCHANGED vars
    <2>1. FlagsTyped'
      BY <1>28, Zenon DEF TypeOK, FlagsTyped, vars, flagVars, linkVars, lockVars, boundVars, stopVars
    <2>2. StateTyped'
      BY <1>28 DEF TypeOK, PublishedOnce, StateTyped, Steps, Events, SenderSteps, vars, flagVars, linkVars, lockVars, boundVars, stopVars
    <2>. QED
      BY <2>1, <2>2 DEF TypeOK
  <1>. QED
    BY <1>1, <1>2, <1>3, <1>4, <1>5, <1>6, <1>7, <1>8, <1>9, <1>10, <1>11,
         <1>12, <1>13, <1>14, <1>15, <1>16, <1>17, <1>18, <1>19, <1>20,
         <1>21, <1>22, <1>23, <1>24, <1>25, <1>26, <1>27, <1>28
    DEF Next, MqttStep, Reading, SenderStep, Environment

-----------------------------------------------------------------------------
(* SendDeviceInfo is connected while m_IsConnected holds *)

LEMMA SlotsStep ==
    ASSUME TypeOK, PublishedOnce, [Next]_vars
    PROVE  PublishedOnce'
  <1>1. CASE ConnectInt
    BY <1>1 DEF PublishedOnce, TypeOK, StateTyped, FlagsTyped, ConnectInt, ConnectIntEx, Opened, RetryLater, linkVars, flagVars, lockVars, boundVars, stopVars
  <1>2. CASE Timer
    BY <1>2 DEF PublishedOnce, TypeOK, StateTyped, FlagsTyped, Timer, Due, ConnectIntEx, Opened, RetryLater, linkVars, flagVars, lockVars, boundVars, stopVars
  <1>3. CASE Turn
    BY <1>3 DEF PublishedOnce, TypeOK, StateTyped, FlagsTyped, Turn, Stops, flagVars, linkVars, lockVars, boundVars, stopVars
  <1>4. CASE ReadAccepted
    BY <1>4 DEF PublishedOnce, TypeOK, StateTyped, FlagsTyped, ReadAccepted, Reads, flagVars, linkVars, lockVars, boundVars, stopVars
  <1>5. CASE ReadRefused
    BY <1>5 DEF PublishedOnce, TypeOK, StateTyped, FlagsTyped, ReadRefused, Reads, flagVars, linkVars, lockVars, boundVars, stopVars
  <1>6. CASE ReadMessage
    BY <1>6 DEF PublishedOnce, TypeOK, StateTyped, FlagsTyped, ReadMessage, Reads, flagVars, linkVars, lockVars, boundVars, stopVars
  <1>7. CASE ReadLost
    BY <1>7 DEF PublishedOnce, TypeOK, StateTyped, FlagsTyped, ReadLost, Reads, flagVars, linkVars, lockVars, boundVars, stopVars
  <1>8. CASE HandshakeFails
    BY <1>8 DEF PublishedOnce, TypeOK, StateTyped, FlagsTyped, HandshakeFails, Opened, flagVars, linkVars, lockVars, boundVars, stopVars
  <1>9. CASE ReadNothing
    BY <1>9 DEF PublishedOnce, TypeOK, StateTyped, FlagsTyped, ReadNothing, flagVars, linkVars, lockVars, boundVars, stopVars
  <1>10. CASE ShortCallback
    BY <1>10 DEF PublishedOnce, TypeOK, StateTyped, FlagsTyped, ShortCallback, Connected, Refused, Disconnected, flagVars, linkVars, lockVars, boundVars, stopVars
  <1>11. CASE EnterCallback
    BY <1>11 DEF PublishedOnce, TypeOK, StateTyped, FlagsTyped, EnterCallback, flagVars, linkVars, lockVars, boundVars, stopVars
  <1>12. CASE OnMessage
    BY <1>12 DEF PublishedOnce, TypeOK, StateTyped, FlagsTyped, OnMessage, flagVars, linkVars, lockVars, boundVars, stopVars
  <1>13. CASE SendFromCallback
    BY <1>13 DEF PublishedOnce, TypeOK, StateTyped, FlagsTyped, SendFromCallback, flagVars, linkVars, lockVars, boundVars, stopVars
  <1>14. CASE AwaitWorker
    BY <1>14 DEF PublishedOnce, TypeOK, StateTyped, FlagsTyped, AwaitWorker, flagVars, linkVars, lockVars, boundVars, stopVars
  <1>15. CASE LeaveCallback
    BY <1>15 DEF PublishedOnce, TypeOK, StateTyped, FlagsTyped, LeaveCallback, flagVars, linkVars, lockVars, boundVars, stopVars
  <1>16. CASE LoopWrites
    BY <1>16 DEF PublishedOnce, TypeOK, StateTyped, FlagsTyped, LoopWrites, flagVars, linkVars, lockVars, boundVars, stopVars
  <1>17. ASSUME NEW s \in Senders, Signal(s) PROVE PublishedOnce'
    BY <1>17 DEF PublishedOnce, TypeOK, StateTyped, FlagsTyped, Signal, SenderGoes, flagVars, linkVars, lockVars, boundVars, stopVars
  <1>18. ASSUME NEW s \in Senders, Lock(s) PROVE PublishedOnce'
    BY <1>18 DEF PublishedOnce, TypeOK, StateTyped, FlagsTyped, Lock, SenderGoes, flagVars, linkVars, lockVars, boundVars, stopVars
  <1>19. ASSUME NEW s \in Senders, Publish(s) PROVE PublishedOnce'
    BY <1>19 DEF PublishedOnce, TypeOK, StateTyped, FlagsTyped, Publish, SenderGoes, flagVars, linkVars, lockVars, boundVars, stopVars
  <1>20. ASSUME NEW s \in Senders, BeginWrite(s) PROVE PublishedOnce'
    BY <1>20 DEF PublishedOnce, TypeOK, StateTyped, FlagsTyped, BeginWrite, SenderGoes, flagVars, linkVars, lockVars, boundVars, stopVars
  <1>21. ASSUME NEW s \in Senders, EndWrite(s) PROVE PublishedOnce'
    BY <1>21 DEF PublishedOnce, TypeOK, StateTyped, FlagsTyped, EndWrite, SenderGoes, flagVars, linkVars, lockVars, boundVars, stopVars
  <1>22. ASSUME NEW s \in Senders, WriteFails(s) PROVE PublishedOnce'
    BY <1>22 DEF PublishedOnce, TypeOK, StateTyped, FlagsTyped, WriteFails, SenderGoes, AfterError, flagVars, linkVars, lockVars, boundVars, stopVars
  <1>23. ASSUME NEW s \in Senders, Unlock(s) PROVE PublishedOnce'
    BY <1>23 DEF PublishedOnce, TypeOK, StateTyped, FlagsTyped, Unlock, SenderGoes, Answered, flagVars, linkVars, lockVars, boundVars, stopVars
  <1>24. CASE EndStop
    BY <1>24 DEF PublishedOnce, TypeOK, StateTyped, FlagsTyped, EndStop, Unhook, flagVars, linkVars, lockVars, boundVars, stopVars
  <1>25. CASE RequestStop
    BY <1>25 DEF PublishedOnce, TypeOK, StateTyped, FlagsTyped, RequestStop, flagVars, linkVars, lockVars, boundVars, stopVars
  <1>26. CASE Cut
    BY <1>26 DEF PublishedOnce, TypeOK, StateTyped, FlagsTyped, Cut, flagVars, linkVars, lockVars, boundVars, stopVars
  <1>27. CASE BrokerStarts
    BY <1>27 DEF PublishedOnce, TypeOK, StateTyped, FlagsTyped, BrokerStarts, flagVars, linkVars, lockVars, boundVars, stopVars
  <1>28. CASE UNCHANGED vars
    BY <1>28 DEF PublishedOnce, TypeOK, StateTyped, FlagsTyped, vars, flagVars, linkVars, lockVars, boundVars, stopVars
  <1>. QED
    BY <1>1, <1>2, <1>3, <1>4, <1>5, <1>6, <1>7, <1>8, <1>9, <1>10, <1>11,
         <1>12, <1>13, <1>14, <1>15, <1>16, <1>17, <1>18, <1>19, <1>20,
         <1>21, <1>22, <1>23, <1>24, <1>25, <1>26, <1>27, <1>28
    DEF Next, MqttStep, Reading, SenderStep, Environment

\* The two invariants need each other: connecting adds a slot.
LEMMA SlotsHold == Spec => [](TypeOK /\ PublishedOnce)
  <1>1. Init => PublishedOnce  BY DEF Init, PublishedOnce
  <1>2. TypeOK /\ PublishedOnce /\ [Next]_vars => (TypeOK /\ PublishedOnce)'
    BY TypeStep, SlotsStep
  <1>. QED  BY <1>1, <1>2, TypeInit, PTL DEF Spec

\* The variables keep their types: SendDeviceInfo is never connected twice to
\* the signal, and current_out_packet_mutex belongs to senders only.
THEOREM TypesHold == Spec => []TypeOK
  <1>. QED  BY SlotsHold, PTL

\* A device is published once, however often the link comes and goes.
THEOREM OncePerDevice == Spec => []PublishedOnce
  <1>. QED  BY SlotsHold, PTL

-----------------------------------------------------------------------------
(* What gives the link up *)

\* Where Do_Work is says whether there is a socket; a retry is only asked for
\* when there is none.
LinkInv ==
    /\ step = "first" => sock = "closed"
    /\ step \in {"select", "handler", "want", "await", "leave", "write"} => sock # "closed"
    /\ step = "callback" => /\ event # "none"
                           /\ event = "lost" <=> sock = "closed"
    /\ m_bDoReconnect => sock = "closed"

LEMMA LinkStep ==
    ASSUME TypeOK, LinkInv, [Next]_vars
    PROVE  LinkInv'
  <1>1. CASE ConnectInt
    BY <1>1 DEF LinkInv, TypeOK, StateTyped, FlagsTyped, Events, Steps, ConnectInt, ConnectIntEx, Opened, RetryLater, linkVars, flagVars, lockVars, boundVars, stopVars
  <1>2. CASE Timer
    BY <1>2 DEF LinkInv, TypeOK, StateTyped, FlagsTyped, Events, Steps, Timer, Due, ConnectIntEx, Opened, RetryLater, linkVars, flagVars, lockVars, boundVars, stopVars
  <1>3. CASE Turn
    BY <1>3 DEF LinkInv, TypeOK, StateTyped, FlagsTyped, Events, Steps, Turn, Stops, flagVars, linkVars, lockVars, boundVars, stopVars
  <1>4. CASE ReadAccepted
    BY <1>4 DEF LinkInv, TypeOK, StateTyped, FlagsTyped, Events, Steps, ReadAccepted, Reads, flagVars, linkVars, lockVars, boundVars, stopVars
  <1>5. CASE ReadRefused
    BY <1>5 DEF LinkInv, TypeOK, StateTyped, FlagsTyped, Events, Steps, ReadRefused, Reads, flagVars, linkVars, lockVars, boundVars, stopVars
  <1>6. CASE ReadMessage
    BY <1>6 DEF LinkInv, TypeOK, StateTyped, FlagsTyped, Events, Steps, ReadMessage, Reads, flagVars, linkVars, lockVars, boundVars, stopVars
  <1>7. CASE ReadLost
    BY <1>7 DEF LinkInv, TypeOK, StateTyped, FlagsTyped, Events, Steps, ReadLost, Reads, flagVars, linkVars, lockVars, boundVars, stopVars
  <1>8. CASE HandshakeFails
    BY <1>8 DEF LinkInv, TypeOK, StateTyped, FlagsTyped, Events, Steps, HandshakeFails, Opened, flagVars, linkVars, lockVars, boundVars, stopVars
  <1>9. CASE ReadNothing
    BY <1>9 DEF LinkInv, TypeOK, StateTyped, FlagsTyped, Events, Steps, ReadNothing, flagVars, linkVars, lockVars, boundVars, stopVars
  <1>10. CASE ShortCallback
    BY <1>10 DEF LinkInv, TypeOK, StateTyped, FlagsTyped, Events, Steps, ShortCallback, Connected, Refused, Disconnected, flagVars, linkVars, lockVars, boundVars, stopVars
  <1>11. CASE EnterCallback
    BY <1>11 DEF LinkInv, TypeOK, StateTyped, FlagsTyped, Events, Steps, EnterCallback, flagVars, linkVars, lockVars, boundVars, stopVars
  <1>12. CASE OnMessage
    BY <1>12 DEF LinkInv, TypeOK, StateTyped, FlagsTyped, Events, Steps, OnMessage, flagVars, linkVars, lockVars, boundVars, stopVars
  <1>13. CASE SendFromCallback
    BY <1>13 DEF LinkInv, TypeOK, StateTyped, FlagsTyped, Events, Steps, SendFromCallback, flagVars, linkVars, lockVars, boundVars, stopVars
  <1>14. CASE AwaitWorker
    BY <1>14 DEF LinkInv, TypeOK, StateTyped, FlagsTyped, Events, Steps, AwaitWorker, flagVars, linkVars, lockVars, boundVars, stopVars
  <1>15. CASE LeaveCallback
    BY <1>15 DEF LinkInv, TypeOK, StateTyped, FlagsTyped, Events, Steps, LeaveCallback, flagVars, linkVars, lockVars, boundVars, stopVars
  <1>16. CASE LoopWrites
    BY <1>16 DEF LinkInv, TypeOK, StateTyped, FlagsTyped, Events, Steps, LoopWrites, flagVars, linkVars, lockVars, boundVars, stopVars
  <1>17. ASSUME NEW s \in Senders, Signal(s) PROVE LinkInv'
    BY <1>17 DEF LinkInv, TypeOK, StateTyped, FlagsTyped, Events, Steps, Signal, SenderGoes, flagVars, linkVars, lockVars, boundVars, stopVars
  <1>18. ASSUME NEW s \in Senders, Lock(s) PROVE LinkInv'
    BY <1>18 DEF LinkInv, TypeOK, StateTyped, FlagsTyped, Events, Steps, Lock, SenderGoes, flagVars, linkVars, lockVars, boundVars, stopVars
  <1>19. ASSUME NEW s \in Senders, Publish(s) PROVE LinkInv'
    BY <1>19 DEF LinkInv, TypeOK, StateTyped, FlagsTyped, Events, Steps, Publish, SenderGoes, flagVars, linkVars, lockVars, boundVars, stopVars
  <1>20. ASSUME NEW s \in Senders, BeginWrite(s) PROVE LinkInv'
    BY <1>20 DEF LinkInv, TypeOK, StateTyped, FlagsTyped, Events, Steps, BeginWrite, SenderGoes, flagVars, linkVars, lockVars, boundVars, stopVars
  <1>21. ASSUME NEW s \in Senders, EndWrite(s) PROVE LinkInv'
    BY <1>21 DEF LinkInv, TypeOK, StateTyped, FlagsTyped, Events, Steps, EndWrite, SenderGoes, flagVars, linkVars, lockVars, boundVars, stopVars
  <1>22. ASSUME NEW s \in Senders, WriteFails(s) PROVE LinkInv'
    BY <1>22 DEF LinkInv, TypeOK, StateTyped, FlagsTyped, Events, Steps, WriteFails, SenderGoes, AfterError, flagVars, linkVars, lockVars, boundVars, stopVars
  <1>23. ASSUME NEW s \in Senders, Unlock(s) PROVE LinkInv'
    BY <1>23 DEF LinkInv, TypeOK, StateTyped, FlagsTyped, Events, Steps, Unlock, SenderGoes, Answered, flagVars, linkVars, lockVars, boundVars, stopVars
  <1>24. CASE EndStop
    BY <1>24 DEF LinkInv, TypeOK, StateTyped, FlagsTyped, Events, Steps, EndStop, Unhook, flagVars, linkVars, lockVars, boundVars, stopVars
  <1>25. CASE RequestStop
    BY <1>25 DEF LinkInv, TypeOK, StateTyped, FlagsTyped, Events, Steps, RequestStop, flagVars, linkVars, lockVars, boundVars, stopVars
  <1>26. CASE Cut
    BY <1>26 DEF LinkInv, TypeOK, StateTyped, FlagsTyped, Events, Steps, Cut, flagVars, linkVars, lockVars, boundVars, stopVars
  <1>27. CASE BrokerStarts
    BY <1>27 DEF LinkInv, TypeOK, StateTyped, FlagsTyped, Events, Steps, BrokerStarts, flagVars, linkVars, lockVars, boundVars, stopVars
  <1>28. CASE UNCHANGED vars
    BY <1>28 DEF LinkInv, TypeOK, StateTyped, FlagsTyped, Events, Steps, vars, flagVars, linkVars, lockVars, boundVars, stopVars
  <1>. QED
    BY <1>1, <1>2, <1>3, <1>4, <1>5, <1>6, <1>7, <1>8, <1>9, <1>10, <1>11,
         <1>12, <1>13, <1>14, <1>15, <1>16, <1>17, <1>18, <1>19, <1>20,
         <1>21, <1>22, <1>23, <1>24, <1>25, <1>26, <1>27, <1>28
    DEF Next, MqttStep, Reading, SenderStep, Environment

LEMMA LinkHolds == Spec => [](TypeOK /\ LinkInv)
  <1>1. Init => LinkInv  BY DEF Init, LinkInv
  <1>2. TypeOK /\ LinkInv /\ [Next]_vars => LinkInv'  BY LinkStep
  <1>. QED  BY <1>1, <1>2, TypesHold, PTL DEF Spec

\* The step that gives the link up is a failure of TLS.
GivenUpByTls == ~Abandoned /\ Abandoned' => faults' = faults + 1 /\ Tls /\ sock # "up"

LEMMA AbandonStep ==
    ASSUME TypeOK, LinkInv, [Next]_vars
    PROVE  GivenUpByTls
  <1>1. CASE ConnectInt
    BY <1>1 DEF GivenUpByTls, Abandoned, LinkInv, TypeOK, StateTyped, FlagsTyped, Events, ConnectInt, ConnectIntEx, Opened, RetryLater, linkVars, flagVars, lockVars, boundVars, stopVars
  <1>2. CASE Timer
    BY <1>2 DEF GivenUpByTls, Abandoned, LinkInv, TypeOK, StateTyped, FlagsTyped, Events, Timer, Due, ConnectIntEx, Opened, RetryLater, linkVars, flagVars, lockVars, boundVars, stopVars
  <1>3. CASE Turn
    BY <1>3 DEF GivenUpByTls, Abandoned, LinkInv, TypeOK, StateTyped, FlagsTyped, Events, Turn, Stops, flagVars, linkVars, lockVars, boundVars, stopVars
  <1>4. CASE ReadAccepted
    BY <1>4 DEF GivenUpByTls, Abandoned, LinkInv, TypeOK, StateTyped, FlagsTyped, Events, ReadAccepted, Reads, flagVars, linkVars, lockVars, boundVars, stopVars
  <1>5. CASE ReadRefused
    BY <1>5 DEF GivenUpByTls, Abandoned, LinkInv, TypeOK, StateTyped, FlagsTyped, Events, ReadRefused, Reads, flagVars, linkVars, lockVars, boundVars, stopVars
  <1>6. CASE ReadMessage
    BY <1>6 DEF GivenUpByTls, Abandoned, LinkInv, TypeOK, StateTyped, FlagsTyped, Events, ReadMessage, Reads, flagVars, linkVars, lockVars, boundVars, stopVars
  <1>7. CASE ReadLost
    BY <1>7 DEF GivenUpByTls, Abandoned, LinkInv, TypeOK, StateTyped, FlagsTyped, Events, ReadLost, Reads, flagVars, linkVars, lockVars, boundVars, stopVars
  <1>8. CASE HandshakeFails
    BY <1>8 DEF GivenUpByTls, Abandoned, LinkInv, TypeOK, StateTyped, FlagsTyped, Events, HandshakeFails, Opened, flagVars, linkVars, lockVars, boundVars, stopVars
  <1>9. CASE ReadNothing
    BY <1>9 DEF GivenUpByTls, Abandoned, LinkInv, TypeOK, StateTyped, FlagsTyped, Events, ReadNothing, flagVars, linkVars, lockVars, boundVars, stopVars
  <1>10. CASE ShortCallback
    BY <1>10 DEF GivenUpByTls, Abandoned, LinkInv, TypeOK, StateTyped, FlagsTyped, Events, ShortCallback, Connected, Refused, Disconnected, flagVars, linkVars, lockVars, boundVars, stopVars
  <1>11. CASE EnterCallback
    BY <1>11 DEF GivenUpByTls, Abandoned, LinkInv, TypeOK, StateTyped, FlagsTyped, Events, EnterCallback, flagVars, linkVars, lockVars, boundVars, stopVars
  <1>12. CASE OnMessage
    BY <1>12 DEF GivenUpByTls, Abandoned, LinkInv, TypeOK, StateTyped, FlagsTyped, Events, OnMessage, flagVars, linkVars, lockVars, boundVars, stopVars
  <1>13. CASE SendFromCallback
    BY <1>13 DEF GivenUpByTls, Abandoned, LinkInv, TypeOK, StateTyped, FlagsTyped, Events, SendFromCallback, flagVars, linkVars, lockVars, boundVars, stopVars
  <1>14. CASE AwaitWorker
    BY <1>14 DEF GivenUpByTls, Abandoned, LinkInv, TypeOK, StateTyped, FlagsTyped, Events, AwaitWorker, flagVars, linkVars, lockVars, boundVars, stopVars
  <1>15. CASE LeaveCallback
    BY <1>15 DEF GivenUpByTls, Abandoned, LinkInv, TypeOK, StateTyped, FlagsTyped, Events, LeaveCallback, flagVars, linkVars, lockVars, boundVars, stopVars
  <1>16. CASE LoopWrites
    BY <1>16 DEF GivenUpByTls, Abandoned, LinkInv, TypeOK, StateTyped, FlagsTyped, Events, LoopWrites, flagVars, linkVars, lockVars, boundVars, stopVars
  <1>17. ASSUME NEW s \in Senders, Signal(s) PROVE GivenUpByTls
    BY <1>17 DEF GivenUpByTls, Abandoned, LinkInv, TypeOK, StateTyped, FlagsTyped, Events, Signal, SenderGoes, flagVars, linkVars, lockVars, boundVars, stopVars
  <1>18. ASSUME NEW s \in Senders, Lock(s) PROVE GivenUpByTls
    BY <1>18 DEF GivenUpByTls, Abandoned, LinkInv, TypeOK, StateTyped, FlagsTyped, Events, Lock, SenderGoes, flagVars, linkVars, lockVars, boundVars, stopVars
  <1>19. ASSUME NEW s \in Senders, Publish(s) PROVE GivenUpByTls
    BY <1>19 DEF GivenUpByTls, Abandoned, LinkInv, TypeOK, StateTyped, FlagsTyped, Events, Publish, SenderGoes, flagVars, linkVars, lockVars, boundVars, stopVars
  <1>20. ASSUME NEW s \in Senders, BeginWrite(s) PROVE GivenUpByTls
    BY <1>20 DEF GivenUpByTls, Abandoned, LinkInv, TypeOK, StateTyped, FlagsTyped, Events, BeginWrite, SenderGoes, flagVars, linkVars, lockVars, boundVars, stopVars
  <1>21. ASSUME NEW s \in Senders, EndWrite(s) PROVE GivenUpByTls
    BY <1>21 DEF GivenUpByTls, Abandoned, LinkInv, TypeOK, StateTyped, FlagsTyped, Events, EndWrite, SenderGoes, flagVars, linkVars, lockVars, boundVars, stopVars
  <1>22. ASSUME NEW s \in Senders, WriteFails(s) PROVE GivenUpByTls
    BY <1>22 DEF GivenUpByTls, Abandoned, LinkInv, TypeOK, StateTyped, FlagsTyped, Events, WriteFails, SenderGoes, AfterError, flagVars, linkVars, lockVars, boundVars, stopVars
  <1>23. ASSUME NEW s \in Senders, Unlock(s) PROVE GivenUpByTls
    BY <1>23 DEF GivenUpByTls, Abandoned, LinkInv, TypeOK, StateTyped, FlagsTyped, Events, Unlock, SenderGoes, Answered, flagVars, linkVars, lockVars, boundVars, stopVars
  <1>24. CASE EndStop
    BY <1>24 DEF GivenUpByTls, Abandoned, LinkInv, TypeOK, StateTyped, FlagsTyped, Events, EndStop, Unhook, flagVars, linkVars, lockVars, boundVars, stopVars
  <1>25. CASE RequestStop
    BY <1>25 DEF GivenUpByTls, Abandoned, LinkInv, TypeOK, StateTyped, FlagsTyped, Events, RequestStop, flagVars, linkVars, lockVars, boundVars, stopVars
  <1>26. CASE Cut
    BY <1>26 DEF GivenUpByTls, Abandoned, LinkInv, TypeOK, StateTyped, FlagsTyped, Events, Cut, flagVars, linkVars, lockVars, boundVars, stopVars
  <1>27. CASE BrokerStarts
    BY <1>27 DEF GivenUpByTls, Abandoned, LinkInv, TypeOK, StateTyped, FlagsTyped, Events, BrokerStarts, flagVars, linkVars, lockVars, boundVars, stopVars
  <1>28. CASE UNCHANGED vars
    BY <1>28 DEF GivenUpByTls, Abandoned, LinkInv, TypeOK, StateTyped, FlagsTyped, Events, vars, flagVars, linkVars, lockVars, boundVars, stopVars
  <1>. QED
    BY <1>1, <1>2, <1>3, <1>4, <1>5, <1>6, <1>7, <1>8, <1>9, <1>10, <1>11,
         <1>12, <1>13, <1>14, <1>15, <1>16, <1>17, <1>18, <1>19, <1>20,
         <1>21, <1>22, <1>23, <1>24, <1>25, <1>26, <1>27, <1>28
    DEF Next, MqttStep, Reading, SenderStep, Environment

\* The link is given up only by a certificate that cannot be read, or by a
\* reconnect() that fails after a TLS handshake.
THEOREM OnlyTlsGivesUp == Spec => GivenUpOnlyByTls
  <1>1. TypeOK /\ LinkInv /\ [Next]_vars => [GivenUpByTls]_vars  BY AbandonStep
  <1>. QED  BY <1>1, LinkHolds, PTL DEF Spec, GivenUpOnlyByTls, GivenUpByTls
=============================================================================
