---------------------------- MODULE DomoticzMqtt ----------------------------
(***************************************************************************)
(* The MQTT hardware of Domoticz (src/domoticz/hardware/MQTT.cpp) over its  *)
(* copy of libmosquitto (src/domoticz/MQTT), built with threads but never  *)
(* told of them.                                                           *)
(*                                                                         *)
(* Do_Work, the thread of the hardware, connects and calls loop().  The    *)
(* senders are the other threads that signal sOnDeviceReceived: the worker *)
(* of the queue of received messages, and those of the web server.  A step *)
(* is what happens between two locks, or up to a flag of another thread.   *)
(***************************************************************************)
EXTENDS Naturals

CONSTANTS
    Senders,
    RxWorker,     \* the sender that answers PushAndWaitRxMessage
    Mqtt,         \* the thread of the hardware, as the owner of a mutex
    None,         \* a free mutex
    Threaded,     \* mosquitto_threaded_set: the code leaves it FALSE
    Tls,          \* a CA certificate is configured
    Period,       \* turns of Do_Work between two tests of m_bDoReconnect
    MaxFaults,    \* bound: links cut, connections refused, TLS failures
    MaxMessages   \* bound: messages from domoticz/in

ASSUME MqttAssumption ==
    /\ RxWorker \in Senders /\ Mqtt \notin Senders /\ None \notin Senders \cup {Mqtt}
    /\ Threaded \in BOOLEAN /\ Tls \in BOOLEAN
    /\ Period \in Nat \ {0} /\ MaxFaults \in Nat /\ MaxMessages \in Nat

VARIABLES
    m_IsConnected, m_bDoReconnect, m_stoprequested,
    slots,            \* connections of SendDeviceInfo to sOnDeviceReceived
    sock,             \* of the library: closed, waiting for CONNACK, or up
    peer,             \* the broker, at the other end of it
    out_packet,       \* something waits to be written
    callback_mutex, current_out_packet_mutex, m_mqtt_mutex,
    in_callback,
    step,             \* where Do_Work is
    event,            \* what its callback is about
    sec_counter,
    pc,               \* where each sender is
    request,          \* the message that the callback waits for the worker to do
    broker, faults, messages,
    stopping          \* where StopHardware is

flagVars == <<m_IsConnected, m_bDoReconnect, slots>>
linkVars == <<sock, peer>>
lockVars == <<callback_mutex, current_out_packet_mutex, m_mqtt_mutex, in_callback>>
boundVars == <<broker, faults, messages>>
stopVars == <<m_stoprequested, stopping>>
vars == <<flagVars, linkVars, out_packet, lockVars, step, event, sec_counter, pc,
          request, boundVars, stopVars>>

Steps == {"first", "top", "select", "callback", "handler", "want", "await",
          "leave", "write", "timer", "ended"}

Events == {"none", "accepted", "refused", "message", "lost"}

Init ==
    /\ m_IsConnected = FALSE /\ m_bDoReconnect = FALSE /\ slots = 0
    /\ sock = "closed" /\ peer = FALSE /\ out_packet = FALSE
    /\ callback_mutex = None /\ current_out_packet_mutex = None
    /\ m_mqtt_mutex = None /\ in_callback = FALSE
    /\ step = "first" /\ event = "none" /\ sec_counter = 0
    /\ pc = [s \in Senders |-> "idle"] /\ request = "none"
    /\ broker \in BOOLEAN /\ faults = 0 /\ messages = 0
    /\ m_stoprequested = FALSE /\ stopping = "no"

-----------------------------------------------------------------------------
(* Connecting *)

\* connect() empties the queue, under its mutex, and opens a socket; CONNECT
\* leaves at once.
Opened == sock' = "waiting" /\ peer' = TRUE /\ out_packet' = FALSE

\* Mutant: a connection that fails is not tried again.
MutantRetryLater == m_bDoReconnect' = FALSE
RetryLater == m_bDoReconnect' = TRUE

\* ConnectIntEx.  tls_set fails when the certificate cannot be read.
ConnectIntEx ==
    /\ current_out_packet_mutex = None
    /\ \/ /\ broker /\ Opened
          /\ m_bDoReconnect' = FALSE /\ UNCHANGED faults
       \/ /\ ~broker /\ RetryLater
          /\ out_packet' = FALSE /\ UNCHANGED <<linkVars, faults>>
       \/ /\ Tls /\ faults < MaxFaults /\ faults' = faults + 1
          /\ m_bDoReconnect' = FALSE /\ UNCHANGED <<linkVars, out_packet>>

\* The first time StopMQTT comes before; there is nothing to disconnect.
ConnectInt ==
    /\ step = "first" /\ ConnectIntEx
    /\ step' = "top"
    /\ UNCHANGED <<m_IsConnected, slots, lockVars, event, sec_counter, pc, request,
                   broker, messages, stopVars>>

\* Every 30 s, if the connection has been lost or never made.  Mutant: the
\* counter is compared when it has already been reset.
MutantDue == sec_counter = Period /\ m_bDoReconnect
Due == (sec_counter + 1) % Period = 0 /\ m_bDoReconnect

Timer ==
    /\ step = "timer"
    /\ step' = "top"
    /\ sec_counter' = (sec_counter + 1) % Period
    /\ IF Due THEN ConnectIntEx
       ELSE UNCHANGED <<m_bDoReconnect, linkVars, out_packet, faults>>
    /\ UNCHANGED <<m_IsConnected, slots, lockVars, event, pc, request, broker,
                   messages, stopVars>>

\* The test of the loop of Do_Work.  Mutant: only the first turn tests it.
MutantStops == step = "first" /\ m_stoprequested
Stops == step \in {"first", "top"} /\ m_stoprequested

\* Then loop() up to select(): current_out_packet_mutex is taken and given back
\* when there is a socket.
Turn ==
    /\ \/ Stops /\ step' = "ended"
       \/ step = "top" /\ ~Stops /\ sock = "closed" /\ step' = "timer"
       \/ /\ step = "top" /\ ~Stops /\ sock # "closed" /\ current_out_packet_mutex = None
          /\ step' = "select"
    /\ UNCHANGED <<flagVars, linkVars, out_packet, lockVars, event, sec_counter, pc,
                   request, boundVars, stopVars>>

-----------------------------------------------------------------------------
(* loop(): reading, the callbacks, writing *)

Reads(e) ==
    /\ step = "select" /\ step' = "callback" /\ event' = e
    /\ UNCHANGED <<flagVars, out_packet, lockVars, sec_counter, pc, request, stopVars>>

ReadAccepted ==
    /\ sock = "waiting" /\ peer /\ Reads("accepted")
    /\ UNCHANGED <<linkVars, boundVars>>

ReadRefused ==
    /\ sock = "waiting" /\ peer /\ faults < MaxFaults /\ Reads("refused")
    /\ faults' = faults + 1
    /\ UNCHANGED <<linkVars, broker, messages>>

ReadMessage ==
    /\ sock = "up" /\ peer /\ messages < MaxMessages /\ Reads("message")
    /\ messages' = messages + 1
    /\ UNCHANGED <<linkVars, broker, faults>>

\* The other end has closed, or does not answer within the keepalive.
ReadLost ==
    /\ ~peer /\ Reads("lost")
    /\ sock' = "closed"
    /\ UNCHANGED <<peer, boundVars>>

\* The TLS handshake fails in loop(): no callback, and Do_Work calls
\* reconnect(), whose own failure is ignored.
HandshakeFails ==
    /\ Tls /\ sock = "waiting" /\ step = "select"
    /\ faults < MaxFaults /\ faults' = faults + 1
    /\ step' = "timer"
    /\ IF broker /\ ~m_stoprequested /\ ~m_bDoReconnect THEN Opened
       ELSE sock' = "closed" /\ peer' = FALSE /\ UNCHANGED out_packet
    /\ UNCHANGED <<flagVars, lockVars, event, sec_counter, pc, request, broker,
                   messages, stopVars>>

\* Nothing to read, or the packet needs no callback.
ReadNothing ==
    /\ step = "select"
    /\ step' = IF out_packet THEN "write" ELSE "timer"
    /\ UNCHANGED <<flagVars, linkVars, out_packet, lockVars, event, sec_counter, pc,
                   request, boundVars, stopVars>>

\* on_connect, rc 0.
Connected ==
    IF m_IsConnected THEN UNCHANGED <<m_IsConnected, slots>>
    ELSE m_IsConnected' = TRUE /\ slots' = slots + 1

\* on_connect, rc # 0; the library then closes the socket.
Refused ==
    /\ m_bDoReconnect' = TRUE
    /\ sock' = "closed"
    /\ UNCHANGED <<m_IsConnected, slots>>

\* on_disconnect.
Disconnected == m_bDoReconnect' = (m_bDoReconnect \/ ~m_stoprequested)

\* The callbacks that take no lock of their own, under callback_mutex.
ShortCallback ==
    /\ step = "callback" /\ event # "message" /\ callback_mutex = None
    /\ \/ /\ event = "accepted" /\ Connected
          /\ sock' = "up" /\ out_packet' = TRUE
          /\ step' = "timer" /\ event' = "none" /\ UNCHANGED m_bDoReconnect
       \/ /\ event = "refused" /\ Refused
          /\ step' = "callback" /\ event' = "lost" /\ UNCHANGED out_packet
       \/ /\ event = "lost" /\ Disconnected
          /\ step' = "timer" /\ event' = "none"
          /\ UNCHANGED <<m_IsConnected, slots, sock, out_packet>>
    /\ UNCHANGED <<peer, lockVars, sec_counter, pc, request, boundVars, stopVars>>

\* on_message begins.
EnterCallback ==
    /\ step = "callback" /\ event = "message" /\ callback_mutex = None
    /\ callback_mutex' = Mqtt /\ in_callback' = TRUE
    /\ step' = "handler"
    /\ UNCHANGED <<flagVars, linkVars, out_packet, current_out_packet_mutex,
                   m_mqtt_mutex, event, sec_counter, pc, request, boundVars, stopVars>>

\* A command that updates a device, or asks for one, ends in SendDeviceInfo;
\* switchlight waits for the worker of the received messages.
OnMessage ==
    /\ step = "handler"
    /\ \/ step' = "want" /\ UNCHANGED request
       \/ step' = "await" /\ request' = "asked"
       \/ step' = "leave" /\ UNCHANGED request
    /\ UNCHANGED <<flagVars, linkVars, out_packet, lockVars, event, sec_counter, pc,
                   boundVars, stopVars>>

\* SendDeviceInfo from inside the callback: the packet is left to loop().
SendFromCallback ==
    /\ step = "want" /\ m_mqtt_mutex = None
    /\ out_packet' = (out_packet \/ m_IsConnected)
    /\ step' = "leave"
    /\ UNCHANGED <<flagVars, linkVars, lockVars, event, sec_counter, pc, request,
                   boundVars, stopVars>>

AwaitWorker ==
    /\ step = "await" /\ request = "none"
    /\ step' = "leave"
    /\ UNCHANGED <<flagVars, linkVars, out_packet, lockVars, event, sec_counter, pc,
                   request, boundVars, stopVars>>

LeaveCallback ==
    /\ step = "leave"
    /\ callback_mutex' = None /\ in_callback' = FALSE
    /\ step' = IF out_packet THEN "write" ELSE "timer"
    /\ event' = "none"
    /\ UNCHANGED <<flagVars, linkVars, out_packet, current_out_packet_mutex,
                   m_mqtt_mutex, sec_counter, pc, request, boundVars, stopVars>>

\* _mosquitto_packet_write by loop(): one turn through callback_mutex stands for
\* those of all the packets.
LoopWrites ==
    /\ step = "write"
    /\ current_out_packet_mutex = None /\ callback_mutex = None
    /\ out_packet' = FALSE /\ step' = "timer"
    /\ UNCHANGED <<flagVars, linkVars, lockVars, event, sec_counter, pc, request,
                   boundVars, stopVars>>

-----------------------------------------------------------------------------
(* SendDeviceInfo, called by the other threads *)

SenderGoes(s, from, to) == pc[s] = from /\ pc' = [pc EXCEPT ![s] = to]

\* Who signals sOnDeviceReceived calls every slot; the worker does so when it
\* takes the message of the callback, or another.
Signal(s) ==
    /\ SenderGoes(s, "idle", IF slots > 0 THEN "lock" ELSE "idle")
    /\ \/ s = RxWorker /\ request = "asked" /\ request' = IF slots > 0 THEN "taken" ELSE "none"
       \/ (s # RxWorker \/ request # "asked") /\ slots > 0 /\ UNCHANGED request
    /\ UNCHANGED <<flagVars, linkVars, out_packet, lockVars, step, event, sec_counter,
                   boundVars, stopVars>>

Lock(s) ==
    /\ SenderGoes(s, "lock", "publish") /\ m_mqtt_mutex = None
    /\ m_mqtt_mutex' = s
    /\ UNCHANGED <<flagVars, linkVars, out_packet, callback_mutex,
                   current_out_packet_mutex, in_callback, step, event, sec_counter,
                   request, boundVars, stopVars>>

\* The owner of current_out_packet_mutex after a failed write.  Mutant: the
\* error returns without giving it back.
MutantAfterError(s) == s
AfterError(s) == None

\* publish() when the library takes itself to have one thread: a packet is
\* queued and written now, unless a callback runs.
WritesNow == ~in_callback /\ ~Threaded

Publish(s) ==
    /\ SenderGoes(s, "publish",
                  IF m_IsConnected /\ sock # "closed" /\ WritesNow THEN "write" ELSE "unlock")
    /\ out_packet' = (out_packet \/ (m_IsConnected /\ sock # "closed"))
    /\ UNCHANGED <<flagVars, linkVars, lockVars, step, event, sec_counter, request,
                   boundVars, stopVars>>

\* _mosquitto_packet_write: a packet that another thread is writing, or that the
\* socket does not take, stays for later.
BeginWrite(s) ==
    /\ SenderGoes(s, "write", IF out_packet /\ sock # "closed" THEN "written" ELSE "unlock")
    /\ current_out_packet_mutex = None
    /\ current_out_packet_mutex' = IF out_packet /\ sock # "closed" THEN s ELSE None
    /\ UNCHANGED <<flagVars, linkVars, out_packet, callback_mutex, m_mqtt_mutex,
                   in_callback, step, event, sec_counter, request, boundVars, stopVars>>

\* "written": the packet has left.  on_publish is called under callback_mutex.
EndWrite(s) ==
    /\ SenderGoes(s, "written", "unlock") /\ callback_mutex = None
    /\ current_out_packet_mutex' = None
    /\ out_packet' = FALSE
    /\ UNCHANGED <<flagVars, linkVars, callback_mutex, m_mqtt_mutex, in_callback, step,
                   event, sec_counter, request, boundVars, stopVars>>

\* Or the write of the packet fails.
WriteFails(s) ==
    /\ SenderGoes(s, "write", "unlock") /\ out_packet /\ sock # "closed" /\ ~peer
    /\ current_out_packet_mutex = None /\ current_out_packet_mutex' = AfterError(s)
    /\ UNCHANGED <<flagVars, linkVars, out_packet, callback_mutex, m_mqtt_mutex,
                   in_callback, step, event, sec_counter, request, boundVars, stopVars>>

\* The worker tells the callback that its message has been processed.
Answered(s) == request' = IF s = RxWorker /\ request = "taken" THEN "none" ELSE request

Unlock(s) ==
    /\ SenderGoes(s, "unlock", "idle")
    /\ m_mqtt_mutex' = None
    /\ Answered(s)
    /\ UNCHANGED <<flagVars, linkVars, out_packet, callback_mutex,
                   current_out_packet_mutex, in_callback, step, event, sec_counter,
                   boundVars, stopVars>>

-----------------------------------------------------------------------------
(* StopHardware, and the network *)

RequestStop ==
    /\ stopping = "no" /\ stopping' = "joining"
    /\ m_stoprequested' = TRUE
    /\ UNCHANGED <<flagVars, linkVars, out_packet, lockVars, step, event, sec_counter,
                   pc, request, boundVars>>

\* Mutant: the slot is left connected.
MutantUnhook == UNCHANGED slots
Unhook == slots' = IF slots > 0 THEN slots - 1 ELSE 0

EndStop ==
    /\ stopping = "joining" /\ step = "ended"
    /\ stopping' = "stopped"
    /\ Unhook
    /\ m_IsConnected' = FALSE
    /\ UNCHANGED <<m_bDoReconnect, linkVars, out_packet, lockVars, step, event,
                   sec_counter, pc, request, boundVars, m_stoprequested>>

Cut ==
    /\ peer /\ faults < MaxFaults /\ faults' = faults + 1
    /\ peer' = FALSE /\ broker' \in BOOLEAN
    /\ UNCHANGED <<flagVars, sock, out_packet, lockVars, step, event, sec_counter, pc,
                   request, messages, stopVars>>

BrokerStarts ==
    /\ ~broker /\ broker' = TRUE
    /\ UNCHANGED <<flagVars, linkVars, out_packet, lockVars, step, event, sec_counter,
                   pc, request, faults, messages, stopVars>>

-----------------------------------------------------------------------------
(* The system *)

Reading == ReadAccepted \/ ReadRefused \/ ReadMessage \/ ReadLost \/ HandshakeFails
             \/ ReadNothing

MqttStep ==
    \/ ConnectInt \/ Timer \/ Turn \/ Reading \/ ShortCallback \/ EnterCallback
    \/ OnMessage \/ SendFromCallback \/ AwaitWorker \/ LeaveCallback \/ LoopWrites

SenderStep(s) ==
    \/ Lock(s) \/ Publish(s) \/ BeginWrite(s) \/ EndWrite(s) \/ WriteFails(s) \/ Unlock(s)

Environment == RequestStop \/ Cut \/ BrokerStarts

Next ==
    \/ MqttStep
    \/ \E s \in Senders : Signal(s) \/ SenderStep(s)
    \/ EndStop
    \/ Environment

Spec == Init /\ [][Next]_vars

\* The threads run, a mutex that is given back again and again is had in the
\* end, and the worker takes what is handed to it; a broker that has accepted a
\* connection answers it, and a dead one is noticed.
MqttFairness ==
    /\ SF_vars(MqttStep) /\ WF_vars(EndStop)
    /\ SF_vars(ReadAccepted) /\ SF_vars(ReadLost)
    /\ \A s \in Senders : SF_vars(SenderStep(s))
    /\ WF_vars(request = "asked" /\ Signal(RxWorker))

FairSpec == Spec /\ MqttFairness

-----------------------------------------------------------------------------
(* Properties *)

SenderSteps == {"idle", "lock", "publish", "write", "written", "unlock"}

FlagsTyped ==
    /\ m_IsConnected \in BOOLEAN /\ m_bDoReconnect \in BOOLEAN /\ m_stoprequested \in BOOLEAN
    /\ peer \in BOOLEAN /\ out_packet \in BOOLEAN
    /\ in_callback \in BOOLEAN /\ broker \in BOOLEAN

StateTyped ==
    /\ slots \in 0 .. 1 /\ sock \in {"closed", "waiting", "up"}
    /\ callback_mutex \in {None, Mqtt}
    /\ current_out_packet_mutex \in Senders \cup {None}
    /\ m_mqtt_mutex \in Senders \cup {None}
    /\ step \in Steps /\ event \in Events /\ sec_counter \in 0 .. Period - 1
    /\ pc \in [Senders -> SenderSteps] /\ request \in {"none", "asked", "taken"}
    /\ faults \in 0 .. MaxFaults /\ messages \in 0 .. MaxMessages
    /\ stopping \in {"no", "joining", "stopped"}

TypeOK == FlagsTyped /\ StateTyped

\* A device is published once: however often the link comes and goes,
\* SendDeviceInfo is connected to sOnDeviceReceived once while m_IsConnected
\* holds, and not at all before the first CONNACK and after StopHardware.
PublishedOnce == slots = IF m_IsConnected THEN 1 ELSE 0

\* The thread goes round with no socket, and nothing will make it connect.
Abandoned == step \in {"top", "timer"} /\ sock = "closed" /\ ~m_bDoReconnect /\ ~m_stoprequested

\* The link is given up only by the two steps that forget the retry: a
\* certificate that cannot be read in ConnectIntEx, and a reconnect() that
\* fails after a TLS handshake has failed.
GivenUpOnlyByTls ==
    [][~Abandoned /\ Abandoned' => faults' = faults + 1 /\ Tls /\ sock # "up"]_vars

\* A sender holds m_mqtt_mutex and waits for callback_mutex, that the callback
\* keeps while it waits for m_mqtt_mutex, or for the worker.
Jam ==
    \E s \in Senders :
        /\ pc[s] = "written" /\ callback_mutex = Mqtt
        /\ step = "want" \/ (step = "await" /\ (s = RxWorker \/ pc[RxWorker] = "lock"))

\* The link comes back once the broker is there, unless it has been given up.
Recovers == []<>(sock = "up" \/ ~broker \/ Abandoned \/ m_stoprequested \/ Jam)

\* A thread that signals a change of a device goes on, and the switch command
\* of a client is answered, but for what is caught in the jam.
CallsReturn ==
    /\ \A s \in Senders : pc[s] # "idle" ~> (pc[s] = "idle" \/ Jam)
    /\ step = "await" ~> (step # "await" \/ Jam)

\* StopHardware returns, unless the thread it joins is caught in the jam.
StopReturns == m_stoprequested ~> (stopping = "stopped" \/ Jam)

\* "libmosquitto provides thread safe operation" (mosquitto.h:102): a thread
\* that signals a change of a device goes on.
PublishIsThreadSafe == \A s \in Senders : pc[s] # "idle" ~> pc[s] = "idle"
=============================================================================
