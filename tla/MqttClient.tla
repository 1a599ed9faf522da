----------------------------- MODULE MqttClient -----------------------------
(***************************************************************************)
(* The MQTT client of the panel (src/mqtt_client.cpp): its loop thread     *)
(* connects, announces the panel and serves commands; the UI thread        *)
(* publishes telemetry, and stops and restarts the client when the user    *)
(* saves the settings.  The two share sock_fd_, connected_ and running_.   *)
(*                                                                         *)
(* The broker and the TCP connection are external: what a packet does at   *)
(* the broker happens when it is written to a healthy connection.  A       *)
(* connection can be closed by the broker (reads see end of file, the      *)
(* first write provokes a reset) or fall silent until the kernel gives up. *)
(* The error of a reset is reported to one system call only; after a       *)
(* failed write the reader sees end of file again.                         *)
(***************************************************************************)
EXTENDS Naturals, Sequences, FiniteSets

CONSTANTS
    Conns,     \* TCP connections; an identity is reused when nobody holds it
    NoConn,    \* sock_fd_ = -1, no session
    MaxCmds    \* commands the broker sends (bound)

ASSUME MqttAssumption == NoConn \notin Conns /\ MaxCmds \in Nat

VARIABLES
    running,    \* running_
    connected,  \* connected_
    sock,       \* sock_fd_
    thread,     \* where the loop thread is; "none" when joined
    ui,         \* what the UI thread does with the client
    open,       \* connections whose descriptor is open
    link,       \* what the client wrote on each connection so far
    peer,       \* the other end of each connection
    session,    \* external: the connection that holds the client id
    status,     \* external: the retained message of <base>/state/status
    inbox,      \* received and unread parts of frames on sock
    owed,       \* the command whose frame is half sent, or 0
    sent,       \* commands sent by the broker so far
    whole,      \* commands whose frame was sent to its end
    got,        \* the command whose header the loop thread has read
    executed    \* commands passed to command_cb_

vars == <<running, connected, sock, thread, ui, open, link, peer, session, status,
          inbox, owed, sent, whole, got, executed>>

netVars == <<link, peer, session, status>>
cmdVars == <<inbox, owed, sent, whole, got, executed>>

Announcing == {"online", "discover", "subscribe"}
Serving    == {"read", "payload", "tick"}
Threads    == {"none", "connect", "dialing", "hello", "ack", "acked", "closing",
               "backoff", "ended"} \cup Announcing \cup Serving
Links      == {"fresh", "refused", "accepted", "subscribed", "misused"}
Peers      == {"open", "closed", "silent", "reset", "dead"}
Cmds       == 1 .. MaxCmds

TypeOK ==
    /\ running \in BOOLEAN /\ connected \in BOOLEAN
    /\ sock \in Conns \cup {NoConn}
    /\ thread \in Threads
    /\ ui \in {"idle", "publishing", "stopping", "joining"}
    /\ open \subseteq Conns
    /\ link \in [Conns -> Links] /\ peer \in [Conns -> Peers]
    /\ session \in Conns \cup {NoConn}
    /\ status \in {"none", "online", "offline"}
    /\ inbox \in Seq([cmd : Cmds, part : {"head", "body"}])
    /\ owed \in Cmds \cup {0} /\ sent \in Cmds \cup {0}
    /\ whole \subseteq Cmds /\ got \in Cmds \cup {0}
    /\ thread = "payload" => got # 0
    /\ executed \in Seq(Cmds)

\* main starts the client when MQTT is configured and enabled.
Init ==
    /\ running \in BOOLEAN /\ connected = FALSE /\ sock = NoConn
    /\ thread = IF running THEN "connect" ELSE "none"
    /\ ui = "idle" /\ open = {}
    /\ link = [c \in Conns |-> "fresh"] /\ peer = [c \in Conns |-> "open"]
    /\ session = NoConn /\ status = "none"
    /\ inbox = <<>> /\ owed = 0 /\ sent = 0 /\ whole = {} /\ got = 0
    /\ executed = <<>>

-----------------------------------------------------------------------------
(* Parts of operations.                                                    *)

\* Variant: the descriptor is forgotten, not closed.
CloseSocketKeepsDescriptor ==
    /\ sock' = NoConn
    /\ connected' = FALSE
    /\ inbox' = <<>> /\ owed' = 0
    /\ UNCHANGED open

\* close_socket, under the lock.
CloseSocket ==
    /\ open' = open \ {sock}
    /\ sock' = NoConn
    /\ connected' = FALSE
    /\ inbox' = <<>> /\ owed' = 0

\* What the first packet on a connection makes of it.
Wrote(pkt) ==
    link' = [link EXCEPT ![sock] =
                IF @ # "fresh" THEN @
                ELSE IF pkt = "CONNECT" THEN "refused" ELSE "misused"]

\* A packet reaches the broker.  CONNECT with the will is accepted or not; it
\* takes the client id over from an older connection, whose will is published.
BrokerReceives(pkt) ==
    \/ /\ pkt = "CONNECT" /\ link[sock] = "fresh"
       /\ \/ /\ link' = [link EXCEPT ![sock] = "accepted"]
             /\ session' = sock
             /\ status' = IF session = NoConn THEN status ELSE "offline"
          \/ Wrote(pkt) /\ UNCHANGED <<session, status>>
       /\ UNCHANGED peer
    \/ /\ pkt # "CONNECT" /\ link[sock] = "fresh"
       /\ Wrote(pkt)
       /\ peer' = [peer EXCEPT ![sock] = "closed"]
       /\ UNCHANGED <<session, status>>
    \/ /\ link[sock] # "fresh"
       /\ link' = IF pkt = "SUBSCRIBE" /\ session = sock
                  THEN [link EXCEPT ![sock] = "subscribed"] ELSE link
       /\ status' = IF pkt = "ONLINE" /\ session = sock THEN "online" ELSE status
       /\ UNCHANGED <<peer, session>>

\* send_raw(pkt) returns ok.
SendRaw(pkt, ok) ==
    \/ /\ sock = NoConn /\ ~ok
       /\ UNCHANGED netVars
    \/ /\ sock # NoConn /\ peer[sock] = "open" /\ ok
       /\ BrokerReceives(pkt)
    \/ /\ sock # NoConn /\ peer[sock] = "closed" /\ ok
       /\ Wrote(pkt)
       /\ peer' = [peer EXCEPT ![sock] = "reset"]
       /\ UNCHANGED <<session, status>>
    \/ /\ sock # NoConn /\ peer[sock] = "silent"
       /\ Wrote(pkt)
       /\ UNCHANGED <<peer, session, status>>
    \/ /\ sock # NoConn /\ peer[sock] \in {"reset", "dead"} /\ ~ok
       /\ peer' = [peer EXCEPT ![sock] = "dead"]
       /\ UNCHANGED <<link, session, status>>

\* publish: refused unless connected_, otherwise sent; the result is ignored.
Publish(pkt) ==
    \/ ~connected /\ UNCHANGED netVars
    \/ connected /\ \E ok \in BOOLEAN : SendRaw(pkt, ok)

-----------------------------------------------------------------------------
(* loop.                                                                   *)

\* Variant: a stop during the pause goes unnoticed.
LoopTopIgnoresStop ==
    /\ thread = "connect" /\ thread' = "dialing"
    /\ CloseSocket
    /\ UNCHANGED <<running, ui, netVars, sent, whole, got, executed>>

\* while (running_), and connect_socket's close_socket.
LoopTop ==
    /\ thread = "connect"
    /\ \/ /\ ~running /\ thread' = "ended"
          /\ UNCHANGED <<connected, sock, open, cmdVars>>
       \/ /\ running /\ thread' = "dialing"
          /\ CloseSocket
          /\ UNCHANGED <<sent, whole, got, executed>>
    /\ UNCHANGED <<running, ui, netVars>>

\* The rest of connect_socket, which assigns sock_fd_ without the lock.
LoopDials ==
    /\ thread = "dialing"
    /\ \/ /\ thread' = "backoff"
          /\ UNCHANGED <<sock, open, link, peer>>
       \/ \E c \in Conns \ (open \cup {session}) :
             /\ sock' = c /\ open' = open \cup {c}
             /\ link' = [link EXCEPT ![c] = "fresh"]
             /\ peer' = [peer EXCEPT ![c] = "open"]
             /\ thread' = "hello"
    /\ UNCHANGED <<running, connected, ui, session, status, cmdVars>>

\* send_mqtt_connect: the CONNECT packet.
LoopHello ==
    /\ thread = "hello"
    /\ \/ /\ SendRaw("CONNECT", TRUE) /\ thread' = "ack"
          /\ UNCHANGED <<connected, sock, open, cmdVars>>
       \/ /\ SendRaw("CONNECT", FALSE) /\ thread' = "backoff"
          /\ CloseSocket
          /\ UNCHANGED <<sent, whole, got, executed>>
    /\ UNCHANGED <<running, ui>>

\* send_mqtt_connect: CONNACK arrives whole within 3 s, or the attempt fails.
LoopAck ==
    /\ thread = "ack"
    /\ \/ /\ sock # NoConn /\ link[sock] = "accepted" /\ thread' = "acked"
          /\ UNCHANGED <<connected, sock, open, cmdVars>>
       \/ /\ thread' = "backoff"
          /\ CloseSocket
          /\ UNCHANGED <<sent, whole, got, executed>>
    /\ UNCHANGED <<running, ui, netVars>>

\* Variant: the connected flag is not yet up when the announcement is made.
LoopUpLate ==
    /\ thread = "acked" /\ thread' = "online"
    /\ UNCHANGED <<connected, running, sock, ui, open, netVars, cmdVars>>

LoopUp ==
    /\ thread = "acked" /\ thread' = "online"
    /\ connected' = TRUE
    /\ UNCHANGED <<running, sock, ui, open, netVars, cmdVars>>

LoopAnnounces ==
    /\ \/ thread = "online" /\ thread' = "discover" /\ Publish("ONLINE")
       \/ /\ thread = "discover" /\ thread' = "subscribe"
          /\ Publish("DISCOVERY") \/ UNCHANGED netVars   \* discovery may be off
       \/ /\ thread = "subscribe" /\ thread' = "read"
          /\ \E ok \in BOOLEAN : SendRaw("SUBSCRIBE", ok)
    /\ UNCHANGED <<running, connected, sock, ui, open, cmdVars>>

\* The loop condition, or a failed read of the header byte.
LoopReadFails ==
    /\ thread = "read" /\ thread' = "closing"
    /\ \/ ~running \/ ~connected \/ sock = NoConn
       \/ sock # NoConn /\ peer[sock] = "reset"
    /\ UNCHANGED <<running, connected, sock, ui, open, netVars, cmdVars>>

CanRead == running /\ connected /\ sock # NoConn

\* Nothing arrived in 500 ms; end of file is taken for the same thing.
LoopReadTimesOut ==
    /\ thread = "read" /\ thread' = "tick"
    /\ CanRead /\ peer[sock] # "reset" /\ inbox = <<>>
    /\ UNCHANGED <<running, connected, sock, ui, open, netVars, cmdVars>>

\* A header arrived; its length may fail to follow within a second.
LoopReadsHeader ==
    /\ thread = "read" /\ CanRead
    /\ inbox # <<>> /\ Head(inbox).part = "head"
    /\ inbox' = Tail(inbox)
    /\ \/ thread' = "payload" /\ got' = Head(inbox).cmd
       \/ thread' = "closing" /\ UNCHANGED got
    /\ UNCHANGED <<running, connected, sock, ui, open, netVars, owed, sent, whole, executed>>

\* The rest of an abandoned frame is taken for a header: any number of further
\* bytes may be swallowed as its payload, or its length rejected.
LoopReadsGarbage ==
    /\ thread = "read" /\ CanRead
    /\ inbox # <<>> /\ Head(inbox).part = "body"
    /\ \E n \in 1 .. Len(inbox) : inbox' = SubSeq(inbox, n + 1, Len(inbox))
    /\ thread' \in {"tick", "closing"}
    /\ UNCHANGED <<running, connected, sock, ui, open, netVars, owed, sent, whole, got, executed>>

PayloadArrived == inbox # <<>> /\ Head(inbox).part = "body"

\* Variant: a payload cut short by the time-out is processed all the same.
LoopReadsPayloadShort ==
    /\ thread = "payload" /\ thread' = "tick" /\ got' = 0
    /\ \/ PayloadArrived /\ inbox' = Tail(inbox)
       \/ ~PayloadArrived /\ UNCHANGED inbox
    /\ executed' = Append(executed, got)
    /\ UNCHANGED <<running, connected, sock, ui, open, netVars, owed, sent, whole>>

\* The payload is read and processed, or abandoned after a second.
LoopReadsPayload ==
    /\ thread = "payload" /\ thread' = "tick" /\ got' = 0
    /\ \/ /\ running /\ sock # NoConn /\ PayloadArrived
          /\ inbox' = Tail(inbox)
          /\ executed' = Append(executed, got)
       \/ /\ ~PayloadArrived \/ ~running \/ sock = NoConn
          /\ UNCHANGED <<inbox, executed>>
    /\ UNCHANGED <<running, connected, sock, ui, open, netVars, owed, sent, whole>>

\* Variant: the ping's result is not looked at.
LoopPingsBlindly ==
    /\ thread = "tick" /\ thread' = "read"
    /\ \E ok \in BOOLEAN : SendRaw("PINGREQ", ok)
    /\ UNCHANGED <<running, connected, sock, ui, open, cmdVars>>

\* 20 s passed since the last ping.
LoopPings ==
    /\ thread = "tick"
    /\ \E ok \in BOOLEAN :
          /\ SendRaw("PINGREQ", ok)
          /\ thread' = IF ok THEN "read" ELSE "closing"
    /\ UNCHANGED <<running, connected, sock, ui, open, cmdVars>>

LoopNoPing ==
    /\ thread = "tick" /\ thread' = "read"
    /\ UNCHANGED <<running, connected, sock, ui, open, netVars, cmdVars>>

\* Variant: the loop dials again without the pause.
LoopClosesAndRedials ==
    /\ thread = "closing" /\ thread' = "connect"
    /\ CloseSocket
    /\ UNCHANGED <<running, ui, netVars, sent, whole, got, executed>>

LoopCloses ==
    /\ thread = "closing"
    /\ thread' = IF running THEN "backoff" ELSE "connect"
    /\ CloseSocket
    /\ UNCHANGED <<running, ui, netVars, sent, whole, got, executed>>

\* The pause of 3 s is longer than the moment between the UI thread's look at
\* connected_ and its write; stop cuts the pause short.
LoopBackoff ==
    /\ thread = "backoff" /\ thread' = "connect"
    /\ running => ui # "publishing"
    /\ UNCHANGED <<running, connected, sock, ui, open, netVars, cmdVars>>

-----------------------------------------------------------------------------
(* The UI thread.                                                          *)

\* mqtt_telemetry_timer_cb: publish looks at connected_ ...
UiPublishes ==
    /\ ui = "idle" /\ connected /\ ui' = "publishing"
    /\ UNCHANGED <<running, connected, sock, thread, open, netVars, cmdVars>>

\* ... and writes to whatever socket there is by then.
UiWrites ==
    /\ ui = "publishing" /\ ui' = "idle"
    /\ \E ok \in BOOLEAN : SendRaw("PUBLISH", ok)
    /\ UNCHANGED <<running, connected, sock, thread, open, cmdVars>>

\* save_mqtt_btn_cb: stop, first half.
UiStops ==
    /\ ui = "idle" /\ ui' = "stopping"
    /\ running' = FALSE
    /\ UNCHANGED <<connected, sock, thread, open, netVars, cmdVars>>

\* stop closes the socket under the loop thread.
UiClosesSocket ==
    /\ ui = "stopping" /\ ui' = "joining"
    /\ CloseSocket
    /\ UNCHANGED <<running, thread, netVars, sent, whole, got, executed>>

\* Variant: stop does not wait for the loop thread.
UiJoinsNothing ==
    /\ ui = "joining" /\ ui' = "idle"
    /\ thread' = "none" /\ UNCHANGED running
    /\ UNCHANGED <<connected, sock, open, netVars, cmdVars>>

\* stop joins the thread; configure; start when MQTT is enabled.
UiJoins ==
    /\ ui = "joining" /\ ui' = "idle"
    /\ thread \in {"none", "ended"}
    /\ \/ running' = TRUE /\ thread' = "connect"
       \/ thread' = "none" /\ UNCHANGED running
    /\ UNCHANGED <<connected, sock, open, netVars, cmdVars>>

-----------------------------------------------------------------------------
(* External: broker and network.                                           *)

\* The broker sends a command as two parts, which the network may hold apart.
BrokerSendsHead ==
    /\ session # NoConn /\ session = sock /\ peer[sock] = "open"
    /\ link[sock] = "subscribed" /\ owed = 0 /\ sent < MaxCmds
    /\ sent' = sent + 1 /\ owed' = sent + 1
    /\ inbox' = Append(inbox, [cmd |-> sent + 1, part |-> "head"])
    /\ UNCHANGED <<running, connected, sock, thread, ui, open, netVars, whole, got, executed>>

BrokerSendsBody ==
    /\ owed # 0 /\ sock # NoConn /\ peer[sock] = "open"
    /\ owed' = 0 /\ whole' = whole \cup {owed}
    /\ inbox' = Append(inbox, [cmd |-> owed, part |-> "body"])
    /\ UNCHANGED <<running, connected, sock, thread, ui, open, netVars, sent, got, executed>>

\* A session ends: its will is published.
SessionEnds == session' = NoConn /\ status' = "offline"

\* The broker notices that the client closed the connection.
BrokerSeesClose ==
    /\ session # NoConn /\ session \notin open
    /\ SessionEnds
    /\ UNCHANGED <<running, connected, sock, thread, ui, open, link, peer, cmdVars>>

\* The broker closes a connection (shutdown, restart, policy).
BrokerCloses(c) ==
    /\ c \in open /\ peer[c] = "open"
    /\ peer' = [peer EXCEPT ![c] = "closed"]
    /\ \/ session = c /\ SessionEnds
       \/ session # c /\ UNCHANGED <<session, status>>
    /\ UNCHANGED <<running, connected, sock, thread, ui, open, link, cmdVars>>

\* The network stops delivering; at some point the broker's keep-alive ends the
\* session and the kernel the connection.
NetworkDrops(c) ==
    /\ c \in open /\ peer[c] = "open"
    /\ peer' = [peer EXCEPT ![c] = "silent"]
    /\ UNCHANGED <<running, connected, sock, thread, ui, open, link, session, status, cmdVars>>

KeepAliveExpires ==
    /\ session # NoConn /\ peer[session] = "silent"
    /\ SessionEnds
    /\ UNCHANGED <<running, connected, sock, thread, ui, open, link, peer, cmdVars>>

KernelGivesUp(c) ==
    /\ c \in open /\ peer[c] = "silent"
    /\ peer' = [peer EXCEPT ![c] = "reset"]
    /\ UNCHANGED <<running, connected, sock, thread, ui, open, link, session, status, cmdVars>>

-----------------------------------------------------------------------------
LoopReads ==
    \/ LoopReadFails \/ LoopReadTimesOut \/ LoopReadsHeader \/ LoopReadsGarbage
    \/ LoopReadsPayload

Loop ==
    \/ LoopTop \/ LoopDials \/ LoopHello \/ LoopAck \/ LoopUp \/ LoopAnnounces
    \/ LoopReads \/ LoopPings \/ LoopNoPing \/ LoopCloses \/ LoopBackoff

Ui == UiPublishes \/ UiWrites \/ UiStops \/ UiClosesSocket \/ UiJoins

Broker ==
    \/ BrokerSendsHead \/ BrokerSendsBody \/ BrokerSeesClose \/ KeepAliveExpires
    \/ \E c \in Conns : BrokerCloses(c) \/ NetworkDrops(c) \/ KernelGivesUp(c)

Next == Loop \/ Ui \/ Broker

Spec == Init /\ [][Next]_vars

-----------------------------------------------------------------------------
(* Safety.                                                                 *)

\* CONNECT is the first packet on every connection, although publish tests
\* connected_ and takes the socket lock in two steps and the loop thread may
\* close and reopen the socket in between.
ConnectFirst == \A c \in Conns : link[c] # "misused"

\* stop() leaves nothing behind: when the thread is joined no descriptor is
\* open and the client does not claim to be connected, even when stop() closed
\* the socket just before connect_socket stored a new one or the loop thread
\* raised connected_.
StoppedIsClean == thread = "none" => open = {} /\ sock = NoConn /\ ~connected

\* No descriptor is ever lost: what is open is what sock_fd_ names.
NoLostDescriptor == open \subseteq {sock}

\* While the loop serves a healthy connection the broker holds, Home Assistant
\* sees the panel as online: the announcement is not refused, and no will of
\* an older connection overwrites it.
ServedMeansOnline ==
    /\ thread \in Serving /\ running
    /\ session # NoConn /\ session = sock /\ peer[sock] = "open"
    => status = "online"

\* Commands run at most once, in the order sent, and only when their whole
\* frame had been sent, also after stalls inside a frame.
CommandsWholeAndInOrder ==
    /\ \A i \in DOMAIN executed : executed[i] \in whole
    /\ \A i, j \in DOMAIN executed : i < j => executed[i] < executed[j]

(* The inductive invariant behind ConnectFirst, StoppedIsClean and          *)
(* NoLostDescriptor; MqttClient_proofs proves it.                          *)

Connecting == {"connect", "dialing", "backoff"}

\* The open descriptor is the one sock_fd_ names.
Descriptors == open = {sock} \ {NoConn}

\* Nothing was written yet only while the loop is about to write CONNECT.
FreshMeansHello == sock # NoConn /\ link[sock] = "fresh" => thread = "hello"

\* Between connections, and without a thread, there is no socket and no flag.
ClosedBetween ==
    thread \in Connecting \cup {"none", "ended"} => sock = NoConn /\ ~connected

ConnectedMeansUp == connected => thread \in Announcing \cup Serving \cup {"closing"}

\* A publish in progress keeps the loop from dialing.
PublishInTime ==
    ui = "publishing" => thread \in Announcing \cup Serving \cup {"closing", "backoff"}

\* Outside stop() the flag running_ tells whether there is a thread.
RunningMeansThread ==
    /\ ui \in {"idle", "publishing"} => thread # "ended" /\ (running <=> thread # "none")
    /\ ui \in {"stopping", "joining"} => ~running

MqttInv ==
    /\ TypeOK
    /\ Descriptors
    /\ FreshMeansHello
    /\ ClosedBetween
    /\ ConnectedMeansUp
    /\ PublishInTime
    /\ RunningMeansThread
    /\ ConnectFirst

-----------------------------------------------------------------------------
(* Liveness.  The loop thread keeps running; its 20 s ping comes due again *)
(* and again; the kernel gives up a silent connection; the UI thread ends  *)
(* what it began.                                                          *)

Fairness ==
    /\ WF_vars(Loop) /\ SF_vars(LoopPings)
    /\ WF_vars(UiWrites) /\ WF_vars(UiClosesSocket) /\ WF_vars(UiJoins)
    /\ WF_vars(BrokerSeesClose) /\ WF_vars(KeepAliveExpires)
    /\ \A c \in Conns : WF_vars(KernelGivesUp(c))

FairSpec == Spec /\ Fairness

\* A dead connection does not hold the client: although end of file counts as a
\* time-out and the error of a reset may be swallowed by the UI thread's write,
\* the client gives the connection up.
DeadConnectionIsLeft ==
    \A c \in Conns : sock = c /\ peer[c] # "open" ~> sock # c \/ peer[c] = "open"

\* A stopped panel is not shown as online for ever.
StoppedGoesOffline == thread = "none" ~> status # "online" \/ thread # "none"

\* Saving the settings does not hang: stop() gets its thread.
StopReturns == ui = "joining" ~> ui = "idle"

=============================================================================
