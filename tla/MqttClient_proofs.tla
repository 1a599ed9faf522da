-------------------------- MODULE MqttClient_proofs --------------------------
(***************************************************************************)
(* Proofs about MqttClient for any set of connections and any number of    *)
(* commands.                                                               *)
(***************************************************************************)
EXTENDS MqttClient, TLAPS

NetOK ==
    /\ link \in [Conns -> Links] /\ peer \in [Conns -> Peers]
    /\ session \in Conns \cup {NoConn}
    /\ status \in {"none", "online", "offline"}

CmdOK ==
    /\ inbox \in Seq([cmd : Cmds, part : {"head", "body"}])
    /\ owed \in Cmds \cup {0} /\ sent \in Cmds \cup {0}
    /\ whole \subseteq Cmds /\ got \in Cmds \cup {0}
    /\ executed \in Seq(Cmds)

CtlOK ==
    /\ running \in BOOLEAN /\ connected \in BOOLEAN
    /\ sock \in Conns \cup {NoConn}
    /\ thread \in Threads
    /\ ui \in {"idle", "publishing", "stopping", "joining"}
    /\ open \subseteq Conns

GotOK == thread = "payload" => got # 0

\* Head and tail of a non-empty sequence.
LEMMA HeadTailType ==
    ASSUME NEW S, NEW q \in Seq(S), q # <<>>
    PROVE  Head(q) \in S /\ Tail(q) \in Seq(S)
  OBVIOUS

\* What is left behind a prefix of a sequence.
LEMMA SuffixType ==
    ASSUME NEW S, NEW q \in Seq(S), NEW n \in 1 .. Len(q)
    PROVE  SubSeq(q, n + 1, Len(q)) \in Seq(S)
  OBVIOUS

-----------------------------------------------------------------------------
(* Writing and closing.                                                    *)

\* A write keeps the connections typed, touches no other connection's record
\* and never makes a used connection fresh again.
LEMMA SendRawFacts ==
    ASSUME NetOK, CtlOK, NEW pkt, NEW ok \in BOOLEAN, SendRaw(pkt, ok)
    PROVE  /\ NetOK'
           /\ sock # NoConn /\ link[sock] # "fresh" => link'[sock] \in {link[sock], "subscribed"}
           /\ \A c \in Conns : c # sock => link'[c] = link[c]
           /\ pkt = "CONNECT" /\ sock # NoConn /\ link[sock] = "fresh" =>
                 \/ link'[sock] \in {"accepted", "refused"}
                 \/ ~ok /\ link'[sock] = "fresh"
  <1>1. CASE sock = NoConn
    BY <1>1 DEF SendRaw, NetOK, netVars
  <1>2. CASE sock # NoConn
    <2>1. sock \in Conns
      BY <1>2 DEF CtlOK
    <2>2. CASE peer[sock] = "open"
      <3>1. BrokerReceives(pkt) /\ ok
        BY <1>2, <2>2 DEF SendRaw
      <3>2. link' \in [Conns -> Links] /\ peer' \in [Conns -> Peers]
        BY <2>1, <3>1 DEF BrokerReceives, Wrote, NetOK, Links, Peers
      <3>3. session' \in Conns \cup {NoConn} /\ status' \in {"none", "online", "offline"}
        BY <2>1, <3>1 DEF BrokerReceives, NetOK
      <3>4. link[sock] # "fresh" => link'[sock] \in {link[sock], "subscribed"}
        BY <2>1, <3>1 DEF BrokerReceives, Wrote, NetOK
      <3>5. \A c \in Conns : c # sock => link'[c] = link[c]
        BY <2>1, <3>1 DEF BrokerReceives, Wrote, NetOK
      <3>6. pkt = "CONNECT" /\ link[sock] = "fresh" => link'[sock] \in {"accepted", "refused"}
        BY <2>1, <3>1 DEF BrokerReceives, Wrote, NetOK
      <3>. QED
        BY <3>2, <3>3, <3>4, <3>5, <3>6 DEF NetOK
    <2>3. CASE peer[sock] \in {"closed", "silent"}
      <3>1. Wrote(pkt) /\ UNCHANGED <<session, status>> /\ peer' \in [Conns -> Peers]
        BY <1>2, <2>1, <2>3 DEF SendRaw, NetOK, Peers
      <3>2. /\ link' \in [Conns -> Links]
            /\ link[sock] # "fresh" => link'[sock] = link[sock]
            /\ \A c \in Conns : c # sock => link'[c] = link[c]
            /\ pkt = "CONNECT" /\ link[sock] = "fresh" => link'[sock] = "refused"
        BY <2>1, <3>1 DEF Wrote, NetOK, Links
      <3>. QED
        BY <3>1, <3>2 DEF NetOK
    <2>4. CASE peer[sock] \in {"reset", "dead"}
      <3>1. UNCHANGED <<link, session, status>> /\ ~ok
        BY <1>2, <2>4 DEF SendRaw
      <3>2. peer' \in [Conns -> Peers]
        BY <1>2, <2>1, <2>4 DEF SendRaw, NetOK, Peers
      <3>. QED
        BY <3>1, <3>2 DEF NetOK
    <2>. QED
      BY <2>1, <2>2, <2>3, <2>4 DEF NetOK, Peers
  <1>. QED
    BY <1>1, <1>2

\* publish writes or leaves everything alone.
LEMMA PublishFacts ==
    ASSUME NetOK, CtlOK, NEW pkt, Publish(pkt)
    PROVE  /\ NetOK'
           /\ sock # NoConn /\ link[sock] # "fresh" => link'[sock] \in {link[sock], "subscribed"}
           /\ \A c \in Conns : c # sock => link'[c] = link[c]
  <1>1. CASE UNCHANGED netVars
    BY <1>1 DEF netVars, NetOK
  <1>2. CASE \E ok \in BOOLEAN : SendRaw(pkt, ok)
    BY <1>2, SendRawFacts
  <1>. QED
    BY <1>1, <1>2 DEF Publish

\* close_socket.
LEMMA CloseFacts ==
    ASSUME CloseSocket, open \subseteq Conns
    PROVE  /\ connected' \in BOOLEAN /\ ~connected'
           /\ sock' = NoConn /\ open' = open \ {sock} /\ open' \subseteq Conns
           /\ inbox' \in Seq([cmd : Cmds, part : {"head", "body"}])
           /\ owed' = 0
  <1>1. connected' \in BOOLEAN /\ ~connected'
    BY Zenon DEF CloseSocket
  <1>2. inbox' \in Seq([cmd : Cmds, part : {"head", "body"}])
    BY DEF CloseSocket
  <1>. QED
    BY <1>1, <1>2 DEF CloseSocket

-----------------------------------------------------------------------------
(* Type correctness.                                                       *)

\* The loop thread's steps keep every variable within its type.
LEMMA LoopTypeStep ==
    ASSUME NetOK, CmdOK, CtlOK, GotOK, Loop
    PROVE  NetOK' /\ CmdOK' /\ CtlOK'
  <1>. USE DEF netVars, cmdVars
  <1>0. NetOK /\ CmdOK /\ CtlOK /\ open \subseteq Conns
    BY DEF CtlOK
  <1>1. CASE LoopTop
    <2>1. CASE ~running
      BY <1>0, <1>1, <2>1 DEF LoopTop, NetOK, CmdOK, CtlOK, Threads
    <2>2. CASE running
      <3>1. /\ CloseSocket /\ thread' \in Threads
            /\ UNCHANGED <<running, ui, netVars, sent, whole, got, executed>>
        BY <1>1, <2>2 DEF LoopTop, Threads
      <3>. QED
        BY <1>0, <3>1, CloseFacts DEF NetOK, CmdOK, CtlOK
    <2>. QED BY <2>1, <2>2
  <1>2. CASE LoopDials
    <2>1. UNCHANGED <<running, connected, ui, session, status, cmdVars>> /\ thread' \in Threads
      BY <1>2 DEF LoopDials, Threads
    <2>2. sock' \in Conns \cup {NoConn} /\ open' \subseteq Conns
      BY <1>0, <1>2 DEF LoopDials, CtlOK
    <2>3. link' \in [Conns -> Links] /\ peer' \in [Conns -> Peers]
      BY <1>0, <1>2 DEF LoopDials, NetOK, Links, Peers
    <2>. QED
      BY <1>0, <2>1, <2>2, <2>3 DEF NetOK, CmdOK, CtlOK
  <1>3. CASE LoopHello
    <2>1. CASE SendRaw("CONNECT", TRUE) /\ thread' = "ack"
               /\ UNCHANGED <<connected, sock, open, cmdVars, running, ui>>
      <3>1. NetOK'
        BY <1>0, <2>1, SendRawFacts
      <3>. QED
        BY <1>0, <2>1, <3>1 DEF CmdOK, CtlOK, Threads
    <2>2. CASE SendRaw("CONNECT", FALSE) /\ thread' = "backoff" /\ CloseSocket
               /\ UNCHANGED <<sent, whole, got, executed, running, ui>>
      <3>1. NetOK'
        BY <1>0, <2>2, SendRawFacts
      <3>. QED
        BY <1>0, <2>2, <3>1, CloseFacts DEF CmdOK, CtlOK, Threads
    <2>. QED BY <1>3, <2>1, <2>2 DEF LoopHello
  <1>4. CASE LoopAck
    <2>1. CASE /\ thread' = "acked"
               /\ UNCHANGED <<connected, sock, open, cmdVars, running, ui, netVars>>
      BY <1>0, <2>1 DEF NetOK, CmdOK, CtlOK, Threads
    <2>2. CASE thread' = "backoff" /\ CloseSocket
               /\ UNCHANGED <<sent, whole, got, executed, running, ui, netVars>>
      BY <1>0, <2>2, CloseFacts DEF NetOK, CmdOK, CtlOK, Threads
    <2>. QED BY <1>4, <2>1, <2>2 DEF LoopAck
  <1>5. CASE LoopUp
    <2>1. connected' \in BOOLEAN
      BY <1>5, Zenon DEF LoopUp
    <2>. QED
      BY <1>0, <1>5, <2>1 DEF LoopUp, NetOK, CmdOK, CtlOK, Threads, Announcing
  <1>6. CASE LoopAnnounces
    <2>1. UNCHANGED <<running, connected, sock, ui, open, cmdVars>> /\ thread' \in Threads
      BY <1>6 DEF LoopAnnounces, Threads, Announcing, Serving
    <2>2. \/ Publish("ONLINE") \/ Publish("DISCOVERY") \/ UNCHANGED netVars
          \/ \E ok \in BOOLEAN : SendRaw("SUBSCRIBE", ok)
      BY <1>6, Zenon DEF LoopAnnounces
    <2>3. NetOK'
      <3>1. CASE UNCHANGED netVars
        BY <1>0, <3>1 DEF NetOK
      <3>. QED
        BY <1>0, <2>2, <3>1, PublishFacts, SendRawFacts
    <2>. QED
      BY <1>0, <2>1, <2>3 DEF CmdOK, CtlOK
  <1>7. CASE LoopReadFails \/ LoopReadTimesOut \/ LoopNoPing \/ LoopBackoff
    <2>1. UNCHANGED <<running, connected, sock, ui, open, netVars, cmdVars>> /\ thread' \in Threads
      BY <1>7 DEF LoopReadFails, LoopReadTimesOut, LoopNoPing, LoopBackoff, Threads, Serving
    <2>. QED
      BY <1>0, <2>1 DEF NetOK, CmdOK, CtlOK
  <1>8. CASE LoopReadsHeader
    <2>1. /\ thread' \in Threads
          /\ UNCHANGED <<running, connected, sock, ui, open, netVars, owed, sent, whole, executed>>
      BY <1>8 DEF LoopReadsHeader, Threads, Serving
    <2>2. /\ inbox # <<>> /\ inbox' = Tail(inbox)
          /\ got' \in {Head(inbox).cmd, got}
      BY <1>8 DEF LoopReadsHeader
    <2>3. /\ Head(inbox) \in [cmd : Cmds, part : {"head", "body"}]
          /\ inbox' \in Seq([cmd : Cmds, part : {"head", "body"}])
      BY <1>0, <2>2, HeadTailType DEF CmdOK
    <2>4. got' \in Cmds \cup {0}
      BY <1>0, <2>2, <2>3 DEF CmdOK
    <2>. QED
      BY <1>0, <2>1, <2>3, <2>4 DEF NetOK, CmdOK, CtlOK
  <1>9. CASE LoopReadsGarbage
    <2>1. thread' \in Threads
          /\ UNCHANGED <<running, connected, sock, ui, open, netVars>>
          /\ UNCHANGED <<owed, sent, whole, got, executed>>
      BY <1>9 DEF LoopReadsGarbage, Threads, Serving
    <2>2. PICK n \in 1 .. Len(inbox) : inbox' = SubSeq(inbox, n + 1, Len(inbox))
      BY <1>9 DEF LoopReadsGarbage
    <2>3. inbox' \in Seq([cmd : Cmds, part : {"head", "body"}])
      BY <1>0, <2>2, SuffixType DEF CmdOK
    <2>. QED
      BY <1>0, <2>1, <2>3 DEF NetOK, CmdOK, CtlOK
  <1>10. CASE LoopReadsPayload
    <2>1. thread' \in Threads /\ got' = 0
          /\ UNCHANGED <<running, connected, sock, ui, open, netVars, owed, sent, whole>>
      BY <1>10 DEF LoopReadsPayload, Threads, Serving
    <2>2. \/ inbox' = inbox /\ executed' = executed
          \/ inbox # <<>> /\ inbox' = Tail(inbox) /\ executed' = Append(executed, got)
      BY <1>10 DEF LoopReadsPayload, PayloadArrived
    <2>3. inbox' \in Seq([cmd : Cmds, part : {"head", "body"}])
      <3>1. inbox \in Seq([cmd : Cmds, part : {"head", "body"}])
        BY <1>0 DEF CmdOK
      <3>2. inbox # <<>> => Tail(inbox) \in Seq([cmd : Cmds, part : {"head", "body"}])
        BY <3>1, HeadTailType
      <3>. QED BY <2>2, <3>1, <3>2
    <2>4. got \in Cmds /\ executed \in Seq(Cmds)
      BY <1>0, <1>10 DEF LoopReadsPayload, GotOK, CmdOK
    <2>5. executed' \in Seq(Cmds)
      <3>1. Append(executed, got) \in Seq(Cmds)
        BY <2>4
      <3>. QED BY <2>2, <2>4, <3>1
    <2>. QED
      BY <1>0, <2>1, <2>3, <2>5 DEF NetOK, CmdOK, CtlOK
  <1>11. CASE LoopPings
    <2>1. UNCHANGED <<running, connected, sock, ui, open, cmdVars>> /\ thread' \in Threads
          /\ \E ok \in BOOLEAN : SendRaw("PINGREQ", ok)
      BY <1>11 DEF LoopPings, Threads, Serving
    <2>2. NetOK'
      BY <1>0, <2>1, SendRawFacts
    <2>. QED
      BY <1>0, <2>1, <2>2 DEF CmdOK, CtlOK
  <1>12. CASE LoopCloses
    <2>1. CloseSocket /\ thread' \in Threads
          /\ UNCHANGED <<running, ui, netVars, sent, whole, got, executed>>
      BY <1>12 DEF LoopCloses, Threads
    <2>. QED
      BY <1>0, <2>1, CloseFacts DEF NetOK, CmdOK, CtlOK
  <1>. QED
    BY <1>1, <1>2, <1>3, <1>4, <1>5, <1>6, <1>7, <1>8, <1>9, <1>10, <1>11, <1>12
       DEF Loop, LoopReads

\* So do the steps of the UI thread, the broker and the network.
LEMMA OtherTypeStep ==
    ASSUME NetOK, CmdOK, CtlOK, Ui \/ Broker
    PROVE  NetOK' /\ CmdOK' /\ CtlOK'
  <1>. USE DEF netVars, cmdVars
  <1>0. open \subseteq Conns
    BY DEF CtlOK
  <1>1. CASE UiPublishes
    BY <1>1 DEF UiPublishes, NetOK, CmdOK, CtlOK
  <1>2. CASE UiWrites
    <2>1. ui' = "idle" /\ UNCHANGED <<running, connected, sock, thread, open, cmdVars>>
          /\ \E ok \in BOOLEAN : SendRaw("PUBLISH", ok)
      BY <1>2 DEF UiWrites
    <2>. QED
      BY <2>1, SendRawFacts DEF CmdOK, CtlOK
  <1>3. CASE UiStops
    <2>1. running' \in BOOLEAN
      BY <1>3, Zenon DEF UiStops
    <2>. QED
      BY <1>3, <2>1 DEF UiStops, NetOK, CmdOK, CtlOK
  <1>4. CASE UiClosesSocket
    <2>1. CloseSocket /\ ui' = "joining"
          /\ UNCHANGED <<running, thread, netVars, sent, whole, got, executed>>
      BY <1>4 DEF UiClosesSocket
    <2>. QED
      BY <1>0, <2>1, CloseFacts DEF NetOK, CmdOK, CtlOK
  <1>5. CASE UiJoins
    <2>1. running' \in BOOLEAN
      BY <1>5 DEF UiJoins, CtlOK
    <2>2. thread' \in Threads /\ ui' = "idle"
          /\ UNCHANGED <<connected, sock, open, netVars, cmdVars>>
      BY <1>5 DEF UiJoins, Threads
    <2>. QED
      BY <2>1, <2>2 DEF NetOK, CmdOK, CtlOK
  <1>6. CASE BrokerSendsHead
    <2>1. UNCHANGED <<running, connected, sock, thread, ui, open, netVars, whole, got, executed>>
          /\ inbox' = Append(inbox, [cmd |-> sent + 1, part |-> "head"])
          /\ sent' = sent + 1 /\ owed' = sent + 1 /\ sent < MaxCmds
      BY <1>6 DEF BrokerSendsHead
    <2>2. sent + 1 \in Cmds
      BY <2>1, MqttAssumption DEF CmdOK, Cmds
    <2>3. inbox' \in Seq([cmd : Cmds, part : {"head", "body"}])
      BY <2>1, <2>2 DEF CmdOK
    <2>. QED
      BY <2>1, <2>2, <2>3 DEF NetOK, CmdOK, CtlOK
  <1>7. CASE BrokerSendsBody
    <2>1. UNCHANGED <<running, connected, sock, thread, ui, open, netVars, sent, got, executed>>
          /\ inbox' = Append(inbox, [cmd |-> owed, part |-> "body"])
          /\ owed' = 0 /\ whole' = whole \cup {owed} /\ owed # 0
      BY <1>7 DEF BrokerSendsBody
    <2>2. owed \in Cmds
      BY <2>1 DEF CmdOK
    <2>3. inbox' \in Seq([cmd : Cmds, part : {"head", "body"}])
      BY <2>1, <2>2 DEF CmdOK
    <2>. QED
      BY <2>1, <2>2, <2>3 DEF NetOK, CmdOK, CtlOK
  <1>8. CASE BrokerSeesClose \/ KeepAliveExpires
    BY <1>8 DEF BrokerSeesClose, KeepAliveExpires, SessionEnds, NetOK, CmdOK, CtlOK
  <1>9. ASSUME NEW c \in Conns, BrokerCloses(c) \/ NetworkDrops(c) \/ KernelGivesUp(c)
        PROVE  NetOK' /\ CmdOK' /\ CtlOK'
    <2>1. UNCHANGED <<running, connected, sock, thread, ui, open, link, cmdVars>>
      BY <1>9 DEF BrokerCloses, NetworkDrops, KernelGivesUp
    <2>2. peer' \in [Conns -> Peers]
      BY <1>9 DEF BrokerCloses, NetworkDrops, KernelGivesUp, NetOK, Peers
    <2>3. session' \in Conns \cup {NoConn} /\ status' \in {"none", "online", "offline"}
      BY <1>9 DEF BrokerCloses, NetworkDrops, KernelGivesUp, SessionEnds, NetOK
    <2>. QED
      BY <2>1, <2>2, <2>3 DEF NetOK, CmdOK, CtlOK
  <1>. QED
    BY <1>1, <1>2, <1>3, <1>4, <1>5, <1>6, <1>7, <1>8, <1>9 DEF Ui, Broker

\* The command being read is a real one.
LEMMA GotStep ==
    ASSUME CmdOK, CtlOK, GotOK, Next
    PROVE  GotOK'
  <1>1. CASE LoopReadsHeader
    <2>1. Head(inbox) \in [cmd : Cmds, part : {"head", "body"}]
      BY <1>1, HeadTailType DEF LoopReadsHeader, CmdOK
    <2>2. 0 \notin Cmds
      BY DEF Cmds
    <2>. QED
      BY <1>1, <2>1, <2>2 DEF LoopReadsHeader, GotOK
  <1>2. CASE Loop /\ ~LoopReadsHeader
    BY <1>2 DEF Loop, LoopReads, LoopTop, LoopDials, LoopHello, LoopAck, LoopUp, LoopAnnounces,
       LoopReadFails, LoopReadTimesOut, LoopReadsGarbage, LoopReadsPayload, LoopPings,
       LoopNoPing, LoopCloses, LoopBackoff, GotOK
  <1>3. CASE Ui \/ Broker
    BY <1>3 DEF Ui, Broker, UiPublishes, UiWrites, UiStops, UiClosesSocket, UiJoins,
       BrokerSendsHead, BrokerSendsBody, BrokerSeesClose, KeepAliveExpires, BrokerCloses,
       NetworkDrops, KernelGivesUp, GotOK, cmdVars
  <1>. QED
    BY <1>1, <1>2, <1>3 DEF Next

\* Every step keeps every variable within its type.
LEMMA TypeStep ==
    ASSUME TypeOK, [Next]_vars
    PROVE  TypeOK'
  <1>1. NetOK /\ CmdOK /\ CtlOK /\ GotOK
    BY DEF TypeOK, NetOK, CmdOK, CtlOK, GotOK
  <1>2. CASE Next
    <2>1. NetOK' /\ CmdOK' /\ CtlOK'
      BY <1>1, <1>2, LoopTypeStep, OtherTypeStep DEF Next
    <2>2. GotOK'
      BY <1>1, <1>2, GotStep
    <2>. QED
      BY <2>1, <2>2 DEF TypeOK, NetOK, CmdOK, CtlOK, GotOK
  <1>3. CASE UNCHANGED vars
    BY <1>3 DEF vars, TypeOK
  <1>. QED
    BY <1>2, <1>3

\* The client starts well typed.
LEMMA TypeInit == Init => TypeOK
  <1>. SUFFICES ASSUME Init PROVE TypeOK
    OBVIOUS
  <1>1. CtlOK
    BY DEF Init, CtlOK, Threads
  <1>2. NetOK
    BY DEF Init, NetOK, Links, Peers
  <1>3. CmdOK /\ GotOK
    BY DEF Init, CmdOK, GotOK
  <1>. QED
    BY <1>1, <1>2, <1>3 DEF TypeOK, NetOK, CmdOK, CtlOK, GotOK

\* Type correctness of the client.
THEOREM MqttTyped == Spec => []TypeOK
  <1>1. TypeOK /\ [Next]_vars => TypeOK'
    BY TypeStep
  <1>. QED
    BY TypeInit, <1>1, PTL DEF Spec

-----------------------------------------------------------------------------
(* The invariant of the shared socket.                                     *)

SocketInv ==
    /\ Descriptors
    /\ FreshMeansHello
    /\ ConnectFirst

FlagInv ==
    /\ ClosedBetween
    /\ ConnectedMeansUp
    /\ PublishInTime
    /\ RunningMeansThread

\* A write on a used connection, by whichever thread, keeps the socket's part
\* of the invariant when the loop thread is not on its way to CONNECT.
LEMMA WriteKeepsSocket ==
    ASSUME NetOK, CtlOK, SocketInv, thread # "hello",
           NEW pkt, Publish(pkt) \/ (\E ok \in BOOLEAN : SendRaw(pkt, ok)),
           UNCHANGED <<sock, open>>
    PROVE  SocketInv'
  <1>1. /\ NetOK'
        /\ sock # NoConn /\ link[sock] # "fresh" => link'[sock] \in {link[sock], "subscribed"}
        /\ \A c \in Conns : c # sock => link'[c] = link[c]
    BY PublishFacts, SendRawFacts
  <1>2. sock # NoConn => sock \in Conns /\ link[sock] # "fresh" /\ link[sock] # "misused"
    BY DEF SocketInv, FreshMeansHello, ConnectFirst, CtlOK
  <1>3. FreshMeansHello'
    BY <1>1, <1>2 DEF FreshMeansHello
  <1>4. ConnectFirst'
    <2>. SUFFICES ASSUME NEW c \in Conns PROVE link'[c] # "misused"
      BY DEF ConnectFirst
    <2>1. link[c] # "misused"
      BY DEF SocketInv, ConnectFirst
    <2>2. c # NoConn
      BY MqttAssumption
    <2>. QED
      BY <1>1, <1>2, <2>1, <2>2
  <1>. QED
    BY <1>3, <1>4 DEF SocketInv, Descriptors

\* Closing the socket keeps it whatever was written.
LEMMA CloseKeepsSocket ==
    ASSUME CtlOK, SocketInv, CloseSocket,
           \A c \in Conns : link'[c] # "misused"
    PROVE  SocketInv'
  BY CloseFacts DEF CtlOK, SocketInv, Descriptors, FreshMeansHello, ConnectFirst

\* A step that leaves the socket and the packets alone keeps it, unless the
\* loop thread skips CONNECT.
LEMMA QuietKeepsSocket ==
    ASSUME SocketInv, thread # "hello", UNCHANGED <<sock, open, link>>
    PROVE  SocketInv'
  BY DEF SocketInv, Descriptors, FreshMeansHello, ConnectFirst

\* The loop thread's steps keep the socket's part.
LEMMA LoopSocketStep ==
    ASSUME NetOK, CtlOK, SocketInv, FlagInv, Loop
    PROVE  SocketInv'
  <1>. USE DEF netVars
  <1>0. \A c \in Conns : link[c] # "misused"
    BY DEF SocketInv, ConnectFirst
  <1>1. CASE LoopTop
    <2>1. thread # "hello" /\ UNCHANGED link /\ (CloseSocket \/ UNCHANGED <<sock, open>>)
      BY <1>1 DEF LoopTop
    <2>. QED
      BY <1>0, <2>1, CloseKeepsSocket, QuietKeepsSocket
  <1>2. CASE LoopDials
    <2>1. CASE thread' = "backoff" /\ UNCHANGED <<sock, open, link>>
      BY <1>2, <2>1, QuietKeepsSocket DEF LoopDials
    <2>2. CASE \E c \in Conns \ (open \cup {session}) :
                 /\ sock' = c /\ open' = open \cup {c}
                 /\ link' = [link EXCEPT ![c] = "fresh"]
                 /\ thread' = "hello"
      <3>1. PICK c \in Conns \ (open \cup {session}) :
                 /\ sock' = c /\ open' = open \cup {c}
                 /\ link' = [link EXCEPT ![c] = "fresh"]
                 /\ thread' = "hello"
        BY <2>2
      <3>2. sock = NoConn /\ open = {}
        BY <1>2 DEF LoopDials, FlagInv, ClosedBetween, Connecting, SocketInv, Descriptors
      <3>3. open' = {sock'} \ {NoConn}
        BY <3>1, <3>2, MqttAssumption
      <3>4. \A d \in Conns : link'[d] # "misused"
        BY <1>0, <3>1 DEF NetOK
      <3>. QED
        BY <3>1, <3>3, <3>4 DEF SocketInv, Descriptors, FreshMeansHello, ConnectFirst
    <2>. QED
      BY <1>2, <2>1, <2>2 DEF LoopDials
  <1>3. CASE LoopHello
    <2>1. \A ok \in BOOLEAN : SendRaw("CONNECT", ok) =>
             /\ \A c \in Conns : link'[c] # "misused"
             /\ ok => sock # NoConn /\ link'[sock] # "fresh"
      <3>. SUFFICES ASSUME NEW ok \in BOOLEAN, SendRaw("CONNECT", ok)
                    PROVE  /\ \A c \in Conns : link'[c] # "misused"
                           /\ ok => sock # NoConn /\ link'[sock] # "fresh"
        OBVIOUS
      <3>1. sock # NoConn => sock \in Conns
        BY DEF CtlOK
      <3>2. ok => sock # NoConn
        BY DEF SendRaw
      <3>3. /\ sock # NoConn /\ link[sock] # "fresh" => link'[sock] \in {link[sock], "subscribed"}
            /\ \A c \in Conns : c # sock => link'[c] = link[c]
            /\ sock # NoConn /\ link[sock] = "fresh" =>
                 \/ link'[sock] \in {"accepted", "refused"}
                 \/ ~ok /\ link'[sock] = "fresh"
        BY SendRawFacts
      <3>4. ASSUME NEW c \in Conns PROVE link'[c] # "misused"
        BY <1>0, <3>3, MqttAssumption
      <3>. QED
        BY <1>0, <3>1, <3>2, <3>3, <3>4
    <2>2. CASE SendRaw("CONNECT", TRUE) /\ UNCHANGED <<sock, open>>
      <3>1. \A c \in Conns : link'[c] # "misused"
        BY <2>1, <2>2
      <3>2. sock # NoConn /\ link'[sock] # "fresh"
        BY <2>1, <2>2
      <3>. QED
        BY <2>2, <3>1, <3>2 DEF SocketInv, Descriptors, FreshMeansHello, ConnectFirst
    <2>3. CASE SendRaw("CONNECT", FALSE) /\ CloseSocket
      BY <2>1, <2>3, CloseKeepsSocket
    <2>. QED
      BY <1>3, <2>2, <2>3 DEF LoopHello
  <1>4. CASE LoopAck
    <2>1. thread # "hello" /\ UNCHANGED link /\ (CloseSocket \/ UNCHANGED <<sock, open>>)
      BY <1>4 DEF LoopAck
    <2>. QED
      BY <1>0, <2>1, CloseKeepsSocket, QuietKeepsSocket
  <1>5. CASE LoopAnnounces
    <2>1. thread # "hello" /\ UNCHANGED <<sock, open>>
      BY <1>5 DEF LoopAnnounces
    <2>2. \/ Publish("ONLINE") \/ Publish("DISCOVERY") \/ UNCHANGED link
          \/ \E ok \in BOOLEAN : SendRaw("SUBSCRIBE", ok)
      BY <1>5, Zenon DEF LoopAnnounces
    <2>. QED
      BY <2>1, <2>2, WriteKeepsSocket, QuietKeepsSocket
  <1>6. CASE LoopUp \/ LoopReads \/ LoopNoPing \/ LoopBackoff
    <2>1. thread # "hello" /\ UNCHANGED <<sock, open, link>>
      BY <1>6 DEF LoopUp, LoopReads, LoopReadFails, LoopReadTimesOut, LoopReadsHeader,
         LoopReadsGarbage, LoopReadsPayload, LoopNoPing, LoopBackoff
    <2>. QED
      BY <2>1, QuietKeepsSocket
  <1>7. CASE LoopPings
    <2>1. thread # "hello" /\ UNCHANGED <<sock, open>> /\ \E ok \in BOOLEAN : SendRaw("PINGREQ", ok)
      BY <1>7 DEF LoopPings
    <2>. QED
      BY <2>1, WriteKeepsSocket
  <1>8. CASE LoopCloses
    BY <1>0, <1>8, CloseKeepsSocket DEF LoopCloses
  <1>. QED
    BY <1>1, <1>2, <1>3, <1>4, <1>5, <1>6, <1>7, <1>8 DEF Loop

\* So do the UI thread, the broker and the network: a publish that was let
\* through finds a connection that has seen CONNECT, or none.
LEMMA OtherSocketStep ==
    ASSUME NetOK, CtlOK, SocketInv, FlagInv, Ui \/ Broker
    PROVE  SocketInv'
  <1>. USE DEF netVars
  <1>0. \A c \in Conns : link[c] # "misused"
    BY DEF SocketInv, ConnectFirst
  <1>1. CASE UiWrites
    <2>1. thread # "hello"
      BY <1>1 DEF UiWrites, FlagInv, PublishInTime, Announcing, Serving
    <2>2. UNCHANGED <<sock, open>> /\ \E ok \in BOOLEAN : SendRaw("PUBLISH", ok)
      BY <1>1 DEF UiWrites
    <2>. QED
      BY <2>1, <2>2, WriteKeepsSocket
  <1>2. CASE UiClosesSocket
    BY <1>0, <1>2, CloseKeepsSocket DEF UiClosesSocket
  <1>3. CASE UiJoins
    <2>1. thread # "hello" /\ UNCHANGED <<sock, open, link>>
      BY <1>3 DEF UiJoins
    <2>. QED
      BY <2>1, QuietKeepsSocket
  <1>4. CASE UiPublishes \/ UiStops \/ Broker
    <2>1. UNCHANGED <<sock, open, link, thread>>
      BY <1>4 DEF UiPublishes, UiStops, Broker, BrokerSendsHead, BrokerSendsBody,
         BrokerSeesClose, KeepAliveExpires, BrokerCloses, NetworkDrops, KernelGivesUp
    <2>. QED
      BY <2>1 DEF SocketInv, Descriptors, FreshMeansHello, ConnectFirst
  <1>. QED
    BY <1>1, <1>2, <1>3, <1>4 DEF Ui

-----------------------------------------------------------------------------
(* The invariant of the flags.                                             *)

\* The loop thread's steps keep the flags in agreement with its place.
LEMMA LoopFlagStep ==
    ASSUME CtlOK, FlagInv, Loop
    PROVE  FlagInv'
  <1>. USE DEF FlagInv, ClosedBetween, ConnectedMeansUp, PublishInTime, RunningMeansThread,
           Connecting, Announcing, Serving, netVars, cmdVars
  <1>0. open \subseteq Conns /\ running \in BOOLEAN /\ connected \in BOOLEAN
    BY DEF CtlOK
  <1>1. CASE LoopTop
    <2>1. CASE ~running
      BY <1>1, <2>1 DEF LoopTop
    <2>2. CASE running
      <3>1. thread = "connect" /\ thread' = "dialing" /\ UNCHANGED <<running, ui>> /\ CloseSocket
        BY <1>1, <2>2 DEF LoopTop
      <3>. QED
        BY <1>0, <3>1, CloseFacts
    <2>. QED
      BY <2>1, <2>2
  <1>2. CASE LoopDials
    <2>1. thread = "dialing" /\ UNCHANGED <<running, connected, ui>>
          /\ (thread' = "hello" \/ (thread' = "backoff" /\ sock' = sock))
      BY <1>2 DEF LoopDials
    <2>. QED
      BY <2>1
  <1>3. CASE LoopHello \/ LoopAck
    <2>1. thread \in {"hello", "ack"} /\ UNCHANGED <<running, ui>>
          /\ \/ thread' \in {"ack", "acked"} /\ UNCHANGED connected
             \/ thread' = "backoff" /\ CloseSocket
      BY <1>3 DEF LoopHello, LoopAck
    <2>. QED
      BY <1>0, <2>1, CloseFacts
  <1>4. CASE LoopUp
    BY <1>4 DEF LoopUp
  <1>5. CASE LoopAnnounces \/ LoopReads \/ LoopPings \/ LoopNoPing
    <2>1. /\ thread \in Announcing \cup Serving
          /\ thread' \in Announcing \cup Serving \cup {"closing"}
          /\ UNCHANGED <<running, connected, ui>>
      BY <1>5 DEF LoopAnnounces, LoopReads, LoopReadFails, LoopReadTimesOut, LoopReadsHeader,
         LoopReadsGarbage, LoopReadsPayload, LoopPings, LoopNoPing
    <2>. QED
      BY <2>1
  <1>6. CASE LoopCloses
    <2>1. thread = "closing" /\ UNCHANGED <<running, ui>> /\ CloseSocket
          /\ thread' = IF running THEN "backoff" ELSE "connect"
      BY <1>6 DEF LoopCloses
    <2>. QED
      BY <1>0, <2>1, CloseFacts
  <1>7. CASE LoopBackoff
    BY <1>7 DEF LoopBackoff
  <1>. QED
    BY <1>1, <1>2, <1>3, <1>4, <1>5, <1>6, <1>7 DEF Loop

\* So do the UI thread's; the broker and the network touch neither.
LEMMA OtherFlagStep ==
    ASSUME CtlOK, FlagInv, Ui \/ Broker
    PROVE  FlagInv'
  <1>. USE DEF FlagInv, ClosedBetween, ConnectedMeansUp, PublishInTime, RunningMeansThread,
           Connecting, Announcing, Serving, netVars, cmdVars
  <1>0. open \subseteq Conns /\ running \in BOOLEAN /\ connected \in BOOLEAN
    BY DEF CtlOK
  <1>1. CASE UiPublishes
    BY <1>1 DEF UiPublishes
  <1>2. CASE UiWrites
    BY <1>2 DEF UiWrites
  <1>3. CASE UiStops
    <2>1. ~running' /\ ui' = "stopping" /\ UNCHANGED <<connected, sock, thread>>
      BY <1>3 DEF UiStops
    <2>. QED
      BY <2>1
  <1>4. CASE UiClosesSocket
    <2>1. ui = "stopping" /\ ui' = "joining" /\ UNCHANGED <<running, thread>> /\ CloseSocket
      BY <1>4 DEF UiClosesSocket
    <2>. QED
      BY <1>0, <2>1, CloseFacts
  <1>5. CASE UiJoins
    <2>1. /\ UNCHANGED <<connected, sock>> /\ ui = "joining"
          /\ ui' = "idle" /\ thread \in {"none", "ended"}
      BY <1>5 DEF UiJoins
    <2>2. ~running /\ sock = NoConn /\ ~connected
      BY <2>1
    <2>3. (running' /\ thread' = "connect") \/ (~running' /\ thread' = "none")
      BY <1>5, <2>2 DEF UiJoins
    <2>. QED
      BY <2>1, <2>2, <2>3
  <1>6. CASE Broker
    <2>1. UNCHANGED <<running, connected, sock, thread, ui>>
      BY <1>6 DEF Broker, BrokerSendsHead, BrokerSendsBody, BrokerSeesClose, KeepAliveExpires,
         BrokerCloses, NetworkDrops, KernelGivesUp
    <2>. QED
      BY <2>1
  <1>. QED
    BY <1>1, <1>2, <1>3, <1>4, <1>5, <1>6 DEF Ui

-----------------------------------------------------------------------------
(* The theorems.                                                           *)

\* MqttInv holds at the start.
LEMMA InvInit == Init => MqttInv
  <1>. SUFFICES ASSUME Init PROVE MqttInv
    OBVIOUS
  <1>1. TypeOK
    BY TypeInit
  <1>2. Descriptors /\ FreshMeansHello /\ ConnectFirst
    BY DEF Init, Descriptors, FreshMeansHello, ConnectFirst
  <1>3. ~connected /\ running \in BOOLEAN /\ sock = NoConn /\ ui = "idle"
        /\ thread = IF running THEN "connect" ELSE "none"
    BY DEF Init
  <1>4. ClosedBetween /\ ConnectedMeansUp /\ PublishInTime /\ RunningMeansThread
    BY <1>3 DEF ClosedBetween, ConnectedMeansUp, PublishInTime, RunningMeansThread
  <1>. QED
    BY <1>1, <1>2, <1>4 DEF MqttInv

\* MqttInv is inductive.
LEMMA InvStep == MqttInv /\ [Next]_vars => MqttInv'
  <1>. SUFFICES ASSUME MqttInv, [Next]_vars PROVE MqttInv'
    OBVIOUS
  <1>1. NetOK /\ CtlOK /\ SocketInv /\ FlagInv
    BY DEF MqttInv, TypeOK, NetOK, CtlOK, SocketInv, FlagInv
  <1>2. TypeOK'
    BY TypeStep DEF MqttInv
  <1>3. SocketInv' /\ FlagInv'
    <2>1. CASE Loop
      BY <1>1, <2>1, LoopSocketStep, LoopFlagStep
    <2>2. CASE Ui \/ Broker
      BY <1>1, <2>2, OtherSocketStep, OtherFlagStep
    <2>3. CASE UNCHANGED vars
      BY <1>1, <2>3 DEF vars, SocketInv, FlagInv, Descriptors, FreshMeansHello, ConnectFirst,
         ClosedBetween, ConnectedMeansUp, PublishInTime, RunningMeansThread
    <2>. QED
      BY <2>1, <2>2, <2>3 DEF Next
  <1>. QED
    BY <1>2, <1>3 DEF MqttInv, SocketInv, FlagInv

\* The socket, the packets and the flags agree in every state.
THEOREM MqttInvariant == Spec => []MqttInv
  BY InvInit, InvStep, PTL DEF Spec

\* CONNECT is the first packet of every connection, for any number of
\* reconnections and however telemetry, stop and the loop thread interleave.
THEOREM ConnectIsFirst == Spec => []ConnectFirst
  <1>1. MqttInv => ConnectFirst
    BY DEF MqttInv
  <1>. QED
    BY MqttInvariant, <1>1, PTL

\* A joined client holds no descriptor and does not claim to be connected.
THEOREM StopLeavesNothing == Spec => []StoppedIsClean
  <1>1. MqttInv => StoppedIsClean
    BY DEF MqttInv, StoppedIsClean, ClosedBetween, Descriptors
  <1>. QED
    BY MqttInvariant, <1>1, PTL

\* Every open descriptor is the one sock_fd_ names.
THEOREM DescriptorsAreKnown == Spec => []NoLostDescriptor
  <1>1. MqttInv => NoLostDescriptor
    BY DEF MqttInv, NoLostDescriptor, Descriptors
  <1>. QED
    BY MqttInvariant, <1>1, PTL

-----------------------------------------------------------------------------
(* The announcement.                                                       *)

\* Until stop() is called the loop thread goes on with the flag up.
RunningIsUp == running /\ thread \in Announcing \cup Serving => connected

\* Behind the announcement a connection the broker holds is announced.
Announced ==
    /\ thread \in {"discover", "subscribe"} \cup Serving /\ running
    /\ session # NoConn /\ session = sock /\ peer[sock] = "open"
    => status = "online"

OnlineInv == RunningIsUp /\ Announced

\* A write on a used connection ends no session, wakes no connection, and
\* publishes "online" when that is the packet and the broker gets it.
LEMMA WriteFacts ==
    ASSUME NetOK, CtlOK, sock # NoConn => link[sock] # "fresh",
           NEW pkt, NEW ok \in BOOLEAN, SendRaw(pkt, ok)
    PROVE  /\ session' = session
           /\ status' \in {status, "online"}
           /\ sock # NoConn /\ peer'[sock] = "open" => peer[sock] = "open"
           /\ pkt = "ONLINE" /\ sock # NoConn /\ session = sock /\ peer[sock] = "open" =>
                 status' = "online"
  <1>1. CASE sock = NoConn
    BY <1>1 DEF SendRaw, netVars
  <1>2. CASE sock # NoConn /\ peer[sock] = "open"
    <2>1. BrokerReceives(pkt) /\ link[sock] # "fresh"
      BY <1>2 DEF SendRaw
    <2>2. /\ session' = session /\ peer' = peer
          /\ status' = IF pkt = "ONLINE" /\ session = sock THEN "online" ELSE status
      BY <2>1 DEF BrokerReceives
    <2>. QED
      BY <1>2, <2>2
  <1>3. CASE sock # NoConn /\ peer[sock] # "open"
    <2>1. /\ session' = session /\ status' = status /\ sock \in Conns
          /\ peer' \in {peer, [peer EXCEPT ![sock] = "reset"], [peer EXCEPT ![sock] = "dead"]}
      BY <1>3 DEF SendRaw, CtlOK
    <2>2. peer'[sock] # "open"
      BY <1>3, <2>1 DEF NetOK
    <2>. QED
      BY <1>3, <2>1, <2>2
  <1>. QED
    BY <1>1, <1>2, <1>3

\* Such a write leaves the announcement standing.
LEMMA WriteKeepsAnnounced ==
    ASSUME MqttInv, Announced, thread # "hello", NEW pkt, NEW ok \in BOOLEAN, SendRaw(pkt, ok),
           UNCHANGED <<sock, running>>,
           thread' \in {"discover", "subscribe"} \cup Serving =>
               thread \in {"discover", "subscribe"} \cup Serving
    PROVE  Announced'
  <1>1. sock # NoConn => link[sock] # "fresh"
    BY DEF MqttInv, FreshMeansHello
  <1>2. /\ session' = session
        /\ status' \in {status, "online"}
        /\ sock # NoConn /\ peer'[sock] = "open" => peer[sock] = "open"
    BY <1>1, WriteFacts DEF MqttInv, TypeOK, NetOK, CtlOK
  <1>. QED
    BY <1>2 DEF Announced

\* The loop thread's steps keep the announcement.
LEMMA LoopOnlineStep ==
    ASSUME MqttInv, OnlineInv, Loop
    PROVE  OnlineInv'
  <1>. USE DEF OnlineInv
  <1>0. /\ NetOK /\ CtlOK /\ open \subseteq Conns
        /\ sock # NoConn /\ thread # "hello" => link[sock] # "fresh"
    BY DEF MqttInv, TypeOK, NetOK, CtlOK, FreshMeansHello
  <1>1. CASE LoopTop \/ LoopDials \/ LoopHello \/ LoopAck \/ LoopCloses \/ LoopBackoff
    <2>1. thread' \notin Announcing \cup Serving
      BY <1>1 DEF LoopTop, LoopDials, LoopHello, LoopAck, LoopCloses, LoopBackoff, Announcing,
         Serving
    <2>. QED
      BY <2>1 DEF RunningIsUp, Announced, Announcing
  <1>2. CASE LoopUp
    <2>1. thread' = "online" /\ connected'
      BY <1>2 DEF LoopUp
    <2>. QED
      BY <2>1 DEF RunningIsUp, Announced, Serving
  <1>3. CASE LoopAnnounces
    <2>1. /\ thread \in Announcing /\ UNCHANGED <<running, connected, sock>>
          /\ thread' # "online" /\ (thread = "online" => Publish("ONLINE"))
          /\ \/ thread = "online"
             \/ UNCHANGED netVars
             \/ \E pkt \in {"DISCOVERY", "SUBSCRIBE"}, ok \in BOOLEAN : SendRaw(pkt, ok)
      BY <1>3, Zenon DEF LoopAnnounces, Publish, Announcing
    <2>2. RunningIsUp'
      BY <2>1 DEF RunningIsUp
    <2>3. CASE thread = "online"
      <3>. SUFFICES ASSUME running', session' # NoConn, session' = sock', peer'[sock'] = "open"
                    PROVE  status' = "online"
        BY <2>2 DEF Announced
      <3>1. connected
        BY <2>1 DEF RunningIsUp
      <3>2. PICK ok \in BOOLEAN : SendRaw("ONLINE", ok)
        BY <2>1, <2>3, <3>1 DEF Publish
      <3>3. /\ session' = session
            /\ sock # NoConn /\ peer'[sock] = "open" => peer[sock] = "open"
            /\ sock # NoConn /\ session = sock /\ peer[sock] = "open" => status' = "online"
        BY <1>0, <2>3, <3>2, WriteFacts
      <3>. QED
        BY <2>1, <3>3
    <2>4. CASE thread # "online" /\ UNCHANGED netVars
      BY <2>1, <2>2, <2>4 DEF Announced, Announcing, netVars
    <2>5. CASE thread # "online" /\
               \E pkt \in {"DISCOVERY", "SUBSCRIBE"}, ok \in BOOLEAN : SendRaw(pkt, ok)
      <3>1. thread # "hello" /\ thread \in {"discover", "subscribe"}
        BY <2>1, <2>5 DEF Announcing
      <3>. QED
        BY <2>1, <2>2, <2>5, <3>1, WriteKeepsAnnounced
    <2>. QED
      BY <2>1, <2>3, <2>4, <2>5
  <1>4. CASE LoopReads \/ LoopNoPing
    <2>1. /\ thread \in Serving /\ thread' \in Serving \cup {"closing"}
          /\ UNCHANGED <<running, connected, sock, netVars>>
      BY <1>4 DEF LoopReads, LoopReadFails, LoopReadTimesOut, LoopReadsHeader, LoopReadsGarbage,
         LoopReadsPayload, LoopNoPing, Serving
    <2>. QED
      BY <2>1 DEF RunningIsUp, Announced, Announcing, Serving, netVars
  <1>5. CASE LoopPings
    <2>1. /\ thread = "tick" /\ thread' \in {"read", "closing"}
          /\ UNCHANGED <<running, connected, sock>>
          /\ \E ok \in BOOLEAN : SendRaw("PINGREQ", ok)
      BY <1>5 DEF LoopPings
    <2>2. RunningIsUp'
      BY <2>1 DEF RunningIsUp, Announcing, Serving
    <2>3. thread \in Serving
      BY <2>1 DEF Serving
    <2>. QED
      BY <2>1, <2>2, <2>3, WriteKeepsAnnounced
  <1>. QED
    BY <1>1, <1>2, <1>3, <1>4, <1>5 DEF Loop

\* So do the UI thread, the broker and the network: a session that ends is no
\* longer the client's.
LEMMA OtherOnlineStep ==
    ASSUME MqttInv, OnlineInv, Ui \/ Broker
    PROVE  OnlineInv'
  <1>. USE DEF OnlineInv
  <1>0. /\ NetOK /\ CtlOK /\ RunningMeansThread
    BY DEF MqttInv, TypeOK, NetOK, CtlOK
  <1>1. CASE UiWrites
    <2>1. thread # "hello"
      BY <1>1 DEF UiWrites, MqttInv, PublishInTime, Announcing, Serving
    <2>2. /\ UNCHANGED <<running, connected, sock, thread>>
          /\ \E ok \in BOOLEAN : SendRaw("PUBLISH", ok)
      BY <1>1 DEF UiWrites
    <2>. QED
      BY <2>1, <2>2, WriteKeepsAnnounced DEF RunningIsUp
  <1>2. CASE UiStops \/ UiClosesSocket
    <2>1. ~running'
      BY <1>0, <1>2 DEF UiStops, UiClosesSocket, RunningMeansThread
    <2>. QED
      BY <2>1 DEF RunningIsUp, Announced
  <1>3. CASE UiJoins
    <2>1. thread' \in {"connect", "none"}
      BY <1>3 DEF UiJoins
    <2>. QED
      BY <2>1 DEF RunningIsUp, Announced, Announcing, Serving
  <1>4. CASE UiPublishes
    BY <1>4 DEF UiPublishes, RunningIsUp, Announced, netVars
  <1>5. CASE Broker
    <2>1. UNCHANGED <<running, connected, sock, thread>>
      BY <1>5 DEF Broker, BrokerSendsHead, BrokerSendsBody, BrokerSeesClose, KeepAliveExpires,
         BrokerCloses, NetworkDrops, KernelGivesUp
    <2>2. /\ session' = NoConn \/ UNCHANGED <<session, status>>
          /\ \/ UNCHANGED peer
             \/ \E c \in Conns, p \in {"closed", "silent", "reset"} : peer' = [peer EXCEPT ![c] = p]
      BY <1>5 DEF Broker, BrokerSendsHead, BrokerSendsBody, BrokerSeesClose, KeepAliveExpires,
         BrokerCloses, NetworkDrops, KernelGivesUp, SessionEnds, netVars
    <2>3. sock # NoConn /\ peer'[sock] = "open" => peer[sock] = "open"
      BY <1>0, <2>2 DEF NetOK, CtlOK
    <2>. QED
      BY <2>1, <2>2, <2>3 DEF RunningIsUp, Announced
  <1>. QED
    BY <1>1, <1>2, <1>3, <1>4, <1>5 DEF Ui

\* While the loop serves a healthy connection that the broker holds, the
\* retained status is "online", whatever older connections' wills and late
\* telemetry did: the announcement was neither refused nor overwritten.
THEOREM ServedIsOnline == Spec => []ServedMeansOnline
  <1>1. Init => OnlineInv
    <2>1. Init => thread \in {"connect", "none"}
      BY DEF Init
    <2>. QED
      BY <2>1 DEF OnlineInv, RunningIsUp, Announced, Announcing, Serving
  <1>2. MqttInv /\ OnlineInv /\ [Next]_vars => OnlineInv'
    <2>1. CASE UNCHANGED vars
      BY <2>1 DEF vars, OnlineInv, RunningIsUp, Announced
    <2>. QED
      BY <2>1, LoopOnlineStep, OtherOnlineStep DEF Next
  <1>3. OnlineInv => ServedMeansOnline
    BY DEF OnlineInv, Announced, ServedMeansOnline
  <1>. QED
    BY MqttInvariant, <1>1, <1>2, <1>3, PTL DEF Spec

-----------------------------------------------------------------------------
(* The commands.                                                           *)

\* A header is followed by its payload, or by nothing as long as the broker
\* owes the payload; a payload in the stream was sent.
StreamIsFramed ==
    \A i \in DOMAIN inbox :
        /\ inbox[i].part = "head" =>
              \/ /\ i + 1 \in DOMAIN inbox
                 /\ inbox[i + 1].cmd = inbox[i].cmd /\ inbox[i + 1].part = "body"
              \/ i = Len(inbox) /\ owed = inbox[i].cmd
        /\ inbox[i].part = "body" => inbox[i].cmd \in whole

\* Headers arrive in the order in which the commands were sent.
StreamIsOrdered ==
    /\ \A i \in DOMAIN inbox : inbox[i].cmd <= sent
    /\ \A i, j \in DOMAIN inbox :
          i < j /\ inbox[i].part = "head" /\ inbox[j].part = "head" => inbox[i].cmd < inbox[j].cmd

\* Behind a header the loop thread finds the payload of the same command.
ReaderIsInStep ==
    thread = "payload" /\ sock # NoConn =>
        IF inbox = <<>> THEN owed = got
                        ELSE inbox[1].part = "body" /\ inbox[1].cmd = got

\* What was executed is older than what is being read, and that older than what
\* is still to be read.
ReaderIsInOrder ==
    /\ got <= sent
    /\ \A e \in DOMAIN executed :
          /\ executed[e] <= sent
          /\ \A i \in DOMAIN inbox : inbox[i].part = "head" => executed[e] < inbox[i].cmd
          /\ thread = "payload" => executed[e] < got
    /\ thread = "payload" =>
          \A i \in DOMAIN inbox : inbox[i].part = "head" => got < inbox[i].cmd

StreamInv == StreamIsFramed /\ StreamIsOrdered
ReaderInv == ReaderIsInStep /\ ReaderIsInOrder /\ CommandsWholeAndInOrder

\* What is left of a framed and ordered stream is framed and ordered.
LEMMA StreamShifts ==
    ASSUME CmdOK, StreamInv, NEW n \in Nat, UNCHANGED <<owed, sent, whole>>,
           \A i \in DOMAIN inbox' : i \in Nat /\ i + n \in DOMAIN inbox /\ inbox'[i] = inbox[i + n],
           \A i \in Nat : i # 0 /\ i + n \in DOMAIN inbox => i \in DOMAIN inbox',
           Len(inbox') + n = Len(inbox), Len(inbox') \in Nat, Len(inbox) \in Nat
    PROVE  StreamInv'
  <1>1. \A i \in DOMAIN inbox : i \in Nat
    BY DEF CmdOK
  <1>2. StreamIsFramed'
    <2>. SUFFICES ASSUME NEW i \in DOMAIN inbox'
                  PROVE  /\ inbox'[i].part = "head" =>
                              \/ /\ i + 1 \in DOMAIN inbox'
                                 /\ inbox'[i + 1].cmd = inbox'[i].cmd
                                 /\ inbox'[i + 1].part = "body"
                              \/ i = Len(inbox') /\ owed = inbox'[i].cmd
                         /\ inbox'[i].part = "body" => inbox'[i].cmd \in whole
      BY DEF StreamIsFramed
    <2>1. i \in Nat /\ i + n \in DOMAIN inbox /\ inbox'[i] = inbox[i + n]
      OBVIOUS
    <2>2. /\ inbox[i + n].part = "head" =>
                \/ /\ (i + n) + 1 \in DOMAIN inbox
                   /\ inbox[(i + n) + 1].cmd = inbox[i + n].cmd
                   /\ inbox[(i + n) + 1].part = "body"
                \/ i + n = Len(inbox) /\ owed = inbox[i + n].cmd
          /\ inbox[i + n].part = "body" => inbox[i + n].cmd \in whole
      BY <2>1 DEF StreamInv, StreamIsFramed
    <2>3. (i + n) + 1 = (i + 1) + n /\ i + 1 \in Nat /\ i + 1 # 0
      BY <2>1
    <2>4. (i + 1) + n \in DOMAIN inbox =>
             i + 1 \in DOMAIN inbox' /\ inbox'[i + 1] = inbox[(i + 1) + n]
      BY <2>3
    <2>5. i + n = Len(inbox) => i = Len(inbox')
      BY <2>1
    <2>. QED
      BY <2>1, <2>2, <2>3, <2>4, <2>5
  <1>3. \A i \in DOMAIN inbox' : inbox'[i].cmd <= sent'
    BY DEF StreamInv, StreamIsOrdered
  <1>4. ASSUME NEW i \in DOMAIN inbox', NEW j \in DOMAIN inbox', i < j,
               inbox'[i].part = "head", inbox'[j].part = "head"
        PROVE  inbox'[i].cmd < inbox'[j].cmd
    <2>1. /\ i \in Nat /\ i + n \in DOMAIN inbox /\ inbox'[i] = inbox[i + n]
          /\ j \in Nat /\ j + n \in DOMAIN inbox /\ inbox'[j] = inbox[j + n]
      OBVIOUS
    <2>2. i + n < j + n
      BY <1>4, <2>1
    <2>3. inbox[i + n].cmd < inbox[j + n].cmd
      BY <1>4, <2>1, <2>2 DEF StreamInv, StreamIsOrdered
    <2>. QED
      BY <2>1, <2>3
  <1>. QED
    BY <1>2, <1>3, <1>4 DEF StreamInv, StreamIsOrdered

\* The cases of that: nothing is taken, the first part, any number of parts.
LEMMA ShiftFacts ==
    ASSUME NEW S, NEW q \in Seq(S), NEW r, NEW n \in 0 .. Len(q), r = SubSeq(q, n + 1, Len(q))
    PROVE  /\ \A i \in DOMAIN r : i \in Nat /\ i + n \in DOMAIN q /\ r[i] = q[i + n]
           /\ \A i \in Nat : i # 0 /\ i + n \in DOMAIN q => i \in DOMAIN r
           /\ Len(r) + n = Len(q) /\ Len(r) \in Nat /\ Len(q) \in Nat
  OBVIOUS

LEMMA TailShifts ==
    ASSUME NEW S, NEW q \in Seq(S), q # <<>>
    PROVE  /\ 1 \in 0 .. Len(q) /\ Tail(q) = SubSeq(q, 1 + 1, Len(q))
           /\ 1 \in DOMAIN q /\ Head(q) = q[1]
  OBVIOUS

\* Taking nothing.
LEMMA StreamStays ==
    ASSUME CmdOK, StreamInv, UNCHANGED <<inbox, owed, sent, whole>>
    PROVE  StreamInv'
  BY DEF StreamInv, StreamIsFramed, StreamIsOrdered

\* An empty stream.
LEMMA StreamClears ==
    ASSUME inbox' = <<>>
    PROVE  StreamInv'
  BY DEF StreamInv, StreamIsFramed, StreamIsOrdered

\* Taking a number of parts.
LEMMA StreamTaken ==
    ASSUME CmdOK, StreamInv, UNCHANGED <<owed, sent, whole>>, NEW n \in 0 .. Len(inbox),
           inbox' = SubSeq(inbox, n + 1, Len(inbox))
    PROVE  /\ StreamInv'
           /\ \A i \in DOMAIN inbox' :
                 i \in Nat /\ i + n \in DOMAIN inbox /\ inbox'[i] = inbox[i + n]
           /\ \A i \in Nat : i # 0 /\ i + n \in DOMAIN inbox => i \in DOMAIN inbox'
           /\ Len(inbox') + n = Len(inbox)
  <1>1. /\ \A i \in DOMAIN inbox' : i \in Nat /\ i + n \in DOMAIN inbox /\ inbox'[i] = inbox[i + n]
        /\ \A i \in Nat : i # 0 /\ i + n \in DOMAIN inbox => i \in DOMAIN inbox'
        /\ Len(inbox') + n = Len(inbox) /\ Len(inbox') \in Nat /\ Len(inbox) \in Nat
    BY ShiftFacts DEF CmdOK
  <1>2. n \in Nat
    BY <1>1
  <1>. QED
    BY <1>1, <1>2, StreamShifts

\* Adding a part.
LEMMA AppendFacts ==
    ASSUME NEW S, NEW q \in Seq(S), NEW x, NEW r, r = Append(q, x)
    PROVE  /\ Len(q) \in Nat /\ Len(r) = Len(q) + 1 /\ DOMAIN r = 1 .. Len(q) + 1
           /\ DOMAIN q = 1 .. Len(q) /\ r[Len(q) + 1] = x
           /\ \A i \in DOMAIN q : r[i] = q[i]
  OBVIOUS

\* Positions and elements of a sequence.
LEMMA ElementType ==
    ASSUME NEW S, NEW q \in Seq(S)
    PROVE  \A i \in DOMAIN q : i \in Nat /\ q[i] \in S
  OBVIOUS

\* Numbers, where commands are compared.
LEMMA CommandNumbers ==
    ASSUME CmdOK
    PROVE  /\ sent \in Nat /\ owed \in Nat /\ got \in Nat
           /\ \A i \in DOMAIN inbox : i \in Nat /\ inbox[i].cmd \in Nat /\ inbox[i].cmd \in Cmds
           /\ \A e \in DOMAIN executed : e \in Nat /\ executed[e] \in Nat
  <1>1. Cmds \subseteq Nat
    BY MqttAssumption DEF Cmds
  <1>2. sent \in Nat /\ owed \in Nat /\ got \in Nat
    BY <1>1 DEF CmdOK
  <1>3. inbox \in Seq([cmd : Cmds, part : {"head", "body"}]) /\ executed \in Seq(Cmds)
    BY DEF CmdOK
  <1>4. \A i \in DOMAIN inbox : i \in Nat /\ inbox[i] \in [cmd : Cmds, part : {"head", "body"}]
    BY <1>3, ElementType, Zenon
  <1>5. \A e \in DOMAIN executed : e \in Nat /\ executed[e] \in Cmds
    BY <1>3, ElementType, Zenon
  <1>. QED
    BY <1>1, <1>2, <1>4, <1>5

\* A new command is sent: its header comes last and is the newest.
LEMMA HeadStep ==
    ASSUME CmdOK, GotOK, StreamInv, ReaderInv, BrokerSendsHead
    PROVE  StreamInv' /\ ReaderInv'
  <1>. DEFINE L == Len(inbox)
  <1>1. /\ owed = 0 /\ sent' = sent + 1 /\ owed' = sent + 1
        /\ inbox' = Append(inbox, [cmd |-> sent + 1, part |-> "head"])
        /\ UNCHANGED <<sock, thread, whole, got, executed>>
    BY DEF BrokerSendsHead
  <1>2. /\ L \in Nat /\ Len(inbox') = L + 1 /\ DOMAIN inbox' = 1 .. L + 1
        /\ DOMAIN inbox = 1 .. L /\ inbox'[L + 1] = [cmd |-> sent + 1, part |-> "head"]
        /\ \A i \in DOMAIN inbox : inbox'[i] = inbox[i]
    BY <1>1, AppendFacts DEF CmdOK
  <1>3. /\ sent \in Nat /\ got \in Nat
        /\ \A i \in DOMAIN inbox : i \in Nat /\ inbox[i].cmd \in Nat /\ inbox[i].cmd # 0
        /\ \A e \in DOMAIN executed : e \in Nat /\ executed[e] \in Nat
    BY CommandNumbers DEF Cmds
  <1>4. inbox'[L + 1].cmd = sent + 1 /\ inbox'[L + 1].part = "head"
    BY <1>2
  <1>5. \A i \in DOMAIN inbox' : i \in DOMAIN inbox \/ i = L + 1
    BY <1>2
  <1>. HIDE DEF L
  <1>6. StreamIsFramed'
    <2>1. ASSUME NEW i \in DOMAIN inbox
          PROVE  /\ inbox[i].part = "head" =>
                       /\ i + 1 \in DOMAIN inbox'
                       /\ inbox'[i + 1].cmd = inbox'[i].cmd /\ inbox'[i + 1].part = "body"
                 /\ inbox'[i].part = "body" => inbox'[i].cmd \in whole'
      <3>1. /\ inbox[i].part = "head" =>
                  \/ /\ i + 1 \in DOMAIN inbox
                     /\ inbox[i + 1].cmd = inbox[i].cmd /\ inbox[i + 1].part = "body"
                  \/ owed = inbox[i].cmd
            /\ inbox[i].part = "body" => inbox[i].cmd \in whole
        BY DEF StreamInv, StreamIsFramed
      <3>2. owed # inbox[i].cmd
        BY <1>1, <1>3
      <3>3. i + 1 \in DOMAIN inbox => i + 1 \in DOMAIN inbox'
        BY <1>2
      <3>. QED
        BY <1>1, <1>2, <3>1, <3>2, <3>3
    <2>. QED
      BY <1>1, <1>2, <1>4, <1>5, <2>1 DEF StreamIsFramed
  <1>7. StreamIsOrdered'
    <2>1. \A i \in DOMAIN inbox : inbox[i].cmd <= sent
      BY DEF StreamInv, StreamIsOrdered
    <2>2. \A i \in DOMAIN inbox' : inbox'[i].cmd <= sent'
      BY <1>1, <1>2, <1>3, <1>4, <1>5, <2>1
    <2>3. ASSUME NEW i \in DOMAIN inbox', NEW j \in DOMAIN inbox', i < j,
                 inbox'[i].part = "head", inbox'[j].part = "head"
          PROVE  inbox'[i].cmd < inbox'[j].cmd
      <3>1. i \in DOMAIN inbox
        BY <1>2, <2>3
      <3>2. CASE j \in DOMAIN inbox
        BY <1>2, <2>3, <3>1, <3>2 DEF StreamInv, StreamIsOrdered
      <3>3. CASE j = L + 1
        BY <1>2, <1>3, <1>4, <2>1, <3>1, <3>3
      <3>. QED
        BY <1>5, <3>2, <3>3
    <2>. QED
      BY <2>2, <2>3 DEF StreamIsOrdered
  <1>8. ReaderIsInStep'
    <2>. SUFFICES ASSUME thread' = "payload", sock' # NoConn
                  PROVE  inbox' # <<>> /\ inbox'[1].part = "body" /\ inbox'[1].cmd = got'
      BY DEF ReaderIsInStep
    <2>1. inbox # <<>> /\ inbox[1].part = "body" /\ inbox[1].cmd = got
      BY <1>1 DEF ReaderInv, ReaderIsInStep, GotOK
    <2>2. 1 \in DOMAIN inbox
      BY <2>1 DEF CmdOK
    <2>3. inbox' # <<>>
      BY <1>2
    <2>. QED
      BY <1>1, <1>2, <2>1, <2>2, <2>3
  <1>9. ReaderIsInOrder'
    <2>1. got <= sent /\ \A e \in DOMAIN executed : executed[e] <= sent
      BY DEF ReaderInv, ReaderIsInOrder
    <2>2. got' <= sent' /\ \A e \in DOMAIN executed' : executed'[e] <= sent'
      BY <1>1, <1>3, <2>1
    <2>3. ASSUME NEW e \in DOMAIN executed', NEW i \in DOMAIN inbox', inbox'[i].part = "head"
          PROVE  executed'[e] < inbox'[i].cmd
      <3>1. CASE i \in DOMAIN inbox
        BY <1>1, <1>2, <2>3, <3>1 DEF ReaderInv, ReaderIsInOrder
      <3>2. CASE i = L + 1
        BY <1>1, <1>3, <1>4, <2>1, <3>2
      <3>. QED
        BY <1>5, <3>1, <3>2
    <2>4. ASSUME thread' = "payload", NEW i \in DOMAIN inbox', inbox'[i].part = "head"
          PROVE  got' < inbox'[i].cmd
      <3>1. CASE i \in DOMAIN inbox
        BY <1>1, <1>2, <2>4, <3>1 DEF ReaderInv, ReaderIsInOrder
      <3>2. CASE i = L + 1
        BY <1>1, <1>3, <1>4, <2>1, <3>2
      <3>. QED
        BY <1>5, <3>1, <3>2
    <2>5. thread' = "payload" => \A e \in DOMAIN executed' : executed'[e] < got'
      BY <1>1 DEF ReaderInv, ReaderIsInOrder
    <2>. QED
      BY <2>2, <2>3, <2>4, <2>5 DEF ReaderIsInOrder
  <1>10. CommandsWholeAndInOrder'
    BY <1>1 DEF ReaderInv, CommandsWholeAndInOrder
  <1>. QED
    BY <1>6, <1>7, <1>8, <1>9, <1>10 DEF StreamInv, ReaderInv

\* The payload follows its header, which is last in the stream or was read.
LEMMA BodyStep ==
    ASSUME CmdOK, GotOK, StreamInv, ReaderInv, owed <= sent, BrokerSendsBody
    PROVE  StreamInv' /\ ReaderInv'
  <1>. DEFINE L == Len(inbox)
  <1>1. /\ owed # 0 /\ whole' = whole \cup {owed} /\ owed' = 0
        /\ inbox' = Append(inbox, [cmd |-> owed, part |-> "body"])
        /\ UNCHANGED <<sock, thread, sent, got, executed>>
    BY DEF BrokerSendsBody
  <1>2. /\ L \in Nat /\ Len(inbox') = L + 1 /\ DOMAIN inbox' = 1 .. L + 1
        /\ DOMAIN inbox = 1 .. L /\ inbox'[L + 1] = [cmd |-> owed, part |-> "body"]
        /\ \A i \in DOMAIN inbox : inbox'[i] = inbox[i]
    BY <1>1, AppendFacts DEF CmdOK
  <1>3. inbox'[L + 1].cmd = owed /\ inbox'[L + 1].part = "body"
    BY <1>2
  <1>4. \A i \in DOMAIN inbox' : i \in DOMAIN inbox \/ i = L + 1
    BY <1>2
  <1>. HIDE DEF L
  <1>5. StreamIsFramed'
    <2>1. ASSUME NEW i \in DOMAIN inbox
          PROVE  /\ inbox'[i].part = "head" =>
                       /\ i + 1 \in DOMAIN inbox'
                       /\ inbox'[i + 1].cmd = inbox'[i].cmd /\ inbox'[i + 1].part = "body"
                 /\ inbox'[i].part = "body" => inbox'[i].cmd \in whole'
      <3>1. /\ inbox[i].part = "head" =>
                  \/ /\ i + 1 \in DOMAIN inbox
                     /\ inbox[i + 1].cmd = inbox[i].cmd /\ inbox[i + 1].part = "body"
                  \/ i = L /\ owed = inbox[i].cmd
            /\ inbox[i].part = "body" => inbox[i].cmd \in whole
        BY DEF StreamInv, StreamIsFramed, L
      <3>2. i + 1 \in DOMAIN inbox'
        BY <1>2
      <3>. QED
        BY <1>1, <1>2, <1>3, <3>1, <3>2
    <2>. QED
      BY <1>1, <1>2, <1>3, <1>4, <2>1 DEF StreamIsFramed
  <1>6. StreamIsOrdered'
    <2>1. \A i \in DOMAIN inbox' : inbox'[i].cmd <= sent'
      BY <1>1, <1>2, <1>3, <1>4 DEF StreamInv, StreamIsOrdered
    <2>2. \A i \in DOMAIN inbox' : inbox'[i].part = "head" => i \in DOMAIN inbox
      BY <1>3, <1>4
    <2>. QED
      BY <1>2, <2>1, <2>2 DEF StreamInv, StreamIsOrdered
  <1>7. ReaderIsInStep'
    <2>. SUFFICES ASSUME thread' = "payload", sock' # NoConn
                  PROVE  inbox' # <<>> /\ inbox'[1].part = "body" /\ inbox'[1].cmd = got'
      BY DEF ReaderIsInStep
    <2>1. inbox' # <<>>
      BY <1>2
    <2>2. CASE inbox = <<>>
      <3>1. owed = got /\ L = 0
        BY <1>1, <2>2 DEF ReaderInv, ReaderIsInStep, L
      <3>. QED
        BY <1>1, <1>3, <2>1, <3>1
    <2>3. CASE inbox # <<>>
      <3>1. inbox[1].part = "body" /\ inbox[1].cmd = got
        BY <1>1, <2>3 DEF ReaderInv, ReaderIsInStep
      <3>2. 1 \in DOMAIN inbox
        BY <2>3 DEF CmdOK
      <3>. QED
        BY <1>1, <1>2, <2>1, <3>1, <3>2
    <2>. QED
      BY <2>2, <2>3
  <1>8. ReaderIsInOrder'
    <2>1. \A i \in DOMAIN inbox' :
             inbox'[i].part = "head" => i \in DOMAIN inbox /\ inbox'[i] = inbox[i]
      BY <1>2, <1>3, <1>4
    <2>. QED
      BY <1>1, <2>1 DEF ReaderInv, ReaderIsInOrder
  <1>9. CommandsWholeAndInOrder'
    BY <1>1 DEF ReaderInv, CommandsWholeAndInOrder
  <1>. QED
    BY <1>5, <1>6, <1>7, <1>8, <1>9 DEF StreamInv, ReaderInv

\* A header is read: its payload is next, and everything behind is newer.
LEMMA HeaderStep ==
    ASSUME CmdOK, StreamInv, ReaderInv, LoopReadsHeader
    PROVE  StreamInv' /\ ReaderInv'
  <1>1. /\ inbox # <<>> /\ Head(inbox).part = "head" /\ inbox' = Tail(inbox)
        /\ UNCHANGED <<sock, owed, sent, whole, executed>>
        /\ (thread' = "payload" /\ got' = Head(inbox).cmd) \/ (thread' # "payload" /\ got' = got)
    BY DEF LoopReadsHeader
  <1>2. /\ 1 \in 0 .. Len(inbox) /\ inbox' = SubSeq(inbox, 1 + 1, Len(inbox))
        /\ 1 \in DOMAIN inbox /\ Head(inbox) = inbox[1]
    BY <1>1, TailShifts DEF CmdOK
  <1>3. /\ StreamInv'
        /\ \A i \in DOMAIN inbox' : i \in Nat /\ i + 1 \in DOMAIN inbox /\ inbox'[i] = inbox[i + 1]
        /\ \A i \in Nat : i # 0 /\ i + 1 \in DOMAIN inbox => i \in DOMAIN inbox'
        /\ Len(inbox') + 1 = Len(inbox)
    BY <1>1, <1>2, StreamTaken
  <1>4. \A i \in DOMAIN inbox' : i + 1 > 1
    BY <1>3
  <1>5. ReaderIsInStep'
    <2>. SUFFICES ASSUME thread' = "payload"
                  PROVE  IF inbox' = <<>> THEN owed' = got'
                         ELSE inbox'[1].part = "body" /\ inbox'[1].cmd = got'
      BY DEF ReaderIsInStep
    <2>1. \/ /\ 1 + 1 \in DOMAIN inbox
             /\ inbox[1 + 1].cmd = inbox[1].cmd /\ inbox[1 + 1].part = "body"
          \/ 1 = Len(inbox) /\ owed = inbox[1].cmd
      BY <1>1, <1>2 DEF StreamInv, StreamIsFramed
    <2>2. CASE 1 + 1 \in DOMAIN inbox
      <3>1. 1 \in DOMAIN inbox'
        BY <1>3, <2>2
      <3>2. inbox' # <<>> /\ inbox'[1] = inbox[1 + 1]
        BY <1>3, <3>1
      <3>3. 1 # Len(inbox)
        BY <2>2 DEF CmdOK
      <3>. QED
        BY <1>1, <1>2, <2>1, <3>2, <3>3
    <2>3. CASE 1 + 1 \notin DOMAIN inbox
      <3>1. Len(inbox) = 1 /\ owed = inbox[1].cmd
        BY <2>1, <2>3
      <3>2. inbox' = <<>>
        BY <1>1, <3>1 DEF CmdOK
      <3>. QED
        BY <1>1, <1>2, <3>1, <3>2
    <2>. QED
      BY <2>2, <2>3
  <1>6. ReaderIsInOrder'
    <2>1. got' <= sent'
      BY <1>1, <1>2 DEF StreamInv, StreamIsOrdered, ReaderInv, ReaderIsInOrder
    <2>2. \A e \in DOMAIN executed' :
             /\ executed'[e] <= sent'
             /\ \A i \in DOMAIN inbox' : inbox'[i].part = "head" => executed'[e] < inbox'[i].cmd
             /\ thread' = "payload" => executed'[e] < got'
      BY <1>1, <1>2, <1>3 DEF ReaderInv, ReaderIsInOrder
    <2>3. ASSUME thread' = "payload", NEW i \in DOMAIN inbox', inbox'[i].part = "head"
          PROVE  got' < inbox'[i].cmd
      <3>1. i + 1 \in DOMAIN inbox /\ inbox[i + 1].part = "head" /\ 1 < i + 1
        BY <1>3, <1>4, <2>3
      <3>2. inbox[1].cmd < inbox[i + 1].cmd
        BY <1>1, <1>2, <3>1 DEF StreamInv, StreamIsOrdered
      <3>. QED
        BY <1>1, <1>2, <1>3, <2>3, <3>2
    <2>. QED
      BY <2>1, <2>2, <2>3 DEF ReaderIsInOrder
  <1>7. CommandsWholeAndInOrder'
    BY <1>1 DEF ReaderInv, CommandsWholeAndInOrder
  <1>. QED
    BY <1>3, <1>5, <1>6, <1>7 DEF ReaderInv

\* A stream that lost parts at its front leaves the order intact, as long as the
\* loop thread is not inside a frame.
LEMMA LosingParts ==
    ASSUME CmdOK, StreamInv, ReaderInv, UNCHANGED <<owed, sent, whole, executed>>,
           NEW n \in 0 .. Len(inbox), inbox' = SubSeq(inbox, n + 1, Len(inbox)),
           got' \in {0, got}, thread' # "payload"
    PROVE  StreamInv' /\ ReaderInv'
  <1>1. /\ StreamInv'
        /\ \A i \in DOMAIN inbox' : i \in Nat /\ i + n \in DOMAIN inbox /\ inbox'[i] = inbox[i + n]
    BY StreamTaken
  <1>2. ReaderIsInOrder'
    <2>1. got' <= sent
      BY CommandNumbers DEF ReaderInv, ReaderIsInOrder
    <2>. QED
      BY <1>1, <2>1 DEF ReaderInv, ReaderIsInOrder
  <1>. QED
    BY <1>1, <1>2 DEF ReaderInv, ReaderIsInStep, CommandsWholeAndInOrder

\* A payload is read and executed, or abandoned.
LEMMA PayloadStep ==
    ASSUME CmdOK, GotOK, StreamInv, ReaderInv, LoopReadsPayload
    PROVE  StreamInv' /\ ReaderInv'
  <1>1. /\ thread = "payload" /\ thread' = "tick" /\ got' = 0
        /\ UNCHANGED <<sock, owed, sent, whole>>
        /\ \/ /\ sock # NoConn /\ inbox # <<>> /\ Head(inbox).part = "body"
              /\ inbox' = Tail(inbox) /\ executed' = Append(executed, got)
           \/ UNCHANGED <<inbox, executed>>
    BY DEF LoopReadsPayload, PayloadArrived
  <1>2. CASE UNCHANGED <<inbox, executed>>
    <2>1. StreamInv'
      BY <1>1, <1>2, StreamStays
    <2>2. ReaderIsInOrder'
      <3>1. got' <= sent'
        BY <1>1, CommandNumbers
      <3>. QED
        BY <1>1, <1>2, <3>1 DEF ReaderInv, ReaderIsInOrder
    <2>. QED
      BY <1>1, <1>2, <2>1, <2>2 DEF ReaderInv, ReaderIsInStep, CommandsWholeAndInOrder
  <1>3. CASE /\ sock # NoConn /\ inbox # <<>> /\ Head(inbox).part = "body"
             /\ inbox' = Tail(inbox) /\ executed' = Append(executed, got)
    <2>. DEFINE E == Len(executed)
    <2>1. /\ 1 \in 0 .. Len(inbox) /\ inbox' = SubSeq(inbox, 1 + 1, Len(inbox))
          /\ 1 \in DOMAIN inbox /\ Head(inbox) = inbox[1]
      BY <1>3, TailShifts DEF CmdOK
    <2>2. /\ StreamInv'
          /\ \A i \in DOMAIN inbox' :
                i \in Nat /\ i + 1 \in DOMAIN inbox /\ inbox'[i] = inbox[i + 1]
      BY <1>1, <2>1, StreamTaken
    <2>3. got \in whole
      BY <1>1, <1>3, <2>1 DEF ReaderInv, ReaderIsInStep, StreamInv, StreamIsFramed
    <2>4. /\ E \in Nat /\ DOMAIN executed' = 1 .. E + 1 /\ DOMAIN executed = 1 .. E
          /\ executed'[E + 1] = got /\ \A e \in DOMAIN executed : executed'[e] = executed[e]
      BY <1>3, AppendFacts DEF CmdOK
    <2>5. \A e \in DOMAIN executed' : e \in DOMAIN executed \/ e = E + 1
      BY <2>4
    <2>. HIDE DEF E
    <2>6. got' <= sent' /\ got <= sent /\ \A e \in DOMAIN executed : executed[e] < got
      BY <1>1, CommandNumbers DEF ReaderInv, ReaderIsInOrder
    <2>7. ReaderIsInOrder'
      <3>1. \A i \in DOMAIN inbox' : inbox'[i].part = "head" =>
               got < inbox'[i].cmd /\ \A e \in DOMAIN executed : executed[e] < inbox'[i].cmd
        BY <1>1, <2>2 DEF ReaderInv, ReaderIsInOrder
      <3>2. \A e \in DOMAIN executed' :
               /\ executed'[e] <= sent'
               /\ \A i \in DOMAIN inbox' : inbox'[i].part = "head" => executed'[e] < inbox'[i].cmd
        BY <1>1, <2>4, <2>5, <2>6, <3>1 DEF ReaderInv, ReaderIsInOrder
      <3>. QED
        BY <1>1, <2>6, <3>2 DEF ReaderIsInOrder
    <2>8. CommandsWholeAndInOrder'
      <3>1. \A e \in DOMAIN executed' : executed'[e] \in whole'
        BY <1>1, <2>3, <2>4, <2>5 DEF ReaderInv, CommandsWholeAndInOrder
      <3>2. ASSUME NEW d \in DOMAIN executed', NEW e \in DOMAIN executed', d < e
            PROVE  executed'[d] < executed'[e]
        <4>1. d \in DOMAIN executed
          BY <2>4, <3>2
        <4>2. CASE e \in DOMAIN executed
          BY <2>4, <3>2, <4>1, <4>2 DEF ReaderInv, CommandsWholeAndInOrder
        <4>3. CASE e = E + 1
          BY <2>4, <2>6, <4>1, <4>3
        <4>. QED
          BY <2>5, <4>2, <4>3
      <3>. QED
        BY <3>1, <3>2 DEF CommandsWholeAndInOrder
    <2>. QED
      BY <1>1, <2>2, <2>7, <2>8 DEF ReaderInv, ReaderIsInStep
  <1>. QED
    BY <1>1, <1>2, <1>3

\* Steps that take nothing from the stream and add nothing to it.
LEMMA QuietCommands ==
    ASSUME CmdOK, StreamInv, ReaderInv, UNCHANGED cmdVars,
           thread' = "payload" => thread = "payload" /\ sock' = sock
    PROVE  StreamInv' /\ ReaderInv'
  <1>1. UNCHANGED <<inbox, owed, sent, whole, got, executed>>
    BY DEF cmdVars
  <1>. QED
    BY <1>1, StreamStays DEF ReaderInv, ReaderIsInStep, ReaderIsInOrder, CommandsWholeAndInOrder

\* Closing the socket drops the stream, also under a loop thread inside a frame.
LEMMA ClosingCommands ==
    ASSUME StreamInv, ReaderInv, CloseSocket, UNCHANGED <<sent, whole, got, executed>>,
           thread' = "payload" => thread = "payload"
    PROVE  StreamInv' /\ ReaderInv'
  <1>1. inbox' = <<>> /\ sock' = NoConn
    BY DEF CloseSocket
  <1>. QED
    BY <1>1, StreamClears DEF ReaderInv, ReaderIsInStep, ReaderIsInOrder, CommandsWholeAndInOrder

\* Every step keeps the stream and the reader in order.
LEMMA CommandStep ==
    ASSUME TypeOK, StreamInv, ReaderInv, owed <= sent, [Next]_vars
    PROVE  StreamInv' /\ ReaderInv' /\ (owed <= sent)'
  <1>. USE DEF cmdVars
  <1>0. CmdOK /\ GotOK
    BY DEF TypeOK, CmdOK, GotOK
  <1>1. CASE BrokerSendsHead
    BY <1>0, <1>1, HeadStep, CommandNumbers DEF BrokerSendsHead
  <1>2. CASE BrokerSendsBody
    BY <1>0, <1>2, BodyStep, CommandNumbers DEF BrokerSendsBody
  <1>3. CASE LoopReadsHeader
    BY <1>0, <1>3, HeaderStep DEF LoopReadsHeader
  <1>4. CASE LoopReadsPayload
    BY <1>0, <1>4, PayloadStep DEF LoopReadsPayload
  <1>5. CASE LoopReadsGarbage
    <2>1. PICK n \in 1 .. Len(inbox) : inbox' = SubSeq(inbox, n + 1, Len(inbox))
      BY <1>5 DEF LoopReadsGarbage
    <2>2. /\ UNCHANGED <<owed, sent, whole, executed, got>> /\ thread' # "payload"
      BY <1>5 DEF LoopReadsGarbage
    <2>3. n \in 0 .. Len(inbox)
      BY <1>0 DEF CmdOK
    <2>. QED
      BY <1>0, <2>1, <2>2, <2>3, LosingParts
  <1>6. CASE \/ LoopDials \/ LoopUp \/ LoopAnnounces \/ LoopReadFails \/ LoopReadTimesOut
             \/ LoopPings \/ LoopNoPing \/ LoopBackoff
             \/ UiPublishes \/ UiWrites \/ UiStops \/ UiJoins
             \/ BrokerSeesClose \/ KeepAliveExpires \/ UNCHANGED vars
             \/ \E c \in Conns : BrokerCloses(c) \/ NetworkDrops(c) \/ KernelGivesUp(c)
    <2>1. UNCHANGED cmdVars /\ (thread' = "payload" => thread = "payload" /\ sock' = sock)
      BY <1>6 DEF LoopDials, LoopUp, LoopAnnounces, LoopReadFails, LoopReadTimesOut, LoopPings,
         LoopNoPing, LoopBackoff, UiPublishes, UiWrites, UiStops, UiJoins, BrokerSeesClose,
         KeepAliveExpires, BrokerCloses, NetworkDrops, KernelGivesUp, vars
    <2>. QED
      BY <1>0, <2>1, QuietCommands
  <1>7. CASE LoopTop \/ LoopHello \/ LoopAck \/ LoopCloses \/ UiClosesSocket
    <2>1. /\ \/ UNCHANGED cmdVars
             \/ CloseSocket /\ UNCHANGED <<sent, whole, got, executed>>
          /\ thread' = "payload" => CloseSocket /\ thread = "payload"
      BY <1>7 DEF LoopTop, LoopHello, LoopAck, LoopCloses, UiClosesSocket
    <2>2. CASE UNCHANGED cmdVars /\ thread' # "payload"
      BY <1>0, <2>2, QuietCommands
    <2>3. CASE CloseSocket /\ UNCHANGED <<sent, whole, got, executed>>
      <3>1. owed' = 0
        BY <2>3 DEF CloseSocket
      <3>. QED
        BY <1>0, <2>1, <2>3, <3>1, ClosingCommands, CommandNumbers
    <2>. QED
      BY <1>7, <2>1, <2>2, <2>3 DEF LoopTop, LoopHello, LoopAck, LoopCloses, UiClosesSocket
  <1>. QED
    BY <1>1, <1>2, <1>3, <1>4, <1>5, <1>6, <1>7 DEF Next, Loop, LoopReads, Ui, Broker

\* Every command is executed at most once, in the order sent, and only when its
\* frame had been sent to its end, however often a stall inside a frame makes
\* the loop thread lose its place in the stream.
THEOREM CommandsInOrder == Spec => []CommandsWholeAndInOrder
  <1>. DEFINE Inv == StreamInv /\ ReaderInv /\ owed <= sent
  <1>1. Init => Inv
    <2>. SUFFICES ASSUME Init PROVE Inv
      OBVIOUS
    <2>1. inbox = <<>> /\ executed = <<>> /\ got = 0 /\ sent = 0 /\ owed = 0 /\ thread # "payload"
      BY DEF Init
    <2>. QED
      BY <2>1 DEF StreamInv, StreamIsFramed, StreamIsOrdered, ReaderInv, ReaderIsInStep,
         ReaderIsInOrder, CommandsWholeAndInOrder
  <1>2. TypeOK /\ Inv /\ [Next]_vars => Inv'
    BY CommandStep
  <1>3. Inv => CommandsWholeAndInOrder
    BY DEF ReaderInv
  <1>. HIDE DEF Inv
  <1>. QED
    BY MqttTyped, <1>1, <1>2, <1>3, PTL DEF Spec

=============================================================================
