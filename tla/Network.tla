------------------------------ MODULE Network ------------------------------
(***************************************************************************)
(* The network layer (Network/NetManager, Server and Client): sessions and *)
(* guaranteed messages over UDP.  Server and Client are NetManagers: a     *)
(* guaranteed message is numbered by its sender, kept and resent until it  *)
(* is confirmed, and recognised by the receiver from the identifier of the *)
(* sender and its number.  Clients have the identifier -1 until the server *)
(* gives them one.                                                         *)
(*                                                                         *)
(* Timeouts are off in the code (ourUseTimeouts), so neither records nor   *)
(* sessions expire and no pings are sent.  A step is the handling of one   *)
(* received message, one resend, or one call of the program.               *)
(***************************************************************************)
EXTENDS Integers, Sequences, SequencesExt

CONSTANTS
    Server,            \* the server's address
    Clients,           \* the clients' addresses, one Client object each
    NoAddress,         \* the address of a client that knows no server
    Lossy,             \* whether Lose may happen
    ServerLimit,       \* bounds on the guaranteed messages the server and each
    ClientLimit,       \* client send, not in the code
    Bounds             \* bounds to choose from when the system starts: the guaranteed
                       \* messages of each node, and whether the server also sends
                       \* those that only tell the program who is connected

ASSUME AddressAssumption ==
    /\ Server \notin Clients
    /\ NoAddress \notin Clients \cup {Server}
ASSUME SwitchAssumption == Lossy \in BOOLEAN
ASSUME LimitAssumption ==
    /\ ServerLimit \in Nat /\ ClientLimit \in Nat
    /\ Bounds \subseteq [server : 0 .. ServerLimit, client : [Clients -> 0 .. ClientLimit],
                         notices : BOOLEAN]

VARIABLES
    net,                      \* messages with a copy in transit
    myNextGuaranteedID,
    mySentGuaranteedList,     \* for each node, what it resends
    myReceivedGuaranteedList, \* for each node, <<sender, number>> it has seen
    myConnectedClients,       \* the server's sessions
    myOpenClientIDs,          \* identifiers to give again
    myNextClientID,
    myClientID,
    myIsConnected,
    myServerAddress,
    handled,                  \* history: how often the server handled each
                              \* message of the program, counted to 2
    bound                     \* the bounds chosen, which never change

serverVars == <<myConnectedClients, myOpenClientIDs, myNextClientID>>
clientVars == <<myClientID, myIsConnected, myServerAddress>>
guaranteeVars == <<myNextGuaranteedID, mySentGuaranteedList, myReceivedGuaranteedList>>
vars == <<net, guaranteeVars, serverVars, clientVars, handled, bound>>

-----------------------------------------------------------------------------
Nodes == Clients \cup {Server}

ServerID == 0
NoID == -1

FirstClientID == 1

MessageLimit(n) == IF n = Server THEN bound.server ELSE bound.client[n]

Types == {"handshake", "disconnect", "connected", "disconnected", "confirm", "data"}

Message == [type : Types, from : Nodes, to : Nodes \cup {NoAddress},
            sender : Int, target : Int, guaranteed : BOOLEAN, id : Nat]

\* A message before it is sent: Pack adds sender and number.
Packet(type, to, target) == [type |-> type, to |-> to, target |-> target]

ClientIDs == {client.id : client \in myConnectedClients}

-----------------------------------------------------------------------------
(***************************************************************************)
(* NetManager                                                              *)
(***************************************************************************)

\* Guaranteed packets as they leave node n: numbered in the order they are sent.
Pack(n, senderID, packets) ==
    {[type |-> packets[i].type, from |-> n, to |-> packets[i].to,
      sender |-> senderID, target |-> packets[i].target, guaranteed |-> TRUE,
      id |-> myNextGuaranteedID[n] + i - 1] : i \in 1 .. Len(packets)}

Reachable(messages) == {m \in messages : m.to # NoAddress}

ConfirmWithoutNumber(m) ==
    [type |-> "confirm", from |-> m.to, to |-> m.from, sender |-> NoID,
     target |-> NoID, guaranteed |-> FALSE, id |-> 0]

\* The confirmation of message m.  The receiver looks at its number only.
Confirm(m) ==
    [type |-> "confirm", from |-> m.to, to |-> m.from, sender |-> NoID,
     target |-> NoID, guaranteed |-> FALSE, id |-> m.id]

\* SendNetMessage for guaranteed packets, besides the unguaranteed messages
\* the same handler sends.
Send(n, senderID, packets, unguaranteed) ==
    /\ myNextGuaranteedID[n] + Len(packets) <= MessageLimit(n)
    /\ myNextGuaranteedID' = [myNextGuaranteedID EXCEPT ![n] = @ + Len(packets)]
    /\ mySentGuaranteedList' =
         [mySentGuaranteedList EXCEPT ![n] = @ \cup Pack(n, senderID, packets)]
    /\ net' = net \cup Reachable(Pack(n, senderID, packets)) \cup unguaranteed

NeverSeen(n, senderID, m) == FALSE

\* A message node n has seen before, by the identifier of its sender.
Seen(n, senderID, m) == <<senderID, m.id>> \in myReceivedGuaranteedList[n]

Record(n, senderID, m) ==
    myReceivedGuaranteedList' =
        [myReceivedGuaranteedList EXCEPT ![n] = @ \cup {<<senderID, m.id>>}]

UnconfirmedAfter(sent, m) == {other \in sent : other.id > m.id}

\* A confirmation ends the resending of the message with its number.
Unconfirmed(sent, m) == {other \in sent : other.id # m.id}

ReceiveConfirm(n, m) ==
    /\ mySentGuaranteedList' =
         [mySentGuaranteedList EXCEPT ![n] = Unconfirmed(@, m)]
    /\ UNCHANGED <<net, myNextGuaranteedID, myReceivedGuaranteedList,
                   serverVars, clientVars, handled>>

\* NetManager::Update: a message that is not confirmed is sent again.
Resend(n, m) ==
    /\ m \in Reachable(mySentGuaranteedList[n])
    /\ net' = net \cup {m}
    /\ UNCHANGED <<guaranteeVars, serverVars, clientVars, handled>>

\* The network loses the copies that are in transit.  Receiving a message
\* leaves it in transit: another copy may arrive, late or out of order.
Lose(m) ==
    /\ Lossy
    /\ m \in net
    /\ net' = net \ {m}
    /\ UNCHANGED <<guaranteeVars, serverVars, clientVars, handled>>

-----------------------------------------------------------------------------
(***************************************************************************)
(* Server                                                                  *)
(***************************************************************************)

\* The sessions FindConnectedClient finds.
FindConnectedClient(clientID) ==
    {client \in myConnectedClients : client.id = clientID}

\* The session of the address a handshake came from.
SessionsOf(address) == {client \in myConnectedClients : client.address = address}

\* ReceivedHandshake: the identifier the sender of a handshake gets, and what
\* is left to give.  Which of the open identifiers it gets is left open.  A
\* handshake that reaches the server carries no identifier: ConnectToServer
\* drops the old one before it sets the address.
AssignClientID(address, id) ==
    \/ /\ \E client \in SessionsOf(address) : client.id = id
       /\ UNCHANGED <<myOpenClientIDs, myNextClientID>>
    \/ /\ SessionsOf(address) = {}
       /\ id \in myOpenClientIDs
       /\ myOpenClientIDs' = myOpenClientIDs \ {id}
       /\ UNCHANGED myNextClientID
    \/ /\ SessionsOf(address) = {}
       /\ myOpenClientIDs = {}
       /\ id = myNextClientID
       /\ myNextClientID' = myNextClientID + 1
       /\ UNCHANGED myOpenClientIDs

\* ConnectClient: the new client hears of its identifier and of everyone who
\* is connected, itself included; the others hear of it.
ConnectPackets(client) ==
    LET others == IF bound.notices THEN SetToSeq(myConnectedClients) ELSE <<>>
    IN  <<Packet("handshake", client.address, client.id)>>
        \o [i \in 1 .. Len(others) |-> Packet("connected", client.address, client.id)]
        \o (IF bound.notices THEN <<Packet("connected", client.address, client.id)>> ELSE <<>>)
        \o [i \in 1 .. Len(others) |->
               Packet("connected", others[i].address, others[i].id)]

DisconnectPackets(client) ==
    LET others == IF bound.notices THEN SetToSeq(myConnectedClients \ {client}) ELSE <<>>
    IN  <<Packet("disconnect", client.address, client.id)>>
        \o [i \in 1 .. Len(others) |->
               Packet("disconnected", others[i].address, others[i].id)]

OpenAsBefore(next, id) == myOpenClientIDs

\* The open identifiers when the numbering shrinks to next.
OpenBelow(next, id) == myOpenClientIDs \ (next .. id - 1)

\* DisconnectClient: the identifier is given back.  The last client resets the
\* numbering; the highest identifier is taken back together with the open ones
\* right below it.
ReleaseClientID(client) ==
    LET id == client.id
    IN  \/ /\ myConnectedClients = {client}
           /\ myNextClientID' = FirstClientID
           /\ myOpenClientIDs' = {}
        \/ /\ myConnectedClients # {client}
           /\ id = myNextClientID - 1
           /\ \E next \in 1 .. id :
                 /\ next .. id - 1 \subseteq myOpenClientIDs
                 /\ next - 1 \notin myOpenClientIDs
                 /\ myNextClientID' = next
                 /\ myOpenClientIDs' = OpenBelow(next, id)
        \/ /\ myConnectedClients # {client}
           /\ id # myNextClientID - 1
           /\ myOpenClientIDs' = myOpenClientIDs \cup {id}
           /\ UNCHANGED myNextClientID

\* A handshake is confirmed and numbered under the identifier its sender gets.
\* If that pair is an old one the identifier is spent and nothing else happens.
ReceiveHandshake(m) ==
    \E id \in 1 .. myNextClientID :
        /\ AssignClientID(m.from, id)
        /\ LET client == [address |-> m.from, id |-> id]
               confirm == Confirm(m)
           IN  \/ /\ Seen(Server, id, m)
                  /\ net' = net \cup {confirm}
                  /\ UNCHANGED <<guaranteeVars, myConnectedClients>>
               \/ /\ ~Seen(Server, id, m)
                  /\ FindConnectedClient(id) # {}
                  /\ Record(Server, id, m)
                  /\ net' = net \cup {confirm}
                  /\ UNCHANGED <<myNextGuaranteedID, mySentGuaranteedList,
                                 myConnectedClients>>
               \/ /\ ~Seen(Server, id, m)
                  /\ FindConnectedClient(id) = {}
                  /\ Record(Server, id, m)
                  /\ myConnectedClients' = myConnectedClients \cup {client}
                  /\ Send(Server, ServerID, ConnectPackets(client), {confirm})
        /\ UNCHANGED <<clientVars, handled>>

\* A message of the program: OnReceivedMessage is called unless it is an old one.
ReceiveData(m) ==
    /\ net' = net \cup {Confirm(m)}
    /\ IF Seen(Server, m.sender, m)
       THEN UNCHANGED <<myReceivedGuaranteedList, handled>>
       ELSE /\ Record(Server, m.sender, m)
            /\ handled' = [handled EXCEPT ![<<m.from, m.id>>] = IF @ = 0 THEN 1 ELSE 2]
    /\ UNCHANGED <<myNextGuaranteedID, mySentGuaranteedList, serverVars, clientVars>>

\* A client says goodbye; its message names an identifier, not an address.
ReceiveDisconnect(m) ==
    \E client \in FindConnectedClient(m.sender) :
        /\ ReleaseClientID(client)
        /\ myConnectedClients' = myConnectedClients \ {client}
        /\ Send(Server, ServerID, DisconnectPackets(client), {})
        /\ UNCHANGED <<myReceivedGuaranteedList, clientVars, handled>>

ServerReceive(m) ==
    /\ m \in net /\ m.to = Server
    /\ \/ m.type = "confirm" /\ ReceiveConfirm(Server, m)
       \/ m.type = "handshake" /\ ReceiveHandshake(m)
       \/ m.type = "data" /\ ReceiveData(m)
       \/ m.type = "disconnect" /\ ReceiveDisconnect(m)

-----------------------------------------------------------------------------
(***************************************************************************)
(* Client                                                                  *)
(***************************************************************************)

\* The program names a server, whatever the client did before.  The numbers
\* and records of earlier sessions stay.
ConnectToServer(c) ==
    /\ myClientID' = [myClientID EXCEPT ![c] = NoID]
    /\ myIsConnected' = [myIsConnected EXCEPT ![c] = FALSE]
    /\ myServerAddress' = [myServerAddress EXCEPT ![c] = Server]
    /\ Send(c, NoID, <<Packet("handshake", Server, ServerID)>>, {})
    /\ UNCHANGED <<myReceivedGuaranteedList, serverVars, handled>>

\* The reconnect timer of a client that is not connected, which also runs
\* while it knows no server.
Reconnect(c) ==
    /\ ~myIsConnected[c]
    /\ Send(c, myClientID[c], <<Packet("handshake", myServerAddress[c], ServerID)>>, {})
    /\ UNCHANGED <<myReceivedGuaranteedList, serverVars, clientVars, handled>>

\* Disconnect: the goodbye is sent once and not guaranteed.  The client keeps
\* its identifier.
Disconnect(c) ==
    /\ myIsConnected[c]
    /\ net' = net \cup {[type |-> "disconnect", from |-> c, to |-> Server,
                        sender |-> myClientID[c], target |-> ServerID,
                        guaranteed |-> FALSE, id |-> 0]}
    /\ myIsConnected' = [myIsConnected EXCEPT ![c] = FALSE]
    /\ myServerAddress' = [myServerAddress EXCEPT ![c] = NoAddress]
    /\ UNCHANGED <<guaranteeVars, serverVars, myClientID, handled>>

\* Disconnect of a client that is not connected only forgets the server.
GiveUp(c) ==
    /\ ~myIsConnected[c]
    /\ myServerAddress' = [myServerAddress EXCEPT ![c] = NoAddress]
    /\ UNCHANGED <<net, guaranteeVars, serverVars, myClientID, myIsConnected, handled>>

\* The program sends a guaranteed message of its own.
SendData(c) ==
    /\ myIsConnected[c]
    /\ Send(c, myClientID[c], <<Packet("data", Server, ServerID)>>, {})
    /\ UNCHANGED <<myReceivedGuaranteedList, serverVars, clientVars, handled>>

CanReceiveConnected(c, type) == myIsConnected[c]

\* Without a session only handshakes are looked at; the rest is not confirmed.
CanReceiveMessage(c, type) == myIsConnected[c] \/ type = "handshake"

\* What a new message does: the answer to a handshake opens the session, a
\* disconnect meant for this session ends it.
Handle(c, m) ==
    IF ~myIsConnected[c]
    THEN /\ myClientID' = [myClientID EXCEPT ![c] = m.target]
         /\ myIsConnected' = [myIsConnected EXCEPT ![c] = TRUE]
         /\ UNCHANGED myServerAddress
    ELSE IF m.target = myClientID[c] /\ m.type = "disconnect"
         THEN /\ myClientID' = [myClientID EXCEPT ![c] = NoID]
              /\ myIsConnected' = [myIsConnected EXCEPT ![c] = FALSE]
              /\ UNCHANGED myServerAddress
         ELSE UNCHANGED clientVars

ClientReceiveGuaranteed(c, m) ==
    /\ m.guaranteed
    /\ net' = net \cup {Confirm(m)}
    /\ IF Seen(c, m.sender, m)
       THEN UNCHANGED <<myReceivedGuaranteedList, clientVars>>
       ELSE Record(c, m.sender, m) /\ Handle(c, m)
    /\ UNCHANGED <<myNextGuaranteedID, mySentGuaranteedList, serverVars, handled>>

ClientReceive(c, m) ==
    /\ m \in net /\ m.to = c
    /\ CanReceiveMessage(c, m.type)
    /\ \/ m.type = "confirm" /\ ReceiveConfirm(c, m)
       \/ ClientReceiveGuaranteed(c, m)

-----------------------------------------------------------------------------
Init ==
    /\ net = {}
    /\ myNextGuaranteedID = [n \in Nodes |-> 0]
    /\ mySentGuaranteedList = [n \in Nodes |-> {}]
    /\ myReceivedGuaranteedList = [n \in Nodes |-> {}]
    /\ myConnectedClients = {}
    /\ myOpenClientIDs = {}
    /\ myNextClientID = FirstClientID
    /\ myClientID = [c \in Clients |-> NoID]
    /\ myIsConnected = [c \in Clients |-> FALSE]
    /\ myServerAddress = [c \in Clients |-> NoAddress]
    /\ handled = [x \in Clients \X (0 .. ClientLimit - 1) |-> 0]
    /\ bound \in Bounds

Step ==
    \/ \E m \in net : ServerReceive(m) \/ Lose(m)
    \/ \E c \in Clients, m \in net : ClientReceive(c, m)
    \/ \E n \in Nodes : \E m \in mySentGuaranteedList[n] : Resend(n, m)
    \/ \E c \in Clients :
          ConnectToServer(c) \/ Reconnect(c) \/ Disconnect(c) \/ GiveUp(c) \/ SendData(c)

Next == Step /\ UNCHANGED bound

Spec == Init /\ [][Next]_vars

\* A message that is resent for ever arrives, and so does a confirmation that
\* is sent for ever.  Updates are called again and again; nobody has to
\* connect, send or leave.
ResendID(n, i) ==
    \E m \in mySentGuaranteedList[n] : m.id = i /\ Resend(n, m) /\ UNCHANGED bound

Receive(m) ==
    (ServerReceive(m) \/ \E c \in Clients : ClientReceive(c, m)) /\ UNCHANGED bound

ReceiveID(n, i) == \E m \in net : m.from = n /\ m.guaranteed /\ m.id = i /\ Receive(m)

ConfirmID(n, i) == \E m \in net : m.to = n /\ m.type = "confirm" /\ m.id = i /\ Receive(m)

Fairness ==
    \A n \in Nodes :
        \A i \in 0 .. (IF n = Server THEN ServerLimit ELSE ClientLimit) - 1 :
        /\ WF_vars(ResendID(n, i))
        /\ SF_vars(ReceiveID(n, i))
        /\ SF_vars(ConfirmID(n, i))

FairSpec == Spec /\ Fairness

-----------------------------------------------------------------------------
(***************************************************************************)
(* Properties                                                              *)
(***************************************************************************)

\* Every variable keeps its type.
TypeOK ==
    /\ net \subseteq Message
    /\ myNextGuaranteedID \in [Nodes -> Nat]
    /\ mySentGuaranteedList \in [Nodes -> SUBSET Message]
    /\ myReceivedGuaranteedList \in [Nodes -> SUBSET (Int \X Nat)]
    /\ myConnectedClients \subseteq [address : Clients, id : Nat \ {0}]
    /\ myOpenClientIDs \subseteq Nat \ {0}
    /\ myNextClientID \in Nat \ {0}
    /\ myClientID \in [Clients -> Int]
    /\ myIsConnected \in [Clients -> BOOLEAN]
    /\ myServerAddress \in [Clients -> {Server, NoAddress}]
    /\ handled \in [Clients \X (0 .. ClientLimit - 1) -> 0 .. 2]
    /\ bound \in Bounds

\* Two sessions never share an identifier, and none has one that the server
\* would give again, however often clients come and go.
DistinctClientIDs ==
    /\ \A a, b \in myConnectedClients : a.id = b.id => a = b
    /\ ClientIDs \cap myOpenClientIDs = {}
    /\ ClientIDs \cup myOpenClientIDs \subseteq 1 .. myNextClientID - 1

\* However many handshakes of a client arrive, it has one session.
OneSessionPerAddress ==
    \A a, b \in myConnectedClients : a.address = b.address => a = b

\* Sessions are sound: no two share an identifier or an address, however often
\* clients come and go and whatever arrives twice or late (Server.cpp:147-172,
\* 242-287).
NetworkInv == TypeOK /\ DistinctClientIDs /\ OneSessionPerAddress

\* A message is resent until its receiver has recorded it: what stops the
\* resending is never a confirmation of something else, or one sent too early.
ConfirmedIsRecorded ==
    [][\A n \in Nodes :
          \A m \in mySentGuaranteedList[n] \ mySentGuaranteedList'[n] :
             m.to \in Nodes /\ \E record \in myReceivedGuaranteedList[m.to] : record[2] = m.id]_vars

\* The server handles a message of the program at most once, although its
\* copies are resent, delayed and doubled across sessions.
HandledOnce == \A x \in Clients \X (0 .. ClientLimit - 1) : handled[x] <= 1

\* A client without a session, with a handshake the server has not seen.
Joining(c) ==
    /\ myServerAddress[c] = Server /\ ~myIsConnected[c]
    /\ SessionsOf(c) = {}
    /\ \E m \in Reachable(mySentGuaranteedList[c]) :
          /\ m.type = "handshake"
          /\ \A record \in myReceivedGuaranteedList[Server] : record[2] # m.id

\* The bound on the server's messages leaves no room for another session.
AtLimit ==
    myNextGuaranteedID[Server] + Len(ConnectPackets([address |-> Server, id |-> 1]))
        > bound.server

\* A client that has no session and asks for one gets it, although every
\* message can be lost, unless it gives up.
JoinSucceeds ==
    \A c \in Clients :
        Joining(c) ~> (myIsConnected[c] \/ myServerAddress[c] = NoAddress \/ AtLimit)

Sending(c, i) == \E m \in mySentGuaranteedList[c] : m.id = i /\ m.type = "data"

\* As long as a session lasts, what its client sends is confirmed in the end:
\* the list of messages that are resent does not grow for ever.
DataIsConfirmed ==
    \A c \in Clients, i \in 0 .. ClientLimit - 1 :
        Sending(c, i) ~> (~Sending(c, i) \/ ~myIsConnected[c])
=============================================================================
