--------------------------- MODULE Network_proofs ---------------------------
(***************************************************************************)
(* Theorems about the network layer, for every set of clients and every    *)
(* bound on the messages.                                                  *)
(***************************************************************************)
EXTENDS Network, FiniteSetTheorems, SequenceTheorems, TLAPS

USE DEF ServerID, NoID, FirstClientID

-----------------------------------------------------------------------------
(***************************************************************************)
(* Sessions                                                                *)
(***************************************************************************)

\* Identifiers in use and open identifiers are apart and below the next one.
IdentifierInv ==
    /\ myNextClientID \in Nat /\ myNextClientID >= 1
    /\ \A open \in myOpenClientIDs : open \in Nat /\ 1 <= open /\ open < myNextClientID
    /\ \A client \in myConnectedClients :
          /\ client.id \in Nat /\ 1 <= client.id /\ client.id < myNextClientID
          /\ client.id \notin myOpenClientIDs

SessionInv ==
    /\ IdentifierInv
    /\ \A a, b \in myConnectedClients : a.id = b.id => a = b
    /\ OneSessionPerAddress

LEMMA SessionInit == Init => SessionInv
  BY DEF Init, SessionInv, IdentifierInv, OneSessionPerAddress

LEMMA SessionInvImplies == SessionInv => DistinctClientIDs
  <1> SUFFICES ASSUME SessionInv PROVE DistinctClientIDs
    OBVIOUS
  <1>1. ClientIDs \cap myOpenClientIDs = {}
    BY DEF SessionInv, IdentifierInv, ClientIDs
  <1>2. ClientIDs \subseteq 1 .. myNextClientID - 1
    BY DEF SessionInv, IdentifierInv, ClientIDs
  <1>3. myOpenClientIDs \subseteq 1 .. myNextClientID - 1
    BY DEF SessionInv, IdentifierInv
  <1>4. QED
    BY <1>1, <1>2, <1>3 DEF SessionInv, DistinctClientIDs

\* A handshake opens at most one session, and only for an address without one.
LEMMA HandshakeKeepsSessions ==
    ASSUME SessionInv, NEW m, ReceiveHandshake(m)
    PROVE  SessionInv'
  <1>1. PICK id \in 1 .. myNextClientID :
            /\ AssignClientID(m.from, id)
            /\ \/ UNCHANGED myConnectedClients
               \/ /\ FindConnectedClient(id) = {}
                  /\ myConnectedClients' =
                         myConnectedClients \cup {[address |-> m.from, id |-> id]}
    BY DEF ReceiveHandshake
  <1>2. id \in Nat /\ 1 <= id /\ id <= myNextClientID /\ myNextClientID \in Nat
    BY <1>1 DEF SessionInv, IdentifierInv
  <1>3. SessionsOf(m.from) = {} \/ FindConnectedClient(id) # {}
    BY <1>1 DEF AssignClientID, SessionsOf, FindConnectedClient
  <1>4. /\ myOpenClientIDs' \subseteq myOpenClientIDs
        /\ myNextClientID' \in Nat /\ myNextClientID <= myNextClientID'
    BY <1>1, <1>2 DEF AssignClientID
  <1>5. SessionsOf(m.from) = {} => id \notin myOpenClientIDs' /\ id < myNextClientID'
    BY <1>1, <1>2 DEF AssignClientID, SessionsOf, SessionInv, IdentifierInv
  <1>6. CASE UNCHANGED myConnectedClients
    BY <1>4, <1>6 DEF SessionInv, IdentifierInv, OneSessionPerAddress
  <1>7. CASE /\ FindConnectedClient(id) = {}
             /\ myConnectedClients' =
                    myConnectedClients \cup {[address |-> m.from, id |-> id]}
    <2> DEFINE new == [address |-> m.from, id |-> id]
    <2>1. SessionsOf(m.from) = {}
      BY <1>3, <1>7
    <2>2. \A client \in myConnectedClients : client.address # m.from /\ client.id # id
      BY <2>1, <1>7 DEF SessionsOf, FindConnectedClient
    <2>3. new.address = m.from /\ new.id = id
      OBVIOUS
    <2>4. \A a \in myConnectedClients' : a \in myConnectedClients \/ a = new
      BY <1>7
    <2> HIDE DEF new
    <2>5. IdentifierInv'
      BY <1>2, <1>4, <1>5, <2>1, <2>3, <2>4 DEF SessionInv, IdentifierInv
    <2>6. \A a, b \in myConnectedClients' : a.id = b.id => a = b
      BY <2>2, <2>3, <2>4 DEF SessionInv
    <2>7. OneSessionPerAddress'
      BY <2>2, <2>3, <2>4 DEF SessionInv, OneSessionPerAddress
    <2>8. QED
      BY <2>5, <2>6, <2>7 DEF SessionInv
  <1>8. QED
    BY <1>1, <1>6, <1>7

\* Giving an identifier back leaves it, and the ones the numbering loses, to
\* nobody.
LEMMA DisconnectKeepsSessions ==
    ASSUME SessionInv, NEW m, ReceiveDisconnect(m)
    PROVE  SessionInv'
  <1>1. PICK client \in myConnectedClients :
            /\ ReleaseClientID(client)
            /\ myConnectedClients' = myConnectedClients \ {client}
    BY DEF ReceiveDisconnect, FindConnectedClient
  <1> DEFINE id == client.id
  <1>2. id \in Nat /\ 1 <= id /\ id < myNextClientID /\ myNextClientID \in Nat
    BY DEF SessionInv, IdentifierInv
  <1>3. id \notin myOpenClientIDs
    BY DEF SessionInv, IdentifierInv
  <1>4. \A other \in myConnectedClients' : other \in myConnectedClients /\ other.id # id
    BY <1>1 DEF SessionInv
  <1> HIDE DEF id
  <1>5. IdentifierInv'
    <2>1. CASE myConnectedClients = {client} /\ myNextClientID' = 1 /\ myOpenClientIDs' = {}
      BY <2>1, <1>1 DEF IdentifierInv
    <2>2. CASE /\ id = myNextClientID - 1
               /\ \E next \in 1 .. id :
                     /\ next .. id - 1 \subseteq myOpenClientIDs
                     /\ myNextClientID' = next
                     /\ myOpenClientIDs' = OpenBelow(next, id)
      <3>1. PICK next \in 1 .. id :
                /\ next .. id - 1 \subseteq myOpenClientIDs
                /\ myNextClientID' = next
                /\ myOpenClientIDs' = myOpenClientIDs \ (next .. id - 1)
        BY <2>2 DEF OpenBelow
      <3>2. next \in Nat /\ 1 <= next /\ next <= id /\ myNextClientID = id + 1
        BY <3>1, <2>2, <1>2
      <3>3. ASSUME NEW open \in myOpenClientIDs'
            PROVE  open \in Nat /\ 1 <= open /\ open < next
        <4>1. open \in Nat /\ 1 <= open /\ open < id + 1 /\ open \notin next .. id - 1
          BY <3>1, <3>2 DEF SessionInv, IdentifierInv
        <4>2. open # id
          BY <1>3, <3>1
        <4>3. QED
          BY <4>1, <4>2, <3>2, <1>2
      <3>4. ASSUME NEW other \in myConnectedClients'
            PROVE  /\ other.id \in Nat /\ 1 <= other.id /\ other.id < next
                   /\ other.id \notin myOpenClientIDs'
        <4>1. /\ other.id \in Nat /\ 1 <= other.id /\ other.id < id + 1
              /\ other.id \notin myOpenClientIDs /\ other.id # id
          BY <1>4, <3>2 DEF SessionInv, IdentifierInv
        <4>2. other.id \notin next .. id - 1
          BY <4>1, <3>1
        <4>3. QED
          BY <4>1, <4>2, <3>1, <3>2, <1>2
      <3>5. QED
        BY <3>1, <3>2, <3>3, <3>4 DEF IdentifierInv
    <2>3. CASE myOpenClientIDs' = myOpenClientIDs \cup {id} /\ myNextClientID' = myNextClientID
      BY <2>3, <1>2, <1>4 DEF SessionInv, IdentifierInv
    <2>4. QED
      BY <1>1, <2>1, <2>2, <2>3 DEF ReleaseClientID, id
  <1>6. QED
    BY <1>4, <1>5 DEF SessionInv, OneSessionPerAddress

\* Every other step leaves the sessions alone.
LEMMA OthersKeepSessions ==
    ASSUME SessionInv, UNCHANGED serverVars
    PROVE  SessionInv'
  BY DEF serverVars, SessionInv, IdentifierInv, OneSessionPerAddress

LEMMA SessionStep == SessionInv /\ [Next]_vars => SessionInv'
  <1> SUFFICES ASSUME SessionInv, [Next]_vars PROVE SessionInv'
    OBVIOUS
  <1>1. ASSUME NEW m \in net, ServerReceive(m) PROVE SessionInv'
    <2>1. CASE ReceiveHandshake(m)
      BY <2>1, HandshakeKeepsSessions
    <2>2. CASE ReceiveDisconnect(m)
      BY <2>2, DisconnectKeepsSessions
    <2>3. CASE ReceiveConfirm(Server, m) \/ ReceiveData(m)
      BY <2>3, OthersKeepSessions DEF ReceiveConfirm, ReceiveData
    <2>4. QED
      BY <1>1, <2>1, <2>2, <2>3 DEF ServerReceive
  <1>2. CASE \E m \in net : Lose(m)
    BY <1>2, OthersKeepSessions DEF Lose
  <1>3. CASE \E c \in Clients, m \in net : ClientReceive(c, m)
    BY <1>3, OthersKeepSessions DEF ClientReceive, ReceiveConfirm, ClientReceiveGuaranteed
  <1>4. CASE \E n \in Nodes : \E m \in mySentGuaranteedList[n] : Resend(n, m)
    BY <1>4, OthersKeepSessions DEF Resend
  <1>5. CASE \E c \in Clients :
                ConnectToServer(c) \/ Reconnect(c) \/ Disconnect(c) \/ GiveUp(c) \/ SendData(c)
    BY <1>5, OthersKeepSessions DEF ConnectToServer, Reconnect, Disconnect, GiveUp, SendData
  <1>6. CASE UNCHANGED vars
    BY <1>6, OthersKeepSessions DEF vars
  <1>7. QED
    BY <1>1, <1>2, <1>3, <1>4, <1>5, <1>6 DEF Next, Step

\* ReceivedHandshake and DisconnectClient never let two sessions share an
\* identifier, and no session has one that is open to be given again.
THEOREM SessionsDistinct == Spec => []DistinctClientIDs
  <1>1. QED
    BY SessionInit, SessionStep, SessionInvImplies, PTL DEF Spec

\* An address has at most one session: ConnectClient is not reached by a
\* handshake of a client that is connected, copies and retries included.
THEOREM SessionPerAddress == Spec => []OneSessionPerAddress
  <1>1. SessionInv => OneSessionPerAddress
    BY DEF SessionInv
  <1>2. QED
    BY <1>1, SessionInit, SessionStep, PTL DEF Spec

-----------------------------------------------------------------------------
(***************************************************************************)
(* Messages.  Packets a node may send, and what every message in transit   *)
(* or kept for resending looks like.                                       *)
(***************************************************************************)

PacketOf(n) == [type : Types \ {"confirm"},
                to : IF n = Server THEN Clients ELSE {Server, NoAddress},
                target : Int]

\* Clients talk to the server and the server to clients.
Routed(m) ==
    /\ m \in Message
    /\ m.from = Server => m.to \in Clients
    /\ m.from \in Clients => m.to \in {Server, NoAddress}
    /\ m.type \in {"handshake", "data"} => m.guaranteed
    /\ m.type = "confirm" => ~m.guaranteed

RouteInv ==
    /\ \A m \in net : Routed(m) /\ m.to # NoAddress
    /\ \A n \in Nodes : \A m \in mySentGuaranteedList[n] :
          Routed(m) /\ m.guaranteed /\ m.from = n

LEMMA SetToSeqType ==
    ASSUME NEW S, IsFiniteSet(S)
    PROVE  SetToSeq(S) \in Seq(S)
  <1>1. Cardinality(S) \in Nat /\ ExistsBijection(1 .. Cardinality(S), S)
    BY FS_CardinalityType
  <1>2. \E f \in [1 .. Cardinality(S) -> S] : IsInjective(f)
    BY <1>1 DEF ExistsBijection, Bijection, Injection, IsInjective
  <1>3. SetToSeq(S) \in [1 .. Cardinality(S) -> S]
    BY <1>2 DEF SetToSeq
  <1>4. QED
    BY <1>1, <1>3

\* Numbered packets are messages, each with a number of its own.
LEMMA PackType ==
    ASSUME NEW n \in Nodes, NEW senderID \in Int, NEW packets \in Seq(PacketOf(n)),
           myNextGuaranteedID[n] \in Nat,
           NEW p \in Pack(n, senderID, packets)
    PROVE  /\ Routed(p) /\ p.guaranteed /\ p.from = n
           /\ myNextGuaranteedID[n] <= p.id
           /\ p.id < myNextGuaranteedID[n] + Len(packets)
           /\ p.id \in Nat
           /\ \A q \in Pack(n, senderID, packets) : q.id = p.id => q = p
  <1>1. PICK i \in 1 .. Len(packets) :
            p = [type |-> packets[i].type, from |-> n, to |-> packets[i].to,
                 sender |-> senderID, target |-> packets[i].target,
                 guaranteed |-> TRUE, id |-> myNextGuaranteedID[n] + i - 1]
    BY DEF Pack
  <1>2. Len(packets) \in Nat /\ packets[i] \in PacketOf(n)
    OBVIOUS
  <1>3. /\ p.guaranteed /\ p.from = n /\ p.id = myNextGuaranteedID[n] + i - 1
        /\ p.to = packets[i].to /\ p.type = packets[i].type
    BY <1>1
  <1>4. /\ packets[i].to \in (IF n = Server THEN Clients ELSE {Server, NoAddress})
        /\ packets[i].type \in Types \ {"confirm"} /\ packets[i].target \in Int
    BY <1>2 DEF PacketOf
  <1>5. p.id \in Nat
    BY <1>2, <1>3
  <1>6. p \in Message
    BY <1>1, <1>3, <1>4, <1>5 DEF Message, Nodes
  <1>7. Routed(p)
    BY <1>3, <1>4, <1>6, AddressAssumption DEF Routed, Nodes
  <1>8. ASSUME NEW q \in Pack(n, senderID, packets), q.id = p.id
        PROVE  q = p
    <2>1. PICK j \in 1 .. Len(packets) :
              q = [type |-> packets[j].type, from |-> n, to |-> packets[j].to,
                   sender |-> senderID, target |-> packets[j].target,
                   guaranteed |-> TRUE, id |-> myNextGuaranteedID[n] + j - 1]
      BY DEF Pack
    <2>2. q.id = myNextGuaranteedID[n] + j - 1
      BY <2>1
    <2>3. i = j
      BY <2>2, <1>3, <1>8, <1>2
    <2>4. QED
      BY <2>1, <2>3, <1>1
  <1>9. QED
    BY <1>2, <1>3, <1>5, <1>7, <1>8

LEMMA ConfirmType ==
    ASSUME NEW m \in Message, m.to \in Nodes, Routed(m)
    PROVE  /\ Routed(Confirm(m)) /\ Confirm(m).to = m.from /\ Confirm(m).from = m.to
           /\ Confirm(m).type = "confirm" /\ Confirm(m).id = m.id
           /\ ~Confirm(m).guaranteed
  <1>1. /\ Confirm(m).to = m.from /\ Confirm(m).from = m.to
        /\ Confirm(m).type = "confirm" /\ Confirm(m).id = m.id
        /\ ~Confirm(m).guaranteed
    BY DEF Confirm
  <1>2. m.from \in Nodes /\ m.id \in Nat
    BY DEF Message
  <1>3. Confirm(m) \in Message
    BY <1>2 DEF Confirm, Message, Types
  <1>4. QED
    BY <1>1, <1>2, <1>3, AddressAssumption DEF Routed, Nodes

-----------------------------------------------------------------------------
(***************************************************************************)
(* Numbers, confirmations and what was handled.  Every guaranteed message  *)
(* has its own number below the sender's next one, so a confirmation can   *)
(* only be one of the message with its number.                             *)
(***************************************************************************)

Guaranteed ==
    {m \in net : m.guaranteed} \cup UNION {mySentGuaranteedList[n] : n \in Nodes}

Recorded(n, i) == \E record \in myReceivedGuaranteedList[n] : record[2] = i

NumberInv ==
    /\ \A g \in Guaranteed : g.id < myNextGuaranteedID[g.from]
    /\ \A g, h \in Guaranteed : g.from = h.from /\ g.id = h.id => g = h

ConfirmInv ==
    \A m \in net : m.type = "confirm" =>
        /\ m.id < myNextGuaranteedID[m.to]
        /\ Recorded(m.from, m.id)
        /\ \A g \in Guaranteed : g.from = m.to /\ g.id = m.id => g.to = m.from

HandledKeys == Clients \X (0 .. ClientLimit - 1)

HandledInv ==
    \A x \in HandledKeys :
        /\ handled[x] = 0 \/ handled[x] = 1
        /\ handled[x] = 1 =>
              /\ x[2] < myNextGuaranteedID[x[1]]
              /\ \A g \in Guaranteed :
                    g.type = "data" /\ g.from = x[1] /\ g.id = x[2]
                    => <<g.sender, g.id>> \in myReceivedGuaranteedList[Server]

MessageInv ==
    TypeOK /\ IsFiniteSet(myConnectedClients) /\ RouteInv /\ NumberInv /\ ConfirmInv /\ HandledInv

LEMMA GuaranteedFacts ==
    ASSUME TypeOK, RouteInv
    PROVE  /\ \A g \in Guaranteed : /\ Routed(g) /\ g.guaranteed /\ g \in Message
                                     /\ g.from \in Nodes /\ g.id \in Nat
           /\ \A m \in net : m \in Message /\ m.from \in Nodes /\ m.to \in Nodes /\ m.id \in Nat
           /\ \A n \in Nodes : myNextGuaranteedID[n] \in Nat
  <1>1. \A g \in Guaranteed : Routed(g) /\ g.guaranteed
    BY DEF Guaranteed, RouteInv
  <1>2. \A g \in Guaranteed : g \in Message
    BY <1>1 DEF Routed
  <1>3. \A m \in net : m \in Message /\ m.to # NoAddress
    BY DEF RouteInv, Routed
  <1>4. \A m \in Message : m.from \in Nodes /\ m.id \in Nat /\ m.to \in Nodes \cup {NoAddress}
    BY DEF Message
  <1>5. \A n \in Nodes : myNextGuaranteedID[n] \in Nat
    BY DEF TypeOK
  <1>6. QED
    BY <1>1, <1>2, <1>3, <1>4, <1>5

\* A step that sends the packets fresh, resends some old ones, and sends the
\* unguaranteed messages others.
Grows(fresh, others) ==
    /\ net' \subseteq net \cup Reachable(Guaranteed) \cup Reachable(fresh) \cup others
    /\ \A n \in Nodes : \A g \in mySentGuaranteedList'[n] :
          g \in mySentGuaranteedList[n] \/ (g \in fresh /\ g.from = n)
    /\ \A n \in Nodes : /\ myNextGuaranteedID'[n] \in Nat
                         /\ myNextGuaranteedID[n] <= myNextGuaranteedID'[n]
                         /\ myReceivedGuaranteedList[n] \subseteq myReceivedGuaranteedList'[n]

IsFresh(fresh) ==
    \A p \in fresh :
        /\ Routed(p) /\ p.guaranteed
        /\ myNextGuaranteedID[p.from] <= p.id /\ p.id < myNextGuaranteedID'[p.from]
        /\ \A q \in fresh : p.from = q.from /\ p.id = q.id => p = q

AreConfirms(others) ==
    \A m \in others :
        /\ Routed(m) /\ m.to # NoAddress /\ ~m.guaranteed
        /\ m.type = "confirm" =>
              /\ Recorded(m.from, m.id)'
              /\ \E g \in Guaranteed : g.from = m.to /\ g.to = m.from /\ g.id = m.id

HandledStep ==
    \A x \in HandledKeys :
        \/ handled'[x] = handled[x]
        \/ /\ handled'[x] = 1
           /\ \E g \in Guaranteed :
                 /\ g.type = "data" /\ g.from = x[1] /\ g.id = x[2]
                 /\ <<g.sender, g.id>> \in myReceivedGuaranteedList'[Server]

LEMMA GrowsKeepsMessages ==
    ASSUME MessageInv, NEW fresh, NEW others,
           Grows(fresh, others), IsFresh(fresh), AreConfirms(others), HandledStep
    PROVE  RouteInv' /\ NumberInv' /\ ConfirmInv' /\ HandledInv'
  <1>1. /\ \A g \in Guaranteed : /\ Routed(g) /\ g.guaranteed /\ g \in Message
                                  /\ g.from \in Nodes /\ g.id \in Nat
        /\ \A m \in net : m \in Message /\ m.from \in Nodes /\ m.to \in Nodes /\ m.id \in Nat
        /\ \A n \in Nodes : myNextGuaranteedID[n] \in Nat
    BY GuaranteedFacts DEF MessageInv
  <1>2. \A p \in fresh : p.from \in Nodes /\ p.id \in Nat
    BY DEF IsFresh, Routed, Message
  <1>3. \A m \in net' : \/ m \in net
                         \/ (m \in Guaranteed /\ m.to # NoAddress)
                         \/ (m \in fresh /\ m.to # NoAddress)
                         \/ m \in others
    BY DEF Grows, Reachable
  <1>4. RouteInv'
    <2>1. ASSUME NEW m \in net' PROVE Routed(m) /\ m.to # NoAddress
      BY <1>1, <1>3 DEF MessageInv, RouteInv, IsFresh, AreConfirms
    <2>2. ASSUME NEW n \in Nodes, NEW g \in mySentGuaranteedList'[n]
          PROVE  Routed(g) /\ g.guaranteed /\ g.from = n
      BY DEF MessageInv, RouteInv, Grows, IsFresh
    <2>3. QED
      BY <2>1, <2>2 DEF RouteInv
  <1>5. \A g \in Guaranteed' : g \in Guaranteed \/ g \in fresh
    <2>1. ASSUME NEW m \in net', m.guaranteed PROVE m \in Guaranteed \/ m \in fresh
      BY <1>3, <2>1 DEF AreConfirms, Guaranteed
    <2>2. ASSUME NEW n \in Nodes, NEW g \in mySentGuaranteedList'[n]
          PROVE  g \in Guaranteed \/ g \in fresh
      BY DEF Grows, Guaranteed
    <2>3. QED
      BY <2>1, <2>2 DEF Guaranteed
  <1>6. \A n \in Nodes : /\ myNextGuaranteedID'[n] \in Nat
                         /\ myNextGuaranteedID[n] <= myNextGuaranteedID'[n]
                         /\ myReceivedGuaranteedList[n] \subseteq myReceivedGuaranteedList'[n]
    BY DEF Grows
  <1>7. \A g \in Guaranteed : g.id < myNextGuaranteedID[g.from]
    BY DEF MessageInv, NumberInv
  <1>8. \A p \in fresh : /\ myNextGuaranteedID[p.from] <= p.id
                         /\ p.id < myNextGuaranteedID'[p.from]
    BY DEF IsFresh
  <1>9. \A g \in Guaranteed, p \in fresh : g.from = p.from => g.id < p.id
    BY <1>1, <1>2, <1>7, <1>8
  <1>10. NumberInv'
    <2>1. ASSUME NEW g \in Guaranteed' PROVE g.id < myNextGuaranteedID'[g.from]
      BY <1>1, <1>2, <1>5, <1>6, <1>7, <1>8
    <2>2. ASSUME NEW g \in Guaranteed', NEW h \in Guaranteed', g.from = h.from, g.id = h.id
          PROVE  g = h
      <3>1. CASE g \in Guaranteed /\ h \in Guaranteed
        BY <2>2, <3>1 DEF MessageInv, NumberInv
      <3>2. CASE g \in fresh /\ h \in fresh
        BY <2>2, <3>2 DEF IsFresh
      <3>3. CASE g \in Guaranteed /\ h \in fresh
        BY <2>2, <3>3, <1>1, <1>2, <1>9
      <3>4. CASE g \in fresh /\ h \in Guaranteed
        BY <2>2, <3>4, <1>1, <1>2, <1>9
      <3>5. QED
        BY <1>5, <3>1, <3>2, <3>3, <3>4
    <2>3. QED
      BY <2>1, <2>2 DEF NumberInv
  <1>11. ConfirmInv'
    <2> SUFFICES ASSUME NEW m \in net', m.type = "confirm"
                 PROVE  /\ m.id < myNextGuaranteedID'[m.to]
                        /\ Recorded(m.from, m.id)'
                        /\ \A g \in Guaranteed' : g.from = m.to /\ g.id = m.id => g.to = m.from
      BY DEF ConfirmInv
    <2>1. ~m.guaranteed /\ m \in Message /\ m.to \in Nodes /\ m.from \in Nodes /\ m.id \in Nat
      BY <1>4 DEF RouteInv, Routed, Message
    <2>2. /\ m.id < myNextGuaranteedID[m.to]
          /\ Recorded(m.from, m.id)'
          /\ \A g \in Guaranteed : g.from = m.to /\ g.id = m.id => g.to = m.from
      <3>1. CASE m \in net
        <4>1. /\ m.id < myNextGuaranteedID[m.to]
              /\ Recorded(m.from, m.id)
              /\ \A g \in Guaranteed : g.from = m.to /\ g.id = m.id => g.to = m.from
          BY <3>1 DEF MessageInv, ConfirmInv
        <4>2. Recorded(m.from, m.id)'
          BY <4>1, <2>1, <1>6 DEF Recorded
        <4>3. QED
          BY <4>1, <4>2
      <3>2. CASE m \in others
        <4>1. /\ Recorded(m.from, m.id)'
              /\ \E g \in Guaranteed : g.from = m.to /\ g.to = m.from /\ g.id = m.id
          BY <3>2 DEF AreConfirms
        <4>2. PICK g \in Guaranteed : g.from = m.to /\ g.to = m.from /\ g.id = m.id
          BY <4>1
        <4>3. \A h \in Guaranteed : h.from = m.to /\ h.id = m.id => h = g
          BY <4>2 DEF MessageInv, NumberInv
        <4>4. m.id < myNextGuaranteedID[m.to]
          BY <4>2, <1>7
        <4>5. QED
          BY <4>1, <4>2, <4>3, <4>4
      <3>3. QED
        BY <1>3, <1>1, <2>1, <3>1, <3>2 DEF IsFresh
    <2>3. \A p \in fresh : ~(p.from = m.to /\ p.id = m.id)
      BY <2>1, <2>2, <1>1, <1>2, <1>8
    <2>4. QED
      BY <2>1, <2>2, <2>3, <1>1, <1>5, <1>6
  <1>12. HandledInv'
    <2> SUFFICES ASSUME NEW x \in HandledKeys
                 PROVE  /\ handled'[x] = 0 \/ handled'[x] = 1
                        /\ handled'[x] = 1 =>
                              /\ x[2] < myNextGuaranteedID'[x[1]]
                              /\ \A g \in Guaranteed' :
                                    g.type = "data" /\ g.from = x[1] /\ g.id = x[2]
                                    => <<g.sender, g.id>> \in myReceivedGuaranteedList'[Server]
      BY DEF HandledInv
    <2>1. x[1] \in Nodes /\ x[2] \in Int /\ Server \in Nodes
      BY LimitAssumption DEF HandledKeys, Nodes
    <2>2. handled'[x] = 0 \/ handled'[x] = 1
      BY DEF HandledStep, MessageInv, HandledInv
    <2>3. ASSUME handled'[x] = 1
          PROVE  /\ x[2] < myNextGuaranteedID[x[1]]
                 /\ \A g \in Guaranteed :
                       g.type = "data" /\ g.from = x[1] /\ g.id = x[2]
                       => <<g.sender, g.id>> \in myReceivedGuaranteedList'[Server]
      <3>1. CASE handled[x] = 1
        BY <3>1, <2>1, <1>6 DEF MessageInv, HandledInv
      <3>2. CASE handled[x] # 1
        <4>1. PICK h \in Guaranteed :
                  /\ h.type = "data" /\ h.from = x[1] /\ h.id = x[2]
                  /\ <<h.sender, h.id>> \in myReceivedGuaranteedList'[Server]
          BY <2>3, <3>2 DEF HandledStep
        <4>2. \A g \in Guaranteed : g.from = x[1] /\ g.id = x[2] => g = h
          BY <4>1 DEF MessageInv, NumberInv
        <4>3. QED
          BY <4>1, <4>2, <1>7
      <3>3. QED
        BY <3>1, <3>2
    <2>4. ASSUME handled'[x] = 1
          PROVE  \A p \in fresh : ~(p.from = x[1] /\ p.id = x[2])
      BY <2>1, <2>3, <2>4, <1>1, <1>2, <1>8
    <2>5. QED
      BY <2>1, <2>2, <2>3, <2>4, <1>1, <1>5, <1>6
  <1>13. QED
    BY <1>4, <1>10, <1>11, <1>12

-----------------------------------------------------------------------------
(***************************************************************************)
(* The steps.  SendStep covers every step that sends guaranteed packets.   *)
(***************************************************************************)

LEMMA NothingHandled == UNCHANGED handled => HandledStep
  BY DEF HandledStep

LEMMA SendStep ==
    ASSUME MessageInv, NEW n \in Nodes, NEW senderID \in Int,
           NEW packets \in Seq(PacketOf(n)), NEW others,
           Send(n, senderID, packets, others), UNCHANGED handled,
           \A r \in Nodes : myReceivedGuaranteedList[r] \subseteq myReceivedGuaranteedList'[r],
           AreConfirms(others)
    PROVE  /\ RouteInv' /\ NumberInv' /\ ConfirmInv' /\ HandledInv'
           /\ net' \subseteq Message
           /\ myNextGuaranteedID' \in [Nodes -> Nat]
           /\ mySentGuaranteedList' \in [Nodes -> SUBSET Message]
           /\ \A r \in Nodes : mySentGuaranteedList[r] \subseteq mySentGuaranteedList'[r]
  <1> DEFINE fresh == Pack(n, senderID, packets)
  <1>1. /\ myNextGuaranteedID \in [Nodes -> Nat]
        /\ mySentGuaranteedList \in [Nodes -> SUBSET Message]
        /\ Len(packets) \in Nat
    BY DEF MessageInv, TypeOK
  <1>2. /\ myNextGuaranteedID' = [myNextGuaranteedID EXCEPT ![n] = @ + Len(packets)]
        /\ mySentGuaranteedList' = [mySentGuaranteedList EXCEPT ![n] = @ \cup fresh]
        /\ net' = net \cup Reachable(fresh) \cup others
    BY DEF Send
  <1>3. \A p \in fresh :
            /\ Routed(p) /\ p.guaranteed /\ p.from = n
            /\ myNextGuaranteedID[n] <= p.id
            /\ p.id < myNextGuaranteedID[n] + Len(packets)
            /\ p.id \in Nat
            /\ \A q \in fresh : q.id = p.id => q = p
    BY <1>1, PackType
  <1> HIDE DEF fresh
  <1>4. /\ myNextGuaranteedID' \in [Nodes -> Nat]
        /\ myNextGuaranteedID'[n] = myNextGuaranteedID[n] + Len(packets)
        /\ \A r \in Nodes : myNextGuaranteedID[r] <= myNextGuaranteedID'[r]
    BY <1>1, <1>2
  <1>5. \A r \in Nodes : mySentGuaranteedList'[r] =
            IF r = n THEN mySentGuaranteedList[r] \cup fresh ELSE mySentGuaranteedList[r]
    BY <1>1, <1>2
  <1>6. fresh \subseteq Message
    BY <1>3 DEF Routed
  <1>7. mySentGuaranteedList' \in [Nodes -> SUBSET Message]
    BY <1>1, <1>2, <1>6
  <1>8. IsFresh(fresh)
    BY <1>3, <1>4 DEF IsFresh
  <1>9. Grows(fresh, others)
    <2>1. net' \subseteq net \cup Reachable(Guaranteed) \cup Reachable(fresh) \cup others
      BY <1>2
    <2>2. \A r \in Nodes : \A g \in mySentGuaranteedList'[r] :
              g \in mySentGuaranteedList[r] \/ (g \in fresh /\ g.from = r)
      BY <1>3, <1>5
    <2>3. QED
      BY <1>4, <2>1, <2>2 DEF Grows
  <1>10. RouteInv' /\ NumberInv' /\ ConfirmInv' /\ HandledInv'
    BY <1>8, <1>9, GrowsKeepsMessages, NothingHandled
  <1>11. net' \subseteq Message
    BY <1>10 DEF RouteInv, Routed
  <1>12. QED
    BY <1>4, <1>5, <1>7, <1>10, <1>11

\* Every step that sends no guaranteed packet of its own.
LEMMA QuietStep ==
    ASSUME MessageInv, NEW others,
           net' \subseteq net \cup Reachable(Guaranteed) \cup others, UNCHANGED myNextGuaranteedID,
           \A r \in Nodes : /\ mySentGuaranteedList'[r] \subseteq mySentGuaranteedList[r]
                            /\ myReceivedGuaranteedList[r] \subseteq myReceivedGuaranteedList'[r],
           AreConfirms(others), HandledStep
    PROVE  /\ RouteInv' /\ NumberInv' /\ ConfirmInv' /\ HandledInv'
           /\ net' \subseteq Message
           /\ myNextGuaranteedID' \in [Nodes -> Nat]
  <1>1. myNextGuaranteedID \in [Nodes -> Nat]
    BY DEF MessageInv, TypeOK
  <1>2. Grows({}, others)
    BY <1>1 DEF Grows, Reachable
  <1>3. IsFresh({})
    BY DEF IsFresh
  <1>4. RouteInv' /\ NumberInv' /\ ConfirmInv' /\ HandledInv'
    BY <1>2, <1>3, GrowsKeepsMessages
  <1>5. net' \subseteq Message
    BY <1>4 DEF RouteInv, Routed
  <1>6. QED
    BY <1>1, <1>4, <1>5

\* Recording a received message and confirming it.
LEMMA RecordStep ==
    ASSUME MessageInv, NEW n \in Nodes, NEW senderID \in Int, NEW m \in net, m.to = n,
           m.guaranteed,
           \/ Seen(n, senderID, m) /\ UNCHANGED myReceivedGuaranteedList
           \/ Record(n, senderID, m)
    PROVE  /\ AreConfirms({Confirm(m)})
           /\ \A r \in Nodes : myReceivedGuaranteedList[r] \subseteq myReceivedGuaranteedList'[r]
           /\ myReceivedGuaranteedList' \in [Nodes -> SUBSET (Int \X Nat)]
           /\ <<senderID, m.id>> \in myReceivedGuaranteedList'[n]
           /\ m \in Guaranteed
  <1>1. /\ Routed(m) /\ m \in Message /\ m.id \in Nat /\ m.from \in Nodes
        /\ m.from # NoAddress
    BY AddressAssumption, GuaranteedFacts DEF MessageInv, RouteInv, Nodes
  <1>2. myReceivedGuaranteedList \in [Nodes -> SUBSET (Int \X Nat)]
    BY DEF MessageInv, TypeOK
  <1>3. /\ \A r \in Nodes : myReceivedGuaranteedList[r] \subseteq myReceivedGuaranteedList'[r]
        /\ myReceivedGuaranteedList' \in [Nodes -> SUBSET (Int \X Nat)]
        /\ <<senderID, m.id>> \in myReceivedGuaranteedList'[n]
    <2>1. CASE Seen(n, senderID, m) /\ UNCHANGED myReceivedGuaranteedList
      BY <2>1, <1>2 DEF Seen
    <2>2. CASE Record(n, senderID, m)
      <3>1. myReceivedGuaranteedList' =
                [myReceivedGuaranteedList EXCEPT ![n] = @ \cup {<<senderID, m.id>>}]
        BY <2>2 DEF Record
      <3>2. <<senderID, m.id>> \in Int \X Nat
        BY <1>1
      <3>3. QED
        BY <3>1, <3>2, <1>2
    <2>3. QED
      BY <2>1, <2>2
  <1>4. Recorded(n, m.id)'
    <2>1. <<senderID, m.id>>[2] = m.id
      OBVIOUS
    <2>2. QED
      BY <1>3, <2>1 DEF Recorded
  <1>5. m \in Guaranteed
    BY DEF Guaranteed
  <1>6. /\ Routed(Confirm(m)) /\ Confirm(m).to = m.from /\ Confirm(m).from = n
        /\ Confirm(m).type = "confirm" /\ Confirm(m).id = m.id /\ ~Confirm(m).guaranteed
    BY <1>1, ConfirmType
  <1>7. AreConfirms({Confirm(m)})
    <2> SUFFICES ASSUME NEW k, k = Confirm(m)
                 PROVE  /\ Routed(k) /\ k.to # NoAddress /\ ~k.guaranteed
                        /\ k.type = "confirm" =>
                              /\ Recorded(k.from, k.id)'
                              /\ \E g \in Guaranteed :
                                    g.from = k.to /\ g.to = k.from /\ g.id = k.id
      BY DEF AreConfirms
    <2>1. Recorded(k.from, k.id)'
      BY <1>4, <1>6
    <2>2. \E g \in Guaranteed : g.from = k.to /\ g.to = k.from /\ g.id = k.id
      BY <1>5, <1>6
    <2>3. QED
      BY <1>1, <1>6, <2>1, <2>2
  <1>8. QED
    BY <1>3, <1>5, <1>7

SessionRecord == [address : Clients, id : Nat \ {0}]

LEMMA NoticesType ==
    ASSUME NEW type \in Types \ {"confirm"}, NEW others \in Seq(SessionRecord),
           NEW client \in SessionRecord
    PROVE  /\ [i \in 1 .. Len(others) |-> Packet(type, client.address, client.id)]
                  \in Seq(PacketOf(Server))
           /\ [i \in 1 .. Len(others) |-> Packet(type, others[i].address, others[i].id)]
                  \in Seq(PacketOf(Server))
           /\ <<Packet(type, client.address, client.id)>> \in Seq(PacketOf(Server))
  <1>1. Len(others) \in Nat
    OBVIOUS
  <1>2. \A r \in SessionRecord : Packet(type, r.address, r.id) \in PacketOf(Server)
    BY DEF SessionRecord, Packet, PacketOf
  <1>3. \A i \in 1 .. Len(others) : others[i] \in SessionRecord
    OBVIOUS
  <1>4. \A f \in [1 .. Len(others) -> PacketOf(Server)] : f \in Seq(PacketOf(Server))
    BY <1>1
  <1>5. [i \in 1 .. Len(others) |-> Packet(type, client.address, client.id)]
            \in [1 .. Len(others) -> PacketOf(Server)]
    BY <1>2
  <1>6. [i \in 1 .. Len(others) |-> Packet(type, others[i].address, others[i].id)]
            \in [1 .. Len(others) -> PacketOf(Server)]
    BY <1>2, <1>3
  <1>7. QED
    BY <1>2, <1>4, <1>5, <1>6

LEMMA ConnectPacketsType ==
    ASSUME NEW client \in SessionRecord, myConnectedClients \subseteq SessionRecord,
           IsFiniteSet(myConnectedClients)
    PROVE  ConnectPackets(client) \in Seq(PacketOf(Server))
  <1> DEFINE others == IF bound.notices THEN SetToSeq(myConnectedClients) ELSE <<>>
             first == <<Packet("handshake", client.address, client.id)>>
             toNew == [i \in 1 .. Len(others) |-> Packet("connected", client.address, client.id)]
             itself == IF bound.notices
                       THEN <<Packet("connected", client.address, client.id)>> ELSE <<>>
             toOthers == [i \in 1 .. Len(others) |->
                             Packet("connected", others[i].address, others[i].id)]
  <1>1. SetToSeq(myConnectedClients) \in Seq(myConnectedClients)
    BY SetToSeqType
  <1>2. SetToSeq(myConnectedClients) \in Seq(SessionRecord)
    BY <1>1
  <1>3. others \in Seq(SessionRecord)
    BY <1>2
  <1>4. "handshake" \in Types \ {"confirm"} /\ "connected" \in Types \ {"confirm"}
    BY DEF Types
  <1>5. ConnectPackets(client) = first \o toNew \o itself \o toOthers
    BY DEF ConnectPackets
  <1> HIDE DEF others
  <1>6. first \in Seq(PacketOf(Server))
    BY <1>3, <1>4, NoticesType
  <1>7. /\ toNew \in Seq(PacketOf(Server)) /\ toOthers \in Seq(PacketOf(Server))
        /\ <<Packet("connected", client.address, client.id)>> \in Seq(PacketOf(Server))
    BY <1>3, <1>4, NoticesType
  <1>8. itself \in Seq(PacketOf(Server))
    BY <1>7
  <1> HIDE DEF first, toNew, itself, toOthers
  <1>9. first \o toNew \o itself \o toOthers \in Seq(PacketOf(Server))
    BY <1>6, <1>7, <1>8
  <1>10. QED
    BY <1>5, <1>9

LEMMA DisconnectPacketsType ==
    ASSUME NEW client \in SessionRecord, myConnectedClients \subseteq SessionRecord,
           IsFiniteSet(myConnectedClients)
    PROVE  DisconnectPackets(client) \in Seq(PacketOf(Server))
  <1> DEFINE rest == myConnectedClients \ {client}
             others == IF bound.notices THEN SetToSeq(rest) ELSE <<>>
             first == <<Packet("disconnect", client.address, client.id)>>
             toOthers == [i \in 1 .. Len(others) |->
                             Packet("disconnected", others[i].address, others[i].id)]
  <1>1. IsFiniteSet(rest)
    BY FS_RemoveElement
  <1>2. SetToSeq(rest) \in Seq(rest)
    BY <1>1, SetToSeqType
  <1>3. SetToSeq(rest) \in Seq(SessionRecord)
    BY <1>2
  <1>4. others \in Seq(SessionRecord)
    BY <1>3
  <1>5. "disconnect" \in Types \ {"confirm"} /\ "disconnected" \in Types \ {"confirm"}
    BY DEF Types
  <1>6. DisconnectPackets(client) = first \o toOthers
    BY DEF DisconnectPackets
  <1> HIDE DEF others
  <1>7. first \in Seq(PacketOf(Server))
    BY <1>4, <1>5, NoticesType
  <1>8. toOthers \in Seq(PacketOf(Server))
    BY <1>4, <1>5, NoticesType
  <1> HIDE DEF first, toOthers
  <1>9. QED
    BY <1>6, <1>7, <1>8

LEMMA HandshakeKeepsMessages ==
    ASSUME MessageInv, UNCHANGED bound, NEW m \in net, m.to = Server, m.type = "handshake",
           ReceiveHandshake(m)
    PROVE  MessageInv'
  <1>1. /\ Routed(m) /\ m \in Message /\ m.guaranteed /\ m.from \in Clients /\ Server \in Nodes
    BY AddressAssumption, GuaranteedFacts DEF MessageInv, RouteInv, Nodes, Routed
  <1>2. PICK id \in 1 .. myNextClientID :
            /\ AssignClientID(m.from, id)
            /\ LET client == [address |-> m.from, id |-> id]
                   confirm == Confirm(m)
               IN  \/ /\ Seen(Server, id, m)
                      /\ net' = net \cup {confirm}
                      /\ UNCHANGED <<guaranteeVars, myConnectedClients>>
                   \/ /\ Record(Server, id, m)
                      /\ net' = net \cup {confirm}
                      /\ UNCHANGED <<myNextGuaranteedID, mySentGuaranteedList,
                                     myConnectedClients>>
                   \/ /\ Record(Server, id, m)
                      /\ myConnectedClients' = myConnectedClients \cup {client}
                      /\ Send(Server, ServerID, ConnectPackets(client), {confirm})
            /\ UNCHANGED <<clientVars, handled>>
    BY DEF ReceiveHandshake
  <1> DEFINE client == [address |-> m.from, id |-> id]
  <1>3. id \in Nat \ {0} /\ id \in Int /\ client \in SessionRecord
    BY <1>1, <1>2 DEF MessageInv, TypeOK, SessionRecord
  <1>4. /\ AreConfirms({Confirm(m)})
        /\ \A r \in Nodes : myReceivedGuaranteedList[r] \subseteq myReceivedGuaranteedList'[r]
        /\ myReceivedGuaranteedList' \in [Nodes -> SUBSET (Int \X Nat)]
    <2>1. \/ Seen(Server, id, m) /\ UNCHANGED myReceivedGuaranteedList
          \/ Record(Server, id, m)
      BY <1>2 DEF guaranteeVars
    <2>2. QED
      BY <1>1, <1>3, <2>1, RecordStep
  <1>5. HandledStep
    BY <1>2, NothingHandled
  <1>6. myOpenClientIDs' \subseteq Nat \ {0} /\ myNextClientID' \in Nat \ {0}
    <2>1. myOpenClientIDs \subseteq Nat \ {0} /\ myNextClientID \in Nat \ {0}
      BY DEF MessageInv, TypeOK
    <2>2. myOpenClientIDs' \subseteq myOpenClientIDs
      BY <1>2 DEF AssignClientID
    <2>3. myNextClientID' = myNextClientID \/ myNextClientID' = myNextClientID + 1
      BY <1>2 DEF AssignClientID
    <2>4. myNextClientID' \in Nat \ {0}
      BY <2>1, <2>3
    <2>5. QED
      BY <2>1, <2>2, <2>4
  <1>7. /\ RouteInv' /\ NumberInv' /\ ConfirmInv' /\ HandledInv'
        /\ net' \subseteq Message
        /\ myNextGuaranteedID' \in [Nodes -> Nat]
        /\ mySentGuaranteedList' \in [Nodes -> SUBSET Message]
        /\ myConnectedClients' \subseteq SessionRecord
        /\ IsFiniteSet(myConnectedClients')
    <2>1. CASE /\ net' = net \cup {Confirm(m)}
               /\ UNCHANGED <<myNextGuaranteedID, mySentGuaranteedList, myConnectedClients>>
      <3>1. /\ RouteInv' /\ NumberInv' /\ ConfirmInv' /\ HandledInv'
            /\ net' \subseteq Message
            /\ myNextGuaranteedID' \in [Nodes -> Nat]
        BY <2>1, <1>4, <1>5, QuietStep
      <3>2. QED
        BY <2>1, <3>1 DEF MessageInv, TypeOK, SessionRecord
    <2>2. CASE /\ myConnectedClients' = myConnectedClients \cup {client}
               /\ Send(Server, ServerID, ConnectPackets(client), {Confirm(m)})
      <3>1. ConnectPackets(client) \in Seq(PacketOf(Server))
        BY <1>3, ConnectPacketsType DEF MessageInv, TypeOK, SessionRecord
      <3>2. UNCHANGED handled /\ ServerID \in Int
        BY <1>2
      <3>3. /\ RouteInv' /\ NumberInv' /\ ConfirmInv' /\ HandledInv'
            /\ net' \subseteq Message
            /\ myNextGuaranteedID' \in [Nodes -> Nat]
            /\ mySentGuaranteedList' \in [Nodes -> SUBSET Message]
        BY <1>1, <1>4, <2>2, <3>1, <3>2, SendStep
      <3>4. myConnectedClients' \subseteq SessionRecord /\ IsFiniteSet(myConnectedClients')
        BY <1>3, <2>2, FS_AddElement DEF MessageInv, TypeOK, SessionRecord
      <3>5. QED
        BY <3>3, <3>4
    <2>3. QED
      BY <1>2, <2>1, <2>2 DEF guaranteeVars
  <1>8. TypeOK'
    BY <1>2, <1>4, <1>6, <1>7 DEF MessageInv, TypeOK, clientVars, SessionRecord
  <1>9. QED
    BY <1>7, <1>8 DEF MessageInv

LEMMA DisconnectKeepsMessages ==
    ASSUME MessageInv, UNCHANGED bound, NEW m, ReceiveDisconnect(m)
    PROVE  MessageInv'
  <1>1. PICK client \in myConnectedClients :
            /\ ReleaseClientID(client)
            /\ myConnectedClients' = myConnectedClients \ {client}
            /\ Send(Server, ServerID, DisconnectPackets(client), {})
            /\ UNCHANGED <<myReceivedGuaranteedList, clientVars, handled>>
    BY DEF ReceiveDisconnect, FindConnectedClient
  <1>2. client \in SessionRecord /\ client.id \in Nat \ {0}
    BY DEF MessageInv, TypeOK, SessionRecord
  <1>3. DisconnectPackets(client) \in Seq(PacketOf(Server))
    BY <1>2, DisconnectPacketsType DEF MessageInv, TypeOK, SessionRecord
  <1>4. AreConfirms({}) /\ Server \in Nodes /\ ServerID \in Int
    BY DEF AreConfirms, Nodes
  <1>5. /\ RouteInv' /\ NumberInv' /\ ConfirmInv' /\ HandledInv'
        /\ net' \subseteq Message
        /\ myNextGuaranteedID' \in [Nodes -> Nat]
        /\ mySentGuaranteedList' \in [Nodes -> SUBSET Message]
    BY <1>1, <1>3, <1>4, SendStep
  <1>6. myOpenClientIDs' \subseteq Nat \ {0} /\ myNextClientID' \in Nat \ {0}
    <2>1. myOpenClientIDs \subseteq Nat \ {0} /\ myNextClientID \in Nat \ {0}
      BY DEF MessageInv, TypeOK
    <2>2. myOpenClientIDs' \subseteq myOpenClientIDs \cup {client.id}
      BY <1>1 DEF ReleaseClientID, OpenBelow
    <2>3. \/ myNextClientID' = myNextClientID \/ myNextClientID' = 1
          \/ \E next \in 1 .. client.id : myNextClientID' = next
      BY <1>1 DEF ReleaseClientID
    <2>4. myNextClientID' \in Nat \ {0}
      BY <1>2, <2>1, <2>3
    <2>5. QED
      BY <1>2, <2>1, <2>2, <2>4
  <1>7. IsFiniteSet(myConnectedClients')
    BY <1>1, FS_RemoveElement DEF MessageInv
  <1>8. TypeOK'
    BY <1>1, <1>5, <1>6 DEF MessageInv, TypeOK, clientVars
  <1>9. QED
    BY <1>5, <1>7, <1>8 DEF MessageInv

LEMMA DataKeepsMessages ==
    ASSUME MessageInv, UNCHANGED bound, NEW m \in net, m.to = Server, m.type = "data",
           ReceiveData(m)
    PROVE  MessageInv'
  <1>1. /\ Routed(m) /\ m \in Message /\ m.guaranteed /\ Server \in Nodes
        /\ m.sender \in Int /\ m.id \in Nat
    BY GuaranteedFacts DEF MessageInv, RouteInv, Nodes, Routed, Message
  <1>2. /\ net' = net \cup {Confirm(m)}
        /\ \/ /\ Seen(Server, m.sender, m)
              /\ UNCHANGED <<myReceivedGuaranteedList, handled>>
           \/ /\ ~Seen(Server, m.sender, m)
              /\ Record(Server, m.sender, m)
              /\ handled' = [handled EXCEPT ![<<m.from, m.id>>] = IF @ = 0 THEN 1 ELSE 2]
        /\ UNCHANGED <<myNextGuaranteedID, mySentGuaranteedList, serverVars, clientVars>>
    BY DEF ReceiveData
  <1>3. /\ AreConfirms({Confirm(m)})
        /\ \A r \in Nodes : myReceivedGuaranteedList[r] \subseteq myReceivedGuaranteedList'[r]
        /\ myReceivedGuaranteedList' \in [Nodes -> SUBSET (Int \X Nat)]
        /\ <<m.sender, m.id>> \in myReceivedGuaranteedList'[Server]
        /\ m \in Guaranteed
    <2>1. \/ Seen(Server, m.sender, m) /\ UNCHANGED myReceivedGuaranteedList
          \/ Record(Server, m.sender, m)
      BY <1>2
    <2>2. QED
      BY <1>1, <2>1, RecordStep
  <1>4. handled \in [HandledKeys -> 0 .. 2]
    BY DEF MessageInv, TypeOK, HandledKeys
  <1>5. HandledStep /\ handled' \in [HandledKeys -> 0 .. 2]
    <2>1. CASE UNCHANGED handled
      BY <2>1, <1>4, NothingHandled
    <2>2. CASE /\ ~Seen(Server, m.sender, m)
               /\ handled' = [handled EXCEPT ![<<m.from, m.id>>] = IF @ = 0 THEN 1 ELSE 2]
      <3>1. handled' \in [HandledKeys -> 0 .. 2]
        <4> DEFINE count == IF handled[<<m.from, m.id>>] = 0 THEN 1 ELSE 2
        <4>1. count \in 0 .. 2
          OBVIOUS
        <4>2. handled' = [handled EXCEPT ![<<m.from, m.id>>] = count]
          BY <2>2
        <4> HIDE DEF count
        <4>3. QED
          BY <4>1, <4>2, <1>4
      <3>2. ASSUME NEW x \in HandledKeys, x = <<m.from, m.id>>
            PROVE  handled[x] = 0
        <4>1. x[1] = m.from /\ x[2] = m.id
          BY <3>2
        <4>2. handled[x] # 1
          BY <1>3, <2>2, <4>1 DEF MessageInv, HandledInv, Seen
        <4>3. QED
          BY <4>2 DEF MessageInv, HandledInv
      <3>3. ASSUME NEW x \in HandledKeys
            PROVE  \/ handled'[x] = handled[x]
                   \/ /\ handled'[x] = 1
                      /\ \E g \in Guaranteed :
                            /\ g.type = "data" /\ g.from = x[1] /\ g.id = x[2]
                            /\ <<g.sender, g.id>> \in myReceivedGuaranteedList'[Server]
        <4>1. CASE x = <<m.from, m.id>>
          <5>1. handled[x] = 0
            BY <3>2, <4>1
          <5>2. handled'[x] = 1
            BY <4>1, <5>1, <2>2, <1>4
          <5>3. m.type = "data" /\ m.from = x[1] /\ m.id = x[2]
            BY <4>1
          <5>4. QED
            BY <5>2, <5>3, <1>3
        <4>2. CASE x # <<m.from, m.id>>
          BY <4>2, <2>2, <1>4
        <4>3. QED
          BY <4>1, <4>2
      <3>4. QED
        BY <3>1, <3>3 DEF HandledStep
    <2>3. QED
      BY <1>2, <2>1, <2>2
  <1>6. /\ RouteInv' /\ NumberInv' /\ ConfirmInv' /\ HandledInv'
        /\ net' \subseteq Message
        /\ myNextGuaranteedID' \in [Nodes -> Nat]
    BY <1>2, <1>3, <1>5, QuietStep
  <1>7. TypeOK'
    BY <1>2, <1>3, <1>5, <1>6 DEF MessageInv, TypeOK, serverVars, clientVars, HandledKeys
  <1>8. QED
    BY <1>2, <1>6, <1>7 DEF MessageInv, serverVars

LEMMA ConfirmKeepsMessages ==
    ASSUME MessageInv, UNCHANGED bound, NEW n \in Nodes, NEW m, ReceiveConfirm(n, m)
    PROVE  MessageInv'
  <1>1. /\ mySentGuaranteedList \in [Nodes -> SUBSET Message]
        /\ mySentGuaranteedList' =
              [mySentGuaranteedList EXCEPT ![n] = {other \in @ : other.id # m.id}]
        /\ UNCHANGED <<net, myNextGuaranteedID, myReceivedGuaranteedList,
                       serverVars, clientVars, handled>>
    BY DEF ReceiveConfirm, Unconfirmed, MessageInv, TypeOK
  <1>2. \A r \in Nodes : mySentGuaranteedList'[r] \subseteq mySentGuaranteedList[r]
    BY <1>1
  <1>3. mySentGuaranteedList' \in [Nodes -> SUBSET Message]
    BY <1>1
  <1>4. AreConfirms({}) /\ HandledStep
    BY <1>1, NothingHandled DEF AreConfirms
  <1>5. /\ RouteInv' /\ NumberInv' /\ ConfirmInv' /\ HandledInv'
        /\ net' \subseteq Message
        /\ myNextGuaranteedID' \in [Nodes -> Nat]
    BY <1>1, <1>2, <1>4, QuietStep
  <1>6. TypeOK'
    BY <1>1, <1>3, <1>5 DEF MessageInv, TypeOK, serverVars, clientVars
  <1>7. QED
    BY <1>1, <1>5, <1>6 DEF MessageInv, serverVars

LEMMA NetworkKeepsMessages ==
    ASSUME MessageInv, UNCHANGED bound,
           \/ \E m \in net : Lose(m)
           \/ \E n \in Nodes : \E m \in mySentGuaranteedList[n] : Resend(n, m)
           \/ UNCHANGED vars
    PROVE  MessageInv'
  <1>1. net' \subseteq net \cup Reachable(Guaranteed)
    BY DEF Lose, Resend, vars, Reachable, Guaranteed
  <1>2. UNCHANGED <<guaranteeVars, serverVars, clientVars, handled>>
    BY DEF Lose, Resend, vars
  <1>3. AreConfirms({}) /\ HandledStep
    BY <1>2, NothingHandled DEF AreConfirms
  <1>4. /\ RouteInv' /\ NumberInv' /\ ConfirmInv' /\ HandledInv'
        /\ net' \subseteq Message
        /\ myNextGuaranteedID' \in [Nodes -> Nat]
    BY <1>1, <1>2, <1>3, QuietStep DEF guaranteeVars
  <1>5. TypeOK'
    BY <1>2, <1>4 DEF MessageInv, TypeOK, guaranteeVars, serverVars, clientVars
  <1>6. QED
    BY <1>2, <1>4, <1>5 DEF MessageInv, serverVars

\* ConnectToServer, Reconnect and SendData.
LEMMA ClientSendKeepsMessages ==
    ASSUME MessageInv, UNCHANGED bound, NEW c \in Clients,
           ConnectToServer(c) \/ Reconnect(c) \/ SendData(c)
    PROVE  MessageInv'
  <1>1. /\ myClientID \in [Clients -> Int] /\ myIsConnected \in [Clients -> BOOLEAN]
        /\ myServerAddress \in [Clients -> {Server, NoAddress}]
    BY DEF MessageInv, TypeOK
  <1>2. /\ myClientID' \in [Clients -> Int] /\ myIsConnected' \in [Clients -> BOOLEAN]
        /\ myServerAddress' \in [Clients -> {Server, NoAddress}]
    <2>1. CASE ConnectToServer(c)
      <3>1. /\ myClientID' = [myClientID EXCEPT ![c] = NoID]
            /\ myIsConnected' = [myIsConnected EXCEPT ![c] = FALSE]
            /\ myServerAddress' = [myServerAddress EXCEPT ![c] = Server]
        BY <2>1 DEF ConnectToServer
      <3>2. NoID \in Int
        OBVIOUS
      <3> HIDE DEF NoID
      <3>3. myClientID' \in [Clients -> Int]
        BY <1>1, <3>1, <3>2
      <3>4. myIsConnected' \in [Clients -> BOOLEAN]
        BY <1>1, <3>1
      <3>5. myServerAddress' \in [Clients -> {Server, NoAddress}]
        BY <1>1, <3>1
      <3>6. QED
        BY <3>3, <3>4, <3>5
    <2>2. CASE Reconnect(c) \/ SendData(c)
      BY <1>1, <2>2 DEF Reconnect, SendData, clientVars
    <2>3. QED
      BY <2>1, <2>2
  <1>3. UNCHANGED <<myReceivedGuaranteedList, serverVars, handled>>
    BY DEF ConnectToServer, Reconnect, SendData
  <1>4. /\ "handshake" \in Types \ {"confirm"} /\ "data" \in Types \ {"confirm"}
        /\ c \in Nodes /\ c # Server
    BY AddressAssumption DEF Types, Nodes
  <1>5. \E senderID \in Int, packet \in PacketOf(c) : Send(c, senderID, <<packet>>, {})
    <2>1. CASE ConnectToServer(c)
      <3>1. Packet("handshake", Server, ServerID) \in PacketOf(c)
        BY <1>4 DEF Packet, PacketOf
      <3>2. Send(c, NoID, <<Packet("handshake", Server, ServerID)>>, {}) /\ NoID \in Int
        BY <2>1 DEF ConnectToServer
      <3>3. QED
        BY <3>1, <3>2
    <2>2. CASE Reconnect(c)
      <3>1. Packet("handshake", myServerAddress[c], ServerID) \in PacketOf(c)
        BY <1>1, <1>4 DEF Packet, PacketOf
      <3>2. /\ Send(c, myClientID[c], <<Packet("handshake", myServerAddress[c], ServerID)>>, {})
            /\ myClientID[c] \in Int
        BY <2>2, <1>1 DEF Reconnect
      <3>3. QED
        BY <3>1, <3>2
    <2>3. CASE SendData(c)
      <3>1. Packet("data", Server, ServerID) \in PacketOf(c)
        BY <1>4 DEF Packet, PacketOf
      <3>2. /\ Send(c, myClientID[c], <<Packet("data", Server, ServerID)>>, {})
            /\ myClientID[c] \in Int
        BY <2>3, <1>1 DEF SendData
      <3>3. QED
        BY <3>1, <3>2
    <2>4. QED
      BY <2>1, <2>2, <2>3
  <1>6. PICK senderID \in Int, packet \in PacketOf(c) : Send(c, senderID, <<packet>>, {})
    BY <1>5
  <1>7. <<packet>> \in Seq(PacketOf(c))
    OBVIOUS
  <1>8. AreConfirms({})
    BY DEF AreConfirms
  <1>9. /\ RouteInv' /\ NumberInv' /\ ConfirmInv' /\ HandledInv'
        /\ net' \subseteq Message
        /\ myNextGuaranteedID' \in [Nodes -> Nat]
        /\ mySentGuaranteedList' \in [Nodes -> SUBSET Message]
    BY <1>3, <1>4, <1>6, <1>7, <1>8, SendStep
  <1>10. TypeOK'
    BY <1>2, <1>3, <1>9 DEF MessageInv, TypeOK, serverVars
  <1>11. QED
    BY <1>3, <1>9, <1>10 DEF MessageInv, serverVars

\* The goodbye is not guaranteed.
LEMMA ClientLeaveKeepsMessages ==
    ASSUME MessageInv, UNCHANGED bound, NEW c \in Clients, Disconnect(c) \/ GiveUp(c)
    PROVE  MessageInv'
  <1> DEFINE goodbye == [type |-> "disconnect", from |-> c, to |-> Server,
                         sender |-> myClientID[c], target |-> ServerID,
                         guaranteed |-> FALSE, id |-> 0]
  <1>1. /\ myClientID \in [Clients -> Int] /\ myIsConnected \in [Clients -> BOOLEAN]
        /\ myServerAddress \in [Clients -> {Server, NoAddress}]
    BY DEF MessageInv, TypeOK
  <1>2. /\ myIsConnected' \in [Clients -> BOOLEAN]
        /\ myServerAddress' \in [Clients -> {Server, NoAddress}]
        /\ UNCHANGED <<guaranteeVars, serverVars, myClientID, handled>>
        /\ net' \subseteq net \cup {goodbye}
    BY <1>1 DEF Disconnect, GiveUp
  <1>3. goodbye \in Message
    BY <1>1 DEF Message, Types, Nodes
  <1>4. AreConfirms({goodbye}) /\ HandledStep
    BY <1>2, <1>3, NothingHandled, AddressAssumption DEF AreConfirms, Routed
  <1> HIDE DEF goodbye
  <1>5. /\ RouteInv' /\ NumberInv' /\ ConfirmInv' /\ HandledInv'
        /\ net' \subseteq Message
        /\ myNextGuaranteedID' \in [Nodes -> Nat]
    BY <1>2, <1>4, QuietStep DEF guaranteeVars
  <1>6. TypeOK'
    BY <1>1, <1>2, <1>5 DEF MessageInv, TypeOK, guaranteeVars, serverVars
  <1>7. QED
    BY <1>2, <1>5, <1>6 DEF MessageInv, serverVars

LEMMA ClientReceiveKeepsMessages ==
    ASSUME MessageInv, UNCHANGED bound, NEW c \in Clients, NEW m \in net, m.to = c,
           ClientReceiveGuaranteed(c, m)
    PROVE  MessageInv'
  <1>1. /\ m \in Message /\ m.sender \in Int /\ m.target \in Int /\ m.guaranteed
        /\ c \in Nodes
    BY DEF MessageInv, TypeOK, Message, Nodes, ClientReceiveGuaranteed
  <1>2. /\ net' = net \cup {Confirm(m)}
        /\ \/ /\ Seen(c, m.sender, m)
              /\ UNCHANGED <<myReceivedGuaranteedList, clientVars>>
           \/ Record(c, m.sender, m) /\ Handle(c, m)
        /\ UNCHANGED <<myNextGuaranteedID, mySentGuaranteedList, serverVars, handled>>
    BY DEF ClientReceiveGuaranteed
  <1>3. /\ AreConfirms({Confirm(m)})
        /\ \A r \in Nodes : myReceivedGuaranteedList[r] \subseteq myReceivedGuaranteedList'[r]
        /\ myReceivedGuaranteedList' \in [Nodes -> SUBSET (Int \X Nat)]
    <2>1. \/ Seen(c, m.sender, m) /\ UNCHANGED myReceivedGuaranteedList
          \/ Record(c, m.sender, m)
      BY <1>2
    <2>2. QED
      BY <1>1, <2>1, RecordStep
  <1>4. HandledStep
    BY <1>2, NothingHandled
  <1>5. /\ RouteInv' /\ NumberInv' /\ ConfirmInv' /\ HandledInv'
        /\ net' \subseteq Message
        /\ myNextGuaranteedID' \in [Nodes -> Nat]
    BY <1>2, <1>3, <1>4, QuietStep
  <1>6. /\ myClientID' \in [Clients -> Int] /\ myIsConnected' \in [Clients -> BOOLEAN]
        /\ myServerAddress' \in [Clients -> {Server, NoAddress}]
    <2>1. /\ myClientID \in [Clients -> Int] /\ myIsConnected \in [Clients -> BOOLEAN]
          /\ myServerAddress \in [Clients -> {Server, NoAddress}]
      BY DEF MessageInv, TypeOK
    <2>2. CASE UNCHANGED clientVars
      BY <2>1, <2>2 DEF clientVars
    <2>3. CASE Handle(c, m)
      <3>1. \/ UNCHANGED clientVars
            \/ /\ \E id \in {m.target, NoID}, connected \in BOOLEAN :
                     /\ myClientID' = [myClientID EXCEPT ![c] = id]
                     /\ myIsConnected' = [myIsConnected EXCEPT ![c] = connected]
               /\ UNCHANGED myServerAddress
        BY <2>3 DEF Handle
      <3>2. {m.target, NoID} \subseteq Int
        BY <1>1
      <3> HIDE DEF NoID
      <3>3. CASE UNCHANGED clientVars
        BY <3>3, <2>2
      <3>4. CASE /\ \E id \in {m.target, NoID}, connected \in BOOLEAN :
                       /\ myClientID' = [myClientID EXCEPT ![c] = id]
                       /\ myIsConnected' = [myIsConnected EXCEPT ![c] = connected]
                 /\ UNCHANGED myServerAddress
        <4>1. PICK id \in {m.target, NoID}, connected \in BOOLEAN :
                  /\ myClientID' = [myClientID EXCEPT ![c] = id]
                  /\ myIsConnected' = [myIsConnected EXCEPT ![c] = connected]
          BY <3>4
        <4>2. myClientID' \in [Clients -> Int]
          BY <2>1, <3>2, <4>1
        <4>3. myIsConnected' \in [Clients -> BOOLEAN]
          BY <2>1, <4>1
        <4>4. QED
          BY <2>1, <3>4, <4>2, <4>3
      <3>5. QED
        BY <3>1, <3>3, <3>4
    <2>4. QED
      BY <1>2, <2>2, <2>3
  <1>7. TypeOK'
    BY <1>2, <1>3, <1>5, <1>6 DEF MessageInv, TypeOK, serverVars
  <1>8. QED
    BY <1>2, <1>5, <1>7 DEF MessageInv, serverVars

LEMMA MessageInit == Init => MessageInv
  <1> SUFFICES ASSUME Init PROVE MessageInv
    OBVIOUS
  <1>1. TypeOK
    BY DEF Init, TypeOK
  <1>2. IsFiniteSet(myConnectedClients)
    BY FS_EmptySet DEF Init
  <1>3. RouteInv /\ ConfirmInv
    BY DEF Init, RouteInv, ConfirmInv
  <1>4. NumberInv
    BY DEF Init, NumberInv, Guaranteed
  <1>5. HandledInv
    BY DEF Init, HandledInv, HandledKeys
  <1>6. QED
    BY <1>1, <1>2, <1>3, <1>4, <1>5 DEF MessageInv

LEMMA MessageStep == MessageInv /\ [Next]_vars => MessageInv'
  <1> SUFFICES ASSUME MessageInv, [Next]_vars PROVE MessageInv'
    OBVIOUS
  <1>0. UNCHANGED bound
    BY DEF Next, vars
  <1>1. ASSUME NEW m \in net, ServerReceive(m) PROVE MessageInv'
    <2>1. CASE m.type = "confirm" /\ ReceiveConfirm(Server, m)
      BY <2>1, <1>0, ConfirmKeepsMessages DEF Nodes
    <2>2. CASE m.type = "handshake" /\ ReceiveHandshake(m)
      BY <1>1, <2>2, <1>0, HandshakeKeepsMessages DEF ServerReceive
    <2>3. CASE m.type = "data" /\ ReceiveData(m)
      BY <1>1, <2>3, <1>0, DataKeepsMessages DEF ServerReceive
    <2>4. CASE m.type = "disconnect" /\ ReceiveDisconnect(m)
      BY <2>4, <1>0, DisconnectKeepsMessages
    <2>5. QED
      BY <1>1, <2>1, <2>2, <2>3, <2>4 DEF ServerReceive
  <1>2. ASSUME NEW c \in Clients, NEW m \in net, ClientReceive(c, m) PROVE MessageInv'
    <2>1. CASE ReceiveConfirm(c, m)
      BY <2>1, <1>0, ConfirmKeepsMessages DEF Nodes
    <2>2. CASE m.to = c /\ ClientReceiveGuaranteed(c, m)
      BY <2>2, <1>0, ClientReceiveKeepsMessages
    <2>3. QED
      BY <1>2, <2>1, <2>2 DEF ClientReceive
  <1>3. CASE \/ \E m \in net : Lose(m)
             \/ \E n \in Nodes : \E m \in mySentGuaranteedList[n] : Resend(n, m)
             \/ UNCHANGED vars
    BY <1>3, <1>0, NetworkKeepsMessages
  <1>4. ASSUME NEW c \in Clients,
               ConnectToServer(c) \/ Reconnect(c) \/ Disconnect(c) \/ GiveUp(c) \/ SendData(c)
        PROVE  MessageInv'
    BY <1>4, <1>0, ClientSendKeepsMessages, ClientLeaveKeepsMessages
  <1>5. QED
    BY <1>1, <1>2, <1>3, <1>4 DEF Next, Step

\* Every variable keeps its type, whatever is received: Pack numbers messages
\* with naturals and the open identifiers are positive.
THEOREM TypeCorrect == Spec => []TypeOK
  <1>1. MessageInv => TypeOK
    BY DEF MessageInv
  <1>2. QED
    BY <1>1, MessageInit, MessageStep, PTL DEF Spec

\* The server calls OnReceivedMessage at most once for a message of the
\* program, although ReceiveNetMessage sees any number of its copies.
THEOREM MessageHandledOnce == Spec => []HandledOnce
  <1>1. MessageInv => HandledOnce
    BY DEF MessageInv, HandledInv, HandledOnce, HandledKeys
  <1>2. QED
    BY <1>1, MessageInit, MessageStep, PTL DEF Spec

\* Only a confirmation ends the resending of a message, and only of the one
\* its receiver recorded.
LEMMA ConfirmationRecorded ==
    ASSUME MessageInv, [Next]_vars, NEW n \in Nodes,
           NEW m \in mySentGuaranteedList[n] \ mySentGuaranteedList'[n]
    PROVE  m.to \in Nodes /\ Recorded(m.to, m.id)
  <1>1. \E k \in net : k.type = "confirm" /\ k.to = n /\ ReceiveConfirm(n, k)
    <2>1. mySentGuaranteedList' # mySentGuaranteedList
      OBVIOUS
    <2>2. mySentGuaranteedList \in [Nodes -> SUBSET Message]
      BY DEF MessageInv, TypeOK
    <2>3. ASSUME NEW r \in Nodes, NEW k, ReceiveConfirm(r, k)
          PROVE  r = n
      BY <2>2, <2>3 DEF ReceiveConfirm
    <2>4. ASSUME NEW r, NEW senderID, NEW packets, NEW others, Send(r, senderID, packets, others)
          PROVE  FALSE
      BY <2>2, <2>4 DEF Send
    <2>5. CASE \E k \in net : ServerReceive(k)
      <3>1. PICK k \in net : ServerReceive(k)
        BY <2>5
      <3>2. CASE k.type = "confirm" /\ ReceiveConfirm(Server, k)
        BY <3>1, <3>2, <2>3 DEF ServerReceive, Nodes
      <3>3. CASE ReceiveHandshake(k)
        BY <3>3, <2>1, <2>4 DEF ReceiveHandshake, guaranteeVars
      <3>4. CASE ReceiveData(k)
        BY <3>4, <2>1 DEF ReceiveData
      <3>5. CASE ReceiveDisconnect(k)
        BY <3>5, <2>4 DEF ReceiveDisconnect
      <3>6. QED
        BY <3>1, <3>2, <3>3, <3>4, <3>5 DEF ServerReceive
    <2>6. CASE \E c \in Clients, k \in net : ClientReceive(c, k)
      <3>1. PICK c \in Clients, k \in net : ClientReceive(c, k)
        BY <2>6
      <3>2. CASE k.type = "confirm" /\ ReceiveConfirm(c, k)
        BY <3>1, <3>2, <2>3 DEF ClientReceive, Nodes
      <3>3. CASE ClientReceiveGuaranteed(c, k)
        BY <3>3, <2>1 DEF ClientReceiveGuaranteed
      <3>4. QED
        BY <3>1, <3>2, <3>3 DEF ClientReceive
    <2>7. CASE \E c \in Clients : ConnectToServer(c) \/ Reconnect(c) \/ SendData(c)
      BY <2>7, <2>4 DEF ConnectToServer, Reconnect, SendData
    <2>8. CASE \E c \in Clients : Disconnect(c) \/ GiveUp(c)
      BY <2>8, <2>1 DEF Disconnect, GiveUp, guaranteeVars
    <2>9. CASE \/ \E k \in net : Lose(k)
               \/ \E r \in Nodes : \E k \in mySentGuaranteedList[r] : Resend(r, k)
               \/ UNCHANGED vars
      BY <2>9, <2>1 DEF Lose, Resend, guaranteeVars, vars
    <2>10. QED
      BY <2>5, <2>6, <2>7, <2>8, <2>9 DEF Next, Step
  <1>2. PICK k \in net : k.type = "confirm" /\ k.to = n /\ ReceiveConfirm(n, k)
    BY <1>1
  <1>3. m.id = k.id
    <2>1. mySentGuaranteedList \in [Nodes -> SUBSET Message]
      BY DEF MessageInv, TypeOK
    <2>2. mySentGuaranteedList'[n] = {other \in mySentGuaranteedList[n] : other.id # k.id}
      BY <1>2, <2>1 DEF ReceiveConfirm, Unconfirmed
    <2>3. QED
      BY <2>2
  <1>4. m \in Guaranteed /\ m.from = n
    BY DEF Guaranteed, MessageInv, RouteInv
  <1>5. m.to = k.from /\ Recorded(k.from, k.id)
    BY <1>2, <1>3, <1>4 DEF MessageInv, ConfirmInv
  <1>6. k.from \in Nodes
    BY <1>2, GuaranteedFacts DEF MessageInv
  <1>7. QED
    BY <1>3, <1>5, <1>6

\* NetManager resends a message until its receiver has recorded it.
THEOREM ConfirmedRecorded == Spec => ConfirmedIsRecorded
  <1>1. MessageInv /\ [Next]_vars =>
            [\A n \in Nodes :
                \A m \in mySentGuaranteedList[n] \ mySentGuaranteedList'[n] :
                    m.to \in Nodes /\
                    \E record \in myReceivedGuaranteedList[m.to] : record[2] = m.id]_vars
    BY ConfirmationRecorded DEF Recorded
  <1>2. QED
    BY <1>1, MessageInit, MessageStep, PTL DEF Spec, ConfirmedIsRecorded

-----------------------------------------------------------------------------
\* The sessions of the server are sound, for any number of clients and of
\* messages that are lost, doubled and late.
THEOREM SessionsAreSound == Spec => []NetworkInv
  <1>1. TypeOK /\ DistinctClientIDs /\ OneSessionPerAddress
          => NetworkInv
    BY DEF NetworkInv
  <1>2. QED
    BY <1>1, TypeCorrect, SessionsDistinct, SessionPerAddress, PTL
=============================================================================
