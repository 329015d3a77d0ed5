----------------------------- MODULE PostMaster -----------------------------
(***************************************************************************)
(* The post master (CommonUtilities/Include/PostMaster.hpp): messages go   *)
(* to the subscribers of their type at once, or are kept until the end of  *)
(* the frame.  RecieveMessage runs inside the delivery, so a subscriber    *)
(* may subscribe, unsubscribe or send before the next one is told.         *)
(*                                                                         *)
(* One thread.  The deliveries in progress are the stack "calls", the      *)
(* innermost last.  Definitions called Faulty are no part of the           *)
(* specification.                                                          *)
(***************************************************************************)
EXTENDS Integers, Sequences, FiniteSets

CONSTANTS
    Types, Subscribers,
    FirstRoom,      \* how many delayed messages fit before the list grows: 4
    ListLimit,      \* bound: subscriptions to one type
    SendLimit,      \* bound: delayed messages ever sent
    TellLimit,      \* bound: how often a delivery may have to tell one subscriber
    DepthLimit      \* bound: deliveries in progress

ASSUME LimitsAssumption == {FirstRoom, ListLimit, SendLimit, TellLimit, DepthLimit} \subseteq Nat \ {0}

VARIABLES
    mySubscribers,      \* per type: the subscribers, in the list's order
    myDelayedMessages,  \* [id, type]
    room,               \* the list's capacity
    calls,              \* the deliveries in progress
    sent, delivered     \* history: how many were sent; the ids of those delivered

postVars == <<mySubscribers, myDelayedMessages, room, calls, sent, delivered>>

-----------------------------------------------------------------------------
Occurrences(list, s) == Cardinality({n \in 1 .. Len(list) : list[n] = s})

\* A delivery: which message, from which list ("delayed": by Dispatch), the
\* subscriber it is at and whether that one is being told.  "valid": the
\* reference to the message still points into the list.  The rest is history:
\* who was told, whether the list shrank, how often each one may be told.
Delivery(type, delayed, message) ==
    [type |-> type, delayed |-> delayed, message |-> message, index |-> 1, telling |-> FALSE,
     valid |-> TRUE, told |-> <<>>, shrunk |-> FALSE,
     allowed |-> [s \in Subscribers |-> Occurrences(mySubscribers[type], s)]]

Top == calls[Len(calls)]
Idle == calls = <<>>
InCallback == ~Idle => Top.telling

\* The last one takes the place of the one that is removed.
RemoveCyclicAtIndex(list, n) == SubSeq([list EXCEPT ![n] = list[Len(list)]], 1, Len(list) - 1)

\* Unsubscribe's loop: the list, and the index it is at.  After a removal it
\* looks at the same index again.
Round(at, s) ==
    IF at.n > Len(at.list) THEN at
    ELSE IF at.list[at.n] = s THEN [at EXCEPT !.list = RemoveCyclicAtIndex(@, at.n)]
    ELSE [at EXCEPT !.n = @ + 1]
Rounds(list, s) ==
    LET at[k \in 0 .. Len(list)] ==
            IF k = 0 THEN [list |-> list, n |-> 1] ELSE Round(at[k - 1], s)
    IN  at
Without(list, s) == Rounds(list, s)[Len(list)].list

PostInit ==
    /\ mySubscribers = [t \in Types |-> <<>>] /\ myDelayedMessages = <<>> /\ room = FirstRoom
    /\ calls = <<>> /\ sent = 0 /\ delivered = <<>>

-----------------------------------------------------------------------------
(* What the program may do, in a callback or outside.                      *)

FaultySubscribe(t, s) ==
    /\ InCallback /\ Len(mySubscribers[t]) < ListLimit
    /\ \A n \in DOMAIN calls : calls[n].type = t => calls[n].allowed[s] < TellLimit
    /\ mySubscribers' = [mySubscribers EXCEPT ![t] = <<s>> \o @]
    /\ calls' = [n \in DOMAIN calls |->
                    IF calls[n].type = t THEN [calls[n] EXCEPT !.allowed[s] = @ + 1] ELSE calls[n]]
    /\ UNCHANGED <<myDelayedMessages, room, sent, delivered>>

\* Nobody checks whether the subscriber is subscribed already.
Subscribe(t, s) ==
    /\ InCallback /\ Len(mySubscribers[t]) < ListLimit
    /\ \A n \in DOMAIN calls : calls[n].type = t => calls[n].allowed[s] < TellLimit
    /\ mySubscribers' = [mySubscribers EXCEPT ![t] = Append(@, s)]
    /\ calls' = [n \in DOMAIN calls |->
                    IF calls[n].type = t THEN [calls[n] EXCEPT !.allowed[s] = @ + 1] ELSE calls[n]]
    /\ UNCHANGED <<myDelayedMessages, room, sent, delivered>>

Unsubscribe(types, s) ==
    /\ InCallback /\ \E t \in types : Occurrences(mySubscribers[t], s) > 0
    /\ mySubscribers' = [t \in Types |-> IF t \in types THEN Without(mySubscribers[t], s)
                                         ELSE mySubscribers[t]]
    /\ calls' = [n \in DOMAIN calls |->
                    [calls[n] EXCEPT !.shrunk = @ \/ mySubscribers'[calls[n].type]
                                                     # mySubscribers[calls[n].type]]]
    /\ UNCHANGED <<myDelayedMessages, room, sent, delivered>>

SendInstantMessage(t) ==
    /\ InCallback /\ Len(calls) < DepthLimit
    /\ calls' = Append(calls, Delivery(t, FALSE, 0))
    /\ UNCHANGED <<mySubscribers, myDelayedMessages, room, sent, delivered>>

Grows == Len(myDelayedMessages) = room

\* The list grows by moving: the reference Dispatch holds is left behind.
SendDelayedMessage(t) ==
    /\ InCallback /\ sent < SendLimit
    /\ sent' = sent + 1
    /\ myDelayedMessages' = Append(myDelayedMessages, [id |-> sent', type |-> t])
    /\ room' = IF Grows THEN 2 * room ELSE room
    /\ calls' = [n \in DOMAIN calls |->
                    [calls[n] EXCEPT !.valid = @ /\ ~(calls[n].delayed /\ Grows)]]
    /\ UNCHANGED <<mySubscribers, delivered>>

FaultyDispatch ==
    /\ Idle /\ Len(myDelayedMessages) > 1
    /\ calls' = <<Delivery(myDelayedMessages[1].type, TRUE, 1)>>
    /\ UNCHANGED <<mySubscribers, myDelayedMessages, room, sent, delivered>>

\* Called by Engine::EndFrame, when no message is on its way.
Dispatch ==
    /\ Idle /\ myDelayedMessages # <<>>
    /\ calls' = <<Delivery(myDelayedMessages[1].type, TRUE, 1)>>
    /\ UNCHANGED <<mySubscribers, myDelayedMessages, room, sent, delivered>>

-----------------------------------------------------------------------------
(* The loops.  Both read the size of the list again in every round.        *)

Tell ==
    /\ ~Idle /\ ~Top.telling /\ Top.index <= Len(mySubscribers[Top.type])
    /\ calls' = [calls EXCEPT ![Len(calls)] =
                    [Top EXCEPT !.telling = TRUE,
                                !.told = Append(@, mySubscribers[Top.type][Top.index])]]
    /\ UNCHANGED <<mySubscribers, myDelayedMessages, room, sent, delivered>>

Return ==
    /\ ~Idle /\ Top.telling
    /\ calls' = [calls EXCEPT ![Len(calls)] = [Top EXCEPT !.telling = FALSE, !.index = @ + 1]]
    /\ UNCHANGED <<mySubscribers, myDelayedMessages, room, sent, delivered>>

AllTold == ~Idle /\ ~Top.telling /\ Top.index > Len(mySubscribers[Top.type])

EndInstant ==
    /\ AllTold /\ ~Top.delayed
    /\ calls' = SubSeq(calls, 1, Len(calls) - 1)
    /\ UNCHANGED <<mySubscribers, myDelayedMessages, room, sent, delivered>>

\* Messages sent during Dispatch are delivered by it too.
NextMessage ==
    /\ AllTold /\ Top.delayed /\ Top.message < Len(myDelayedMessages)
    /\ delivered' = Append(delivered, myDelayedMessages[Top.message].id)
    /\ calls' = <<Delivery(myDelayedMessages[Top.message + 1].type, TRUE, Top.message + 1)>>
    /\ UNCHANGED <<mySubscribers, myDelayedMessages, room, sent>>

FaultyEndDispatch ==
    /\ AllTold /\ Top.delayed
    /\ delivered' = Append(delivered, myDelayedMessages[Top.message].id)
    /\ myDelayedMessages' = <<>>
    /\ calls' = <<>>
    /\ UNCHANGED <<mySubscribers, room, sent>>

EndDispatch ==
    /\ AllTold /\ Top.delayed /\ Top.message = Len(myDelayedMessages)
    /\ delivered' = Append(delivered, myDelayedMessages[Top.message].id)
    /\ myDelayedMessages' = <<>>
    /\ calls' = <<>>
    /\ UNCHANGED <<mySubscribers, room, sent>>

Deliver == Tell \/ Return \/ EndInstant \/ NextMessage \/ EndDispatch

PostNext ==
    \/ \E t \in Types : SendInstantMessage(t) \/ SendDelayedMessage(t)
    \/ \E s \in Subscribers : \/ Unsubscribe(Types, s)
                              \/ \E t \in Types : Subscribe(t, s) \/ Unsubscribe({t}, s)
    \/ Dispatch \/ Deliver

PostSpec == PostInit /\ [][PostNext]_postVars

\* The loops go on once they are entered, every callback returns after finitely
\* many sends and the engine ends its frames.  The code does not keep callbacks
\* from subscribing and sending for ever: the bounds make a delivery finite.
FairPostSpec ==
    /\ PostSpec /\ WF_postVars(Deliver) /\ SF_postVars(Dispatch)
    /\ \A d \in 1 .. DepthLimit : SF_postVars(Len(calls) = d /\ Return)

-----------------------------------------------------------------------------
PostTypeOK ==
    /\ \A t \in Types : mySubscribers[t] \in Seq(Subscribers)
    /\ \A n \in DOMAIN myDelayedMessages :
           myDelayedMessages[n].id \in 1 .. sent /\ myDelayedMessages[n].type \in Types
    /\ room \in Nat /\ Len(myDelayedMessages) <= room
    /\ \A n \in DOMAIN calls :
           /\ calls[n].type \in Types /\ calls[n].index \in Nat \ {0}
           /\ calls[n].delayed => n = 1 /\ calls[n].message \in DOMAIN myDelayedMessages
           /\ n < Len(calls) => calls[n].telling

\* If nobody unsubscribes from the type in the meantime, the subscribers are told
\* in the order of the list, each one once per subscription, also those who
\* subscribe during the delivery (PostMaster.hpp:115-118, 147-150).
ToldInOrder ==
    \A n \in DOMAIN calls :
        LET c == calls[n]
            sofar == IF c.telling THEN c.index ELSE c.index - 1
        IN  ~c.shrunk => c.told = SubSeq(mySubscribers[c.type], 1, sofar)

\* Whatever the callbacks do, nobody is told more often than it subscribed:
\* an unsubscription may hide a subscriber from the loop, and never shows
\* one twice (PostMaster.hpp:91, 115, 147).
NeverToldTwice ==
    \A n \in DOMAIN calls : \A s \in Subscribers :
        Occurrences(calls[n].told, s) <= calls[n].allowed[s]

\* Delayed messages are delivered in the order they were sent, and the list is
\* emptied only of delivered ones, also if callbacks send (PostMaster.hpp:143-153).
DelayedInOrder ==
    LET first == IF ~Idle /\ calls[1].delayed THEN calls[1].message ELSE 1
        waiting == [n \in 1 .. Len(myDelayedMessages) + 1 - first |->
                        myDelayedMessages[n + first - 1].id]
    IN  delivered \o waiting = [n \in 1 .. sent |-> n]

\* The message Dispatch delivers stays where it is as long as no more messages
\* are queued than had room at first, those sent by callbacks included.  One more,
\* and the subscribers after its sender get a dangling reference
\* (PostMaster.hpp:138, 145, 149).
ReferencesStayValid == Len(myDelayedMessages) <= FirstRoom => \A n \in DOMAIN calls : calls[n].valid

\* A delayed message is delivered, even if callbacks send and unsubscribe.
DelayedArrive == \A n \in 1 .. SendLimit : sent >= n ~> \E k \in DOMAIN delivered : delivered[k] = n

\* However callbacks send, subscribe and unsubscribe: nobody is told too often,
\* delayed messages keep their order, and the message that is delivered stays
\* where it is while the list has room (PostMaster.hpp:83-153).
PostMasterInv == PostTypeOK /\ NeverToldTwice /\ DelayedInOrder /\ ReferencesStayValid
=============================================================================
