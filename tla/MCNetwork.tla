----------------------------- MODULE MCNetwork -----------------------------
(* Model values and bounds for Network. *)
EXTENDS Network, TLC

CONSTANTS a, b, c

\* Every client joins once: what matters is who is there at the same time.
Together == [server |-> ServerLimit, client |-> [d \in Clients |-> 1], notices |-> FALSE]

\* One client joins, sends, leaves and joins again.
Alone(d, messages, notices) ==
    [server |-> 4, client |-> [[e \in Clients |-> 0] EXCEPT ![d] = messages],
     notices |-> notices]

TogetherOrAlone ==
    {Together} \cup {Alone(d, ClientLimit, FALSE) : d \in Clients}
               \cup {Alone(d, 2, TRUE) : d \in Clients}
Quietly == {[server |-> ServerLimit, client |-> [d \in Clients |-> ClientLimit],
             notices |-> FALSE]}

\* The server treats the clients alike.
ThreeClients == Permutations({a, b, c})
=============================================================================
