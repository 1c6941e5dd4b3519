---------------------------- MODULE MCTopicRouter ----------------------------
(***************************************************************************)
(* The router under any sequence of subscribe, unsubscribe and route       *)
(* calls, with what the clients asked for and what they were given.        *)
(***************************************************************************)
EXTENDS TopicRouter, TopicMatch

CONSTANTS Requests,   \* the <<pattern, group>> pairs that clients subscribe to
          MaxRoutes   \* bound: no group's rr_idx goes beyond

ASSUME RequestsTyped == Requests \subseteq Patterns \X (Groups \cup {NoGroup})

VARIABLES wanted,    \* <<c, p, g>> for every subscription in force
          served,    \* per named slot and member, turns since the slot changed
          lastRoute  \* the last topic routed, and how many copies each client got

vars == <<routerVars, wanted, served, lastRoute>>

MCPatterns == {<<"o", ".", "*">>, <<"o", ".", "c">>}
MCRequests == {<<<<"o", ".", "*">>, NoGroup>>} \cup {<<<<"o", ".", "c">>, g>> : g \in Groups}
MCTopics == {<<"o", ".", "c">>, <<"o", ".", "d">>}

Idle == [topic |-> <<>>, copies |-> <<>>]
NoneServed == [c \in Clients |-> 0]

Init ==
    /\ RouterInit
    /\ wanted = {}
    /\ served = [s \in Slots |-> NoneServed]
    /\ lastRoute = Idle

\* The turns are counted anew in each slot whose members change.
Recount == served' = [s \in Slots |->
                        IF members'[s] = members[s] THEN served[s] ELSE NoneServed]

Subscribe(p, g, c) ==
    /\ subscribe(p, g, c)
    /\ wanted' = wanted \cup {<<c, p, g>>}
    /\ Recount
    /\ lastRoute' = Idle

Unsubscribe(c) ==
    /\ unsubscribe(c)
    /\ wanted' = {w \in wanted : w[1] # c}
    /\ Recount
    /\ lastRoute' = Idle

Route(t) ==
    /\ \A s \in Visited(t) : rr_idx[s] < MaxRoutes
    /\ \E ts \in RouteResults(t) :
        /\ route(t, ts)
        /\ lastRoute' = [topic |-> t, copies |-> [c \in Clients |->
                            Cardinality({i \in DOMAIN ts : ts[i] = c})]]
    /\ served' = [s \in Slots |-> [c \in Clients |->
                    IF s \in Visited(t) /\ ~IsUnique(s[2]) /\ \E k \in Chosen(s) : members[s][k] = c
                    THEN served[s][c] + 1 ELSE served[s][c]]]
    /\ UNCHANGED wanted

Next ==
    \/ \E r \in Requests, c \in Clients : Subscribe(r[1], r[2], c)
    \/ \E c \in Clients : Unsubscribe(c)
    \/ \E t \in Topics : Route(t)

Spec == Init /\ [][Next]_vars
------------------------------------------------------------------------------
\* Slots hold no client twice, and a slot without members has been reset: the
\* code erases it.
TypeOK ==
    /\ members \in [Slots -> Seq(Clients)]
    /\ rr_idx \in [Slots -> Nat]
    /\ \A s \in Slots : IsInjective(members[s])
                       /\ (members[s] = <<>> => rr_idx[s] = 0)

\* The clients that asked for a slot.
Wanting(s) == {c \in Clients :
    <<c, s[1], IF s[2] = Unique(c) THEN NoGroup ELSE s[2]>> \in wanted}

\* After any sequence of SUBSCRIBE frames and disconnects the router's slots
\* hold the clients whose subscriptions are in force, and nobody else.
MembershipExact == \A s \in Slots : Range(members[s]) = Wanting(s)

\* Competing consumers share the work: between two changes of a group no
\* member is given two messages more than another.
RoundRobin ==
    \A s \in Slots : \A a, b \in Range(members[s]) :
        served[s][a] - served[s][b] \in -1..1

\* Independent groups each get a copy: route returns exactly one client for
\* every group with a matching subscription, and each copy can be charged to
\* a subscription that its receiver asked for.
OneCopyPerGroup ==
    lastRoute # Idle =>
        LET due == {s \in Slots : Matches(s[1], lastRoute.topic) /\ Wanting(s) # {}}
        IN  \E pick \in [due -> Clients] :
                /\ \A s \in due : pick[s] \in Wanting(s)
                /\ \A c \in Clients : lastRoute.copies[c] =
                        Cardinality({s \in due : pick[s] = c})
==============================================================================
