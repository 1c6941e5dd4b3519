----------------------------- MODULE TopicRouter -----------------------------
(***************************************************************************)
(* broker/src/TopicRouter.cpp: who is subscribed to which pattern, in      *)
(* which group, and to whom a message goes.  Every method runs under mu_,  *)
(* so each is one step.                                                    *)
(*                                                                         *)
(* subscriptions_ maps a pattern and a group name to a GroupState.  Here   *)
(* each pair (a slot) always has a state: a slot without members stands    *)
(* for one that is not in the map, and its index is the 0 that a new       *)
(* GroupState starts with.                                                 *)
(***************************************************************************)
EXTENDS Integers, FiniteSets, Sequences, Functions

CONSTANTS Patterns,         \* the topics clients subscribe to
          Topics,           \* the topics of published messages
          Matches(_, _),    \* TopicRouter::matches
          Groups,           \* group names given by clients
          NoGroup,          \* the empty group name
          Clients           \* ClientId

\* The group name made up for a client that gives none.
Unique(c) == <<"__unique_", c>>
IsUnique(g) == g \in {Unique(c) : c \in Clients}

\* No client calls its group "" or like another client's made-up one.
ASSUME GroupsNamed == \A c \in Clients : Unique(c) \notin Groups \cup {NoGroup}
ASSUME NoGroupUnnamed == NoGroup \notin Groups
ASSUME RouterFinite == IsFiniteSet(Patterns) /\ IsFiniteSet(Groups) /\ IsFiniteSet(Clients)

Slots == Patterns \X (Groups \cup {Unique(c) : c \in Clients})

VARIABLES members,   \* GroupState::members, per slot
          rr_idx     \* GroupState::rr_idx, per slot

routerVars == <<members, rr_idx>>

RouterInit ==
    /\ members = [s \in Slots |-> <<>>]
    /\ rr_idx = [s \in Slots |-> 0]

Has(s, c) == c \in Range(members[s])

\* Mutant: a repeated SUBSCRIBE adds the client again.
SubscribeTwice(p, g, c) ==
    LET s == <<p, IF g = NoGroup THEN Unique(c) ELSE g>> IN
    /\ members' = [members EXCEPT ![s] = Append(@, c)]
    /\ UNCHANGED rr_idx

\* subscribe.  A repeated subscription changes nothing.
subscribe(p, g, c) ==
    LET s == <<p, IF g = NoGroup THEN Unique(c) ELSE g>> IN
    /\ members' = IF Has(s, c) THEN members
                  ELSE [members EXCEPT ![s] = Append(@, c)]
    /\ UNCHANGED rr_idx

\* A slot's members without c.  std::remove takes out every occurrence; there
\* is at most one, since subscribe adds nobody twice.
Without(ms, c) ==
    IF \E k \in DOMAIN ms : ms[k] = c
    THEN LET k == CHOOSE k \in DOMAIN ms : ms[k] = c
         IN  SubSeq(ms, 1, k - 1) \o SubSeq(ms, k + 1, Len(ms))
    ELSE ms

\* Mutant: only the slots the client has for itself are cleaned up.
UnsubscribeUniqueOnly(c) ==
    /\ members' = [s \in Slots |-> IF IsUnique(s[2]) THEN Without(members[s], c)
                                   ELSE members[s]]
    /\ UNCHANGED rr_idx

\* unsubscribe: the client leaves every slot, empty slots are erased.
unsubscribe(c) ==
    /\ members' = [s \in Slots |-> Without(members[s], c)]
    /\ rr_idx' = [s \in Slots |-> IF members'[s] = <<>> THEN 0 ELSE rr_idx[s]]

\* Mutant: a subscription to the topic itself hides the ones with a wildcard.
VisitedExactFirst(t) ==
    {s \in Slots : /\ Matches(s[1], t) /\ members[s] # <<>>
                   /\ s[1] = t \/ \A r \in Slots : r[1] = t => members[r] = <<>>}

\* The slots that route visits for a topic.
Visited(t) == {s \in Slots : Matches(s[1], t) /\ members[s] # <<>>}

\* Mutant: the index is clamped to the last member instead of wrapping.
ChosenClamped(s) ==
    IF IsUnique(s[2]) THEN DOMAIN members[s]
    ELSE {IF rr_idx[s] < Len(members[s]) THEN rr_idx[s] + 1 ELSE Len(members[s])}

\* The places in members that a visited slot contributes to the targets: all
\* of a unique slot, the next one in turn of a named group.
Chosen(s) ==
    IF IsUnique(s[2]) THEN DOMAIN members[s]
    ELSE {(rr_idx[s] % Len(members[s])) + 1}

\* What route adds to targets, each the member of a slot at a place ...
Turns(t) == UNION {{s} \X Chosen(s) : s \in Visited(t)}

\* ... and in which order.  The unordered_maps are walked in any order, but
\* the groups of one pattern together, and a slot's members from the front.
InLoopOrder(o) ==
    \A a, b \in DOMAIN o : a < b =>
        /\ o[a][1] = o[b][1] => o[a][2] < o[b][2]
        /\ \A d \in a..b : /\ o[a][1] = o[b][1] => o[d][1] = o[a][1]
                           /\ o[a][1][1] = o[b][1][1] => o[d][1][1] = o[a][1][1]

\* The vectors that route may return for a topic.
RouteResults(t) ==
    {[n \in DOMAIN o |-> members[o[n][1]][o[n][2]]] :
        o \in {p \in Bijection(1..Cardinality(Turns(t)), Turns(t)) : InLoopOrder(p)}}

\* route moves the index of every named group that it visits.
Advance(t) ==
    rr_idx' = [s \in Slots |->
        IF s \in Visited(t) /\ ~IsUnique(s[2]) THEN rr_idx[s] + 1 ELSE rr_idx[s]]

route(t, ts) ==
    /\ ts \in RouteResults(t)
    /\ Advance(t)
    /\ UNCHANGED members
==============================================================================
