---------------------------- MODULE RouterProofs -----------------------------
(***************************************************************************)
(* The router for any number of patterns, groups and clients, and the two  *)
(* matchers compared for patterns and topics of any length.                *)
(***************************************************************************)
EXTENDS MCTopicRouter, WellFoundedInduction, FiniteSetTheorems, TLAPS

\* A non-empty set of numbers, such as the places of '*' in a pattern, has a
\* least element: what std::string::find returns.
LEMMA LeastElement ==
    ASSUME NEW T, T \subseteq Nat, T # {}
    PROVE  \E n \in T : \A k \in T : n <= k
<1> DEFINE R == OpToRel(<, Nat)
<1>1. \E n \in T : \A k \in T : ~(<<k, n>> \in R)
  <2> HIDE DEF R
  <2>1. IsWellFoundedOn(R, Nat)
    BY Zenon, NatLessThanWellFounded DEF R
  <2> QED BY Zenon, <2>1, WFMin
<1>2. \A n, k \in T : k < n => <<k, n>> \in R
  BY DEF OpToRel
<1> QED
  <2>1. PICK n \in T : \A k \in T : ~(<<k, n>> \in R)
    BY Zenon, <1>1
  <2>2. \A k \in T : ~(k < n)
    BY Zenon, <1>2, <2>1
  <2>3. \A k \in T : k \in Nat /\ n \in Nat
    OBVIOUS
  <2> QED BY <2>2, <2>3

\* The gateway's topicMatches is no wider than the broker's matches: an event
\* that the gateway would pass on to a subscriber of a pattern is one that the
\* broker routes to the gateway for that pattern.
THEOREM GatewayMatchesFewer ==
    ASSUME NEW S, NEW p \in Seq(S), NEW t \in Seq(S), topicMatches(p, t)
    PROVE  matches(p, t)
<1>1. CASE p = t
  BY <1>1 DEF matches
<1>2. CASE p # t
  <2> DEFINE stars == {i \in 1..Len(p) : p[i] = Star}
  <2>1. Len(p) \in Nat /\ Len(p) >= 1 /\ p[Len(p)] = Star
    <3>1. CASE p = <<Star>>
      BY <3>1
    <3>2. CASE Len(p) >= 2 /\ p[Len(p)] = Star
      BY <3>2
    <3> QED BY <1>2, <3>1, <3>2 DEF topicMatches
  <2>2. \A i \in 1..(Len(p) - 1) : i <= Len(t) /\ t[i] = p[i]
    BY <1>2, <2>1 DEF topicMatches, StartsWith, Star
  <2>3. stars \subseteq Nat /\ stars # {}
    BY <2>1
  <2>4. PICK n \in stars : \A k \in stars : n <= k
    <3> HIDE DEF stars
    <3> QED BY Zenon, <2>3, LeastElement
  <2>5. n \in 1..Len(p) /\ p[n] = Star /\ \A i \in 1..(n - 1) : p[i] # Star
    BY <2>1, <2>4
  <2>6. StartsWith(t, SubSeq(p, 1, n - 1))
    <3>1. /\ Len(SubSeq(p, 1, n - 1)) = n - 1
          /\ \A i \in 1..(n - 1) : SubSeq(p, 1, n - 1)[i] = p[i]
      BY <2>1, <2>5
    <3>2. n - 1 <= Len(t)
      BY <2>1, <2>2, <2>5
    <3>3. \A i \in 1..(n - 1) : t[i] = p[i]
      BY <2>1, <2>2, <2>5
    <3> QED BY <3>1, <3>2, <3>3 DEF StartsWith
  <2> QED BY <2>5, <2>6 DEF matches
<1> QED BY <1>1, <1>2

------------------------------------------------------------------------------
\* Taking a client out of a list without repetitions takes out just that client
\* and repeats nobody.
LEMMA WithoutEffect ==
    ASSUME NEW ms \in Seq(Clients), IsInjective(ms), NEW c
    PROVE  /\ Without(ms, c) \in Seq(Clients)
           /\ IsInjective(Without(ms, c))
           /\ Range(Without(ms, c)) = Range(ms) \ {c}
<1>1. CASE ~\E k \in DOMAIN ms : ms[k] = c
  BY <1>1 DEF Without, Range
<1>2. CASE \E k \in DOMAIN ms : ms[k] = c
  <2> DEFINE k == CHOOSE k \in DOMAIN ms : ms[k] = c
             n == Len(ms)
             r == SubSeq(ms, 1, k - 1) \o SubSeq(ms, k + 1, n)
  <2>1. k \in 1..n /\ ms[k] = c /\ n \in Nat
    BY <1>2
  <2>2. Without(ms, c) = r
    BY <1>2, Zenon DEF Without
  <2> HIDE DEF k
  <2>3. /\ r \in Seq(Clients) /\ Len(r) = n - 1
        /\ \A i \in 1..(n - 1) : r[i] = IF i < k THEN ms[i] ELSE ms[i + 1]
    <3> DEFINE a == SubSeq(ms, 1, k - 1)
               b == SubSeq(ms, k + 1, n)
    <3>1. /\ a \in Seq(Clients) /\ Len(a) = k - 1
          /\ \A i \in 1..(k - 1) : a[i] = ms[i]
      BY <2>1
    <3>2. /\ b \in Seq(Clients) /\ Len(b) = n - k
          /\ \A i \in 1..(n - k) : b[i] = ms[i + k]
      BY <2>1
    <3>3. r = a \o b
      BY DEF r
    <3> HIDE DEF a, b, r
    <3>4. r \in Seq(Clients) /\ Len(r) = n - 1
      <4>1. a \in Seq(Clients) /\ b \in Seq(Clients)
        BY <3>1, <3>2, Zenon
      <4>2. a \o b \in Seq(Clients) /\ Len(a \o b) = Len(a) + Len(b)
        BY <4>1
      <4>3. Len(a) = k - 1 /\ Len(b) = n - k
        BY <3>1, <3>2, Zenon
      <4> HIDE DEF n
      <4> QED BY <2>1, <3>3, <4>2, <4>3
    <3>5. ASSUME NEW i \in 1..(n - 1) PROVE r[i] = IF i < k THEN ms[i] ELSE ms[i + 1]
      <4>1. r[i] = IF i <= k - 1 THEN a[i] ELSE b[i - (k - 1)]
        BY <2>1, <3>1, <3>2, <3>3
      <4>2. CASE i < k
        BY <2>1, <3>1, <4>1, <4>2
      <4>3. CASE ~(i < k)
        <5>1. i - (k - 1) \in 1..(n - k) /\ (i - (k - 1)) + k = i + 1 /\ ~(i <= k - 1)
          BY <2>1, <4>3
        <5>2. b[i - (k - 1)] = ms[(i - (k - 1)) + k]
          BY <3>2, <5>1
        <5> QED BY <4>1, <4>3, <5>1, <5>2
      <4> QED BY <4>2, <4>3
    <3> QED BY <3>4, <3>5
  <2> HIDE DEF r
  <2>4. IsInjective(r)
    <3> SUFFICES ASSUME NEW i \in 1..(n - 1), NEW j \in 1..(n - 1), r[i] = r[j] PROVE i = j
      BY <2>1, <2>3 DEF IsInjective
    <3> DEFINE p(x) == IF x < k THEN x ELSE x + 1
    <3>1. p(i) \in DOMAIN ms /\ p(j) \in DOMAIN ms
      BY <2>1
    <3>2. r[i] = ms[p(i)] /\ r[j] = ms[p(j)]
      BY <2>3
    <3>3. p(i) = p(j)
      BY <3>1, <3>2, Zenon DEF IsInjective
    <3> QED BY <2>1, <3>3
  <2>5. ASSUME NEW x \in Range(r) PROVE x \in Range(ms) \ {c}
    <3>1. PICK i \in 1..(n - 1) : r[i] = x
      BY <2>1, <2>3 DEF Range
    <3>2. PICK j \in 1..n : j # k /\ ms[j] = x
      <4>1. CASE i < k
        BY <4>1, <3>1, <2>1, <2>3
      <4>2. CASE ~(i < k)
        BY <4>2, <3>1, <2>1, <2>3
      <4> QED BY <4>1, <4>2
    <3> QED BY <3>2, <2>1 DEF IsInjective, Range
  <2>6. ASSUME NEW x \in Range(ms) \ {c} PROVE x \in Range(r)
    <3>1. PICK j \in 1..n : ms[j] = x /\ j # k
      BY <2>1 DEF Range
    <3>2. CASE j < k
      <4>1. j \in 1..(n - 1) /\ r[j] = x
        BY <3>1, <3>2, <2>1, <2>3
      <4> QED BY <4>1, <2>1, <2>3 DEF Range
    <3>3. CASE ~(j < k)
      <4>1. j - 1 \in 1..(n - 1) /\ r[j - 1] = x
        BY <3>1, <3>3, <2>1, <2>3
      <4> QED BY <4>1, <2>1, <2>3 DEF Range
    <3> QED BY <3>2, <3>3
  <2> QED BY <2>2, <2>3, <2>4, <2>5, <2>6
<1> QED BY <1>1, <1>2

\* Adding a client at the end of a list in which it does not occur.
LEMMA AppendEffect ==
    ASSUME NEW ms \in Seq(Clients), IsInjective(ms), NEW c \in Clients, c \notin Range(ms)
    PROVE  /\ Append(ms, c) \in Seq(Clients)
           /\ IsInjective(Append(ms, c))
           /\ Range(Append(ms, c)) = Range(ms) \cup {c}
           /\ Append(ms, c) # <<>>
<1> DEFINE r == Append(ms, c)
           n == Len(ms)
<1>1. /\ n \in Nat /\ r \in Seq(Clients) /\ Len(r) = n + 1
      /\ \A i \in 1..n : r[i] = ms[i]
      /\ r[n + 1] = c
  OBVIOUS
<1>2. \A i \in 1..n : ms[i] # c
  BY DEF Range
<1> HIDE DEF r
<1>3. IsInjective(r)
  BY <1>1, <1>2 DEF IsInjective
<1>4. Range(r) = Range(ms) \cup {c}
  BY <1>1 DEF Range
<1>5. r # <<>>
  BY <1>1
<1> QED BY <1>1, <1>3, <1>4, <1>5 DEF r

\* What clients have asked for, as the frames can say it.
WantedOK == wanted \subseteq Clients \X Patterns \X (Groups \cup {NoGroup})

\* The slot that a SUBSCRIBE is about.
SlotOf(p, g, c) == <<p, IF g = NoGroup THEN Unique(c) ELSE g>>

\* Each subscription belongs to one slot, and a slot that a client made up for
\* itself is wanted by nobody else.
LEMMA SlotsApart ==
    ASSUME NEW p \in Patterns, NEW g \in Groups \cup {NoGroup}, NEW c \in Clients,
           NEW s \in Slots
    PROVE  /\ SlotOf(p, g, c) \in Slots
           /\ <<c, s[1], IF s[2] = Unique(c) THEN NoGroup ELSE s[2]>> = <<c, p, g>>
                <=> s = SlotOf(p, g, c)
<1>1. \A d \in Clients : Unique(d) \notin Groups \cup {NoGroup}
  BY GroupsNamed
<1>2. PICK q \in Patterns, h \in Groups \cup {Unique(d) : d \in Clients} : s = <<q, h>>
  BY DEF Slots
<1>3. SlotOf(p, g, c) \in Slots
  BY DEF SlotOf, Slots
<1>4. CASE g = NoGroup
  BY <1>1, <1>2, <1>3, <1>4, NoGroupUnnamed DEF SlotOf
<1>5. CASE g # NoGroup
  <2>1. s[1] = q /\ s[2] = h /\ SlotOf(p, g, c) = <<p, g>> /\ g \in Groups
    BY <1>2, <1>5 DEF SlotOf
  <2>2. CASE h = Unique(c)
    <3>1. h # g
      BY <1>1, <2>1, <2>2
    <3> QED BY <1>2, <1>3, <1>5, <2>1, <2>2, <3>1
  <2>3. CASE h # Unique(c)
    BY <1>2, <1>3, <2>1, <2>3
  <2> QED BY <2>2, <2>3
<1> QED BY <1>4, <1>5

\* subscribe makes its client a member of one slot and touches no other.
LEMMA SubscribeStep ==
    ASSUME TypeOK, WantedOK, MembershipExact,
           NEW p \in Patterns, NEW g \in Groups \cup {NoGroup}, NEW c \in Clients,
           Subscribe(p, g, c)
    PROVE  TypeOK' /\ WantedOK' /\ MembershipExact'
<1> DEFINE s0 == SlotOf(p, g, c)
<1>1. /\ members' = IF Has(s0, c) THEN members ELSE [members EXCEPT ![s0] = Append(@, c)]
      /\ rr_idx' = rr_idx /\ wanted' = wanted \cup {<<c, p, g>>}
  BY Zenon DEF Subscribe, subscribe, SlotOf
<1>2. /\ members \in [Slots -> Seq(Clients)] /\ rr_idx \in [Slots -> Nat]
      /\ \A s \in Slots : IsInjective(members[s]) /\ (members[s] = <<>> => rr_idx[s] = 0)
  BY DEF TypeOK
<1>3. s0 \in Slots
  BY DEF SlotOf, Slots
<1>4. WantedOK'
  <2>1. <<c, p, g>> \in Clients \X Patterns \X (Groups \cup {NoGroup})
    OBVIOUS
  <2> QED BY Zenon, <1>1, <2>1 DEF WantedOK
<1> HIDE DEF s0
<1>5. ASSUME NEW s \in Slots
      PROVE  /\ members'[s] \in Seq(Clients) /\ IsInjective(members'[s])
             /\ (members'[s] = <<>> => rr_idx[s] = 0)
             /\ Range(members'[s]) = Range(members[s]) \cup (IF s = s0 THEN {c} ELSE {})
  <2>1. CASE s = s0 /\ ~Has(s0, c)
    <3>1. members'[s] = Append(members[s], c) /\ c \notin Range(members[s])
      BY <1>1, <1>2, <1>3, <2>1 DEF Has
    <3> QED BY <3>1, <1>2, <2>1, AppendEffect
  <2>2. CASE s = s0 /\ Has(s0, c)
    <3>1. members'[s] = members[s] /\ c \in Range(members[s])
      BY <1>1, <2>2 DEF Has
    <3> QED BY <3>1, <1>2, <2>2
  <2>3. CASE s # s0
    <3>1. members'[s] = members[s]
      BY <1>1, <1>2, <1>3, <2>3
    <3> QED BY <3>1, <1>2, <2>3
  <2> QED BY <2>1, <2>2, <2>3
<1>6. members' \in [Slots -> Seq(Clients)]
  <2>1. DOMAIN members' = Slots /\ members' = [s \in DOMAIN members' |-> members'[s]]
    BY Zenon, <1>1, <1>2
  <2> QED BY <2>1, <1>5
<1>7. TypeOK'
  BY <1>1, <1>2, <1>5, <1>6 DEF TypeOK
<1>8. ASSUME NEW s \in Slots
      PROVE  Wanting(s)' = Wanting(s) \cup (IF s = s0 THEN {c} ELSE {})
  <2> DEFINE w(d) == <<d, s[1], IF s[2] = Unique(d) THEN NoGroup ELSE s[2]>>
  <2>1. \A d \in Clients : w(d) = <<c, p, g>> <=> d = c /\ s = s0
    <3>1. w(c) = <<c, p, g>> <=> s = s0
      BY SlotsApart DEF s0
    <3>2. \A d \in Clients : w(d) = <<c, p, g>> => d = c
      OBVIOUS
    <3> QED BY <3>1, <3>2
  <2>2. Wanting(s) = {d \in Clients : w(d) \in wanted}
        /\ Wanting(s)' = {d \in Clients : w(d) \in wanted'}
    BY DEF Wanting
  <2> HIDE DEF w
  <2> QED BY <1>1, <2>1, <2>2
<1>9. MembershipExact'
  BY Zenon, <1>5, <1>8 DEF MembershipExact
<1> QED BY <1>4, <1>7, <1>9

\* unsubscribe takes its client out of every slot.
LEMMA UnsubscribeStep ==
    ASSUME TypeOK, WantedOK, MembershipExact, NEW c \in Clients, Unsubscribe(c)
    PROVE  TypeOK' /\ WantedOK' /\ MembershipExact'
<1>1. /\ members' = [s \in Slots |-> Without(members[s], c)]
      /\ rr_idx' = [s \in Slots |-> IF members'[s] = <<>> THEN 0 ELSE rr_idx[s]]
      /\ wanted' = {w \in wanted : w[1] # c}
  BY Zenon DEF Unsubscribe, unsubscribe
<1>2. /\ members \in [Slots -> Seq(Clients)] /\ rr_idx \in [Slots -> Nat]
      /\ \A s \in Slots : IsInjective(members[s])
  BY DEF TypeOK
<1>3. WantedOK'
  BY <1>1 DEF WantedOK
<1>4. ASSUME NEW s \in Slots
      PROVE  /\ members'[s] \in Seq(Clients) /\ IsInjective(members'[s])
             /\ Range(members'[s]) = Range(members[s]) \ {c}
             /\ (members'[s] = <<>> => rr_idx'[s] = 0) /\ rr_idx'[s] \in Nat
  <2>1. members'[s] = Without(members[s], c)
    BY <1>1
  <2>2. (members'[s] = <<>> => rr_idx'[s] = 0) /\ rr_idx'[s] \in Nat
    BY <1>1, <1>2
  <2> QED BY <2>1, <2>2, <1>2, WithoutEffect
<1>5. members' \in [Slots -> Seq(Clients)] /\ rr_idx' \in [Slots -> Nat]
  <2>1. /\ DOMAIN members' = Slots /\ members' = [s \in DOMAIN members' |-> members'[s]]
        /\ DOMAIN rr_idx' = Slots /\ rr_idx' = [s \in DOMAIN rr_idx' |-> rr_idx'[s]]
    BY <1>1
  <2> QED BY <2>1, <1>4
<1>6. TypeOK'
  BY <1>4, <1>5 DEF TypeOK
<1>7. ASSUME NEW s \in Slots PROVE Wanting(s)' = Wanting(s) \ {c}
  BY <1>1 DEF Wanting
<1>8. MembershipExact'
  BY Zenon, <1>4, <1>7 DEF MembershipExact
<1> QED BY <1>3, <1>6, <1>8

\* A step that leaves members, rr_idx and wanted alone, or moves only rr_idx.
LEMMA RouteKeeps ==
    ASSUME TypeOK, WantedOK, MembershipExact,
           members' = members, wanted' = wanted, rr_idx' \in [Slots -> Nat],
           \A s \in Slots : members[s] = <<>> => rr_idx'[s] = rr_idx[s]
    PROVE  TypeOK' /\ WantedOK' /\ MembershipExact'
<1>1. TypeOK'
  BY DEF TypeOK
<1>2. WantedOK' /\ MembershipExact'
  BY Zenon DEF WantedOK, MembershipExact, Wanting
<1> QED BY <1>1, <1>2

\* route moves the index of a group with members by one.
LEMMA AdvanceEffect ==
    ASSUME TypeOK, NEW t, Advance(t)
    PROVE  /\ rr_idx' \in [Slots -> Nat]
           /\ \A s \in Slots : members[s] = <<>> => rr_idx'[s] = rr_idx[s]
<1>1. rr_idx' = [s \in Slots |->
        IF s \in Visited(t) /\ ~IsUnique(s[2]) THEN rr_idx[s] + 1 ELSE rr_idx[s]]
  BY DEF Advance
<1>2. rr_idx \in [Slots -> Nat]
  BY DEF TypeOK
<1>3. \A s \in Slots : members[s] = <<>> => s \notin Visited(t)
  BY DEF Visited
<1> QED BY <1>1, <1>2, <1>3

\* The three conjuncts hold at the start and at every step.
LEMMA MembershipInductive ==
    /\ Init => TypeOK /\ WantedOK /\ MembershipExact
    /\ TypeOK /\ WantedOK /\ MembershipExact /\ [Next]_vars
         => TypeOK' /\ WantedOK' /\ MembershipExact'
<1>1. ASSUME Init PROVE TypeOK /\ WantedOK /\ MembershipExact
  <2>1. /\ members = [s \in Slots |-> <<>>] /\ rr_idx = [s \in Slots |-> 0] /\ wanted = {}
    BY <1>1 DEF Init, RouterInit
  <2>2. TypeOK
    BY <2>1 DEF TypeOK, IsInjective
  <2>3. WantedOK /\ MembershipExact
    BY <2>1 DEF WantedOK, MembershipExact, Wanting, Range
  <2> QED BY <2>2, <2>3
<1>2. ASSUME TypeOK, WantedOK, MembershipExact, [Next]_vars
      PROVE  TypeOK' /\ WantedOK' /\ MembershipExact'
  <2>1. ASSUME NEW r \in Requests, NEW c \in Clients, Subscribe(r[1], r[2], c)
        PROVE  TypeOK' /\ WantedOK' /\ MembershipExact'
    <3>1. r[1] \in Patterns /\ r[2] \in Groups \cup {NoGroup}
      BY RequestsTyped
    <3> QED BY <1>2, <2>1, <3>1, SubscribeStep
  <2>2. ASSUME NEW c \in Clients, Unsubscribe(c)
        PROVE  TypeOK' /\ WantedOK' /\ MembershipExact'
    BY <1>2, <2>2, UnsubscribeStep
  <2>3. ASSUME NEW t \in Topics, Route(t)
        PROVE  TypeOK' /\ WantedOK' /\ MembershipExact'
    <3>1. Advance(t) /\ members' = members /\ wanted' = wanted
      BY Zenon, <2>3 DEF Route, route
    <3> QED BY <1>2, <3>1, AdvanceEffect, RouteKeeps
  <2>4. CASE UNCHANGED vars
    <3>1. members' = members /\ wanted' = wanted /\ rr_idx' = rr_idx
      BY <2>4 DEF vars, routerVars
    <3>2. rr_idx \in [Slots -> Nat]
      BY <1>2 DEF TypeOK
    <3> QED BY <1>2, <3>1, <3>2, RouteKeeps
  <2> QED BY Zenon, <1>2, <2>1, <2>2, <2>3, <2>4 DEF Next
<1> QED BY <1>1, <1>2

\* The router's slots keep their shape: nobody is listed twice, whatever
\* subscribe, unsubscribe and route are called in whatever order.
THEOREM RouterTypes == Spec => []TypeOK
  BY MembershipInductive, PTL DEF Spec

\* The members of every slot are the clients whose subscriptions are in force.
THEOREM MembersAreSubscribers == Spec => []MembershipExact
  BY MembershipInductive, PTL DEF Spec
\* What % and \div say of each other.
LEMMA DivMod ==
    ASSUME NEW n \in Nat \ {0}, NEW r \in Nat
    PROVE  r % n \in 0..(n-1) /\ r \div n \in Int /\ r - n * (r \div n) = r % n
<1>1. r % n \in 0..(n-1) /\ r \div n \in Int
  OBVIOUS
<1>2. r - n * (r \div n) = r % n
  OBVIOUS
<1> QED BY <1>1, <1>2

\* No multiple of n but 0 lies strictly between -n and n.
LEMMA ZeroMultiple ==
    ASSUME NEW n \in Nat \ {0}, NEW k \in Int, n * k < n, -n < n * k
    PROVE  k = 0
<1>1. CASE k >= 1
  <2>1. PICK j \in Nat : k = j + 1
    BY <1>1
  <2>2. n * k = n * j + n
    BY <2>1
  <2>3. n * j >= 0
    OBVIOUS
  <2> QED BY <2>2, <2>3
<1>2. CASE k <= -1
  <2>1. PICK j \in Nat : k = -(j + 1)
    <3>1. -k - 1 \in Nat /\ k = -((-k - 1) + 1)
     BY <1>2
    <3> QED BY <3>1
  <2>2. n * k = -(n * j) - n
    BY <2>1
  <2>3. n * j >= 0
    OBVIOUS
  <2> QED BY <2>2, <2>3
<1> QED BY <1>1, <1>2

\* An index that grows by one goes round.
LEMMA ModStep ==
    ASSUME NEW n \in Nat \ {0}, NEW r \in Nat
    PROVE  (r + 1) % n = IF r % n = n - 1 THEN 0 ELSE (r % n) + 1
<1> DEFINE q == r \div n  m == r % n  q2 == (r+1) \div n  m2 == (r+1) % n
<1>1. m \in 0..(n-1) /\ q \in Int /\ r - n * q = m
  BY DivMod
<1>2. m2 \in 0..(n-1) /\ q2 \in Int /\ (r + 1) - n * q2 = m2
  BY DivMod
<1> HIDE DEF q, m, q2, m2
<1>3. n * (q2 - q) = m + 1 - m2
  BY <1>1, <1>2
<1>4. CASE m = n - 1
  <2>1. n * (q2 - q) = n - m2
    BY <1>1, <1>2, <1>3, <1>4
  <2>2. n * (q2 - q - 1) = 0 - m2
    BY <1>1, <1>2, <2>1
  <2>3. q2 - q - 1 = 0
    BY <1>1, <1>2, <2>2, ZeroMultiple
  <2>4. m2 = 0
    BY <1>1, <1>2, <2>2, <2>3
  <2> QED BY <1>4, <2>4 DEF m, m2
<1>5. CASE m # n - 1
  <2>1. q2 - q = 0
    BY <1>1, <1>2, <1>3, <1>5, ZeroMultiple
  <2>2. m2 = m + 1
    BY <1>1, <1>2, <1>3, <2>1
  <2> QED BY <1>5, <2>2 DEF m, m2
<1> QED BY <1>4, <1>5
\* Going round from place b, place i comes before place j.
Before(i, j, b) == (i >= b /\ j < b) \/ (i <= j /\ (i >= b <=> j >= b))

\* The counts of n places do not fall as one goes round from b, nor rise by two.
Rotating(n, count, b) ==
    \A i, j \in 1..n : Before(i, j, b) => count[j] - count[i] \in {0, 1}

\* Serving the place whose turn it is, and passing the turn on, keeps it so.
LEMMA ServeInTurn ==
    ASSUME NEW n \in Nat \ {0}, NEW b \in 1..n, NEW count \in [1..n -> Nat],
           NEW after \in [1..n -> Nat], Rotating(n, count, b),
           \A k \in 1..n : after[k] = IF k = b THEN count[k] + 1 ELSE count[k]
    PROVE  Rotating(n, after, IF b = n THEN 1 ELSE b + 1)
<1> DEFINE b2 == IF b = n THEN 1 ELSE b + 1
<1> SUFFICES ASSUME NEW i \in 1..n, NEW j \in 1..n, Before(i, j, b2)
             PROVE  after[j] - after[i] \in {0, 1}
  BY DEF Rotating
<1>1. \A x, y \in 1..n : Before(x, y, b) => count[y] - count[x] \in {0, 1}
  BY DEF Rotating
<1>2. \A k \in 1..n : Before(b, k, b)
  BY DEF Before
<1>3. CASE i = b
  <2>1. j = b
    BY <1>3 DEF Before
  <2> QED BY <1>3, <2>1
<1>4. CASE i # b /\ j = b
  <2>1. count[i] - count[b] \in {0, 1}
    BY <1>1, <1>2
  <2>2. after[j] = count[b] + 1 /\ after[i] = count[i]
    BY <1>4
  <2>3. \A x, y \in Nat : x - y \in {0, 1} => (y + 1) - x \in {0, 1}
    OBVIOUS
  <2>4. count[i] \in Nat /\ count[b] \in Nat
    OBVIOUS
  <2>5. (count[b] + 1) - count[i] \in {0, 1}
    BY Zenon, <2>1, <2>3, <2>4
  <2> QED BY Zenon, <2>2, <2>5
<1>5. CASE i # b /\ j # b
  <2>1. Before(i, j, b)
    BY <1>5 DEF Before
  <2> QED BY <1>1, <1>5, <2>1
<1> QED BY <1>3, <1>4, <1>5

\* The place of a slot whose turn is next, and how often each was served.
Turn(s) == (rr_idx[s] % Len(members[s])) + 1
PlaceCounts(s) == [k \in 1..Len(members[s]) |-> served[s][members[s][k]]]

\* The inductive strengthening of RoundRobin: the counts of a group, read from
\* the place whose turn is next, do not fall, so whoever is next has least.
ServedOK == served \in [Slots -> [Clients -> Nat]]
SlotInTurn(s) ==
    IF IsUnique(s[2]) THEN served[s] = NoneServed
    ELSE members[s] # <<>> => Rotating(Len(members[s]), PlaceCounts(s), Turn(s))
InTurn == ServedOK /\ \A s \in Slots : SlotInTurn(s)

\* A slot's places and their counts have their types.
LEMMA PlaceTypes ==
    ASSUME TypeOK, ServedOK, NEW s \in Slots, members[s] # <<>>
    PROVE  /\ Len(members[s]) \in Nat \ {0} /\ DOMAIN members[s] = 1..Len(members[s])
           /\ \A k \in 1..Len(members[s]) : members[s][k] \in Clients
           /\ PlaceCounts(s) \in [1..Len(members[s]) -> Nat]
           /\ Turn(s) \in 1..Len(members[s])
<1>1. members[s] \in Seq(Clients) /\ rr_idx[s] \in Nat
  BY DEF TypeOK
<1>2. /\ Len(members[s]) \in Nat \ {0} /\ DOMAIN members[s] = 1..Len(members[s])
      /\ \A k \in 1..Len(members[s]) : members[s][k] \in Clients
  BY <1>1
<1>3. PlaceCounts(s) \in [1..Len(members[s]) -> Nat]
  <2>1. served[s] \in [Clients -> Nat]
    BY DEF ServedOK
  <2> QED BY <1>2, <2>1 DEF PlaceCounts
<1>4. rr_idx[s] % Len(members[s]) \in 0..(Len(members[s]) - 1)
  BY Zenon, <1>1, <1>2, DivMod
<1>5. Turn(s) \in 1..Len(members[s])
  BY <1>2, <1>4 DEF Turn
<1> QED BY <1>2, <1>3, <1>5

\* Counts that rotate differ by at most one.
LEMMA RotatingIsFair == ASSUME TypeOK, InTurn PROVE RoundRobin
<1> SUFFICES ASSUME NEW s \in Slots, NEW a \in Range(members[s]), NEW b \in Range(members[s])
             PROVE  served[s][a] - served[s][b] \in -1..1
  BY Zenon DEF RoundRobin
<1>1. members[s] \in Seq(Clients)
  BY DEF TypeOK
<1>2. PICK i \in DOMAIN members[s], j \in DOMAIN members[s] : members[s][i] = a /\ members[s][j] = b
  BY Zenon DEF Range
<1>3. members[s] # <<>>
  BY <1>1, <1>2
<1>4. CASE IsUnique(s[2])
  <2>1. a \in Clients /\ b \in Clients
    BY <1>1, <1>2
  <2>2. served[s] = NoneServed
    BY <1>4 DEF InTurn, SlotInTurn
  <2> QED BY <2>1, <2>2 DEF NoneServed
<1>5. CASE ~IsUnique(s[2])
  <2> DEFINE n == Len(members[s])  cnt == PlaceCounts(s)
  <2>1. n \in Nat \ {0} /\ i \in 1..n /\ j \in 1..n /\ cnt \in [1..n -> Nat] /\ Turn(s) \in 1..n
    BY <1>2, <1>3, PlaceTypes DEF InTurn
  <2>2. cnt[i] = served[s][a] /\ cnt[j] = served[s][b]
    BY <1>2, <2>1 DEF PlaceCounts
  <2>3. Rotating(n, cnt, Turn(s))
    BY <1>3, <1>5 DEF InTurn, SlotInTurn
  <2> HIDE DEF n, cnt
  <2>4. Before(i, j, Turn(s)) \/ Before(j, i, Turn(s))
    BY <2>1 DEF Before
  <2>5. cnt[i] - cnt[j] \in -1..1
    <3>1. cnt[i] \in Nat /\ cnt[j] \in Nat
      BY <2>1
    <3>2. cnt[j] - cnt[i] \in {0, 1} \/ cnt[i] - cnt[j] \in {0, 1}
      BY <2>1, <2>3, <2>4 DEF Rotating
    <3> QED BY <3>1, <3>2
  <2> QED BY <2>2, <2>5
<1> QED BY <1>4, <1>5

\* A change of the slots starts their counts anew.
LEMMA RecountInTurn ==
    ASSUME TypeOK, TypeOK', InTurn, Recount,
           \A s \in Slots : members'[s] = members[s] /\ members[s] # <<>> => rr_idx'[s] = rr_idx[s]
    PROVE  InTurn'
<1>1. served' = [s \in Slots |-> IF members'[s] = members[s] THEN served[s] ELSE NoneServed]
  BY Zenon DEF Recount
<1>2. NoneServed \in [Clients -> Nat]
  BY DEF NoneServed
<1>3. ServedOK'
  BY <1>1, <1>2 DEF InTurn, ServedOK
<1>4. ASSUME NEW s \in Slots PROVE SlotInTurn(s)'
  <2>1. CASE members'[s] = members[s]
    <3>1. served'[s] = served[s]
      BY <1>1, <2>1
    <3>2. members[s] # <<>> => rr_idx'[s] = rr_idx[s]
      BY <2>1
    <3>3. PlaceCounts(s)' = PlaceCounts(s) /\ (members[s] # <<>> => Turn(s)' = Turn(s))
      BY <2>1, <3>1, <3>2, Zenon DEF PlaceCounts, Turn
    <3>4. SlotInTurn(s)
      BY Zenon DEF InTurn
    <3> QED BY <2>1, <3>1, <3>3, <3>4, Zenon DEF SlotInTurn
  <2>2. CASE members'[s] # members[s]
    <3>1. served'[s] = NoneServed
      BY <1>1, <2>2
    <3>2. ASSUME members'[s] # <<>>
          PROVE  Rotating(Len(members'[s]), PlaceCounts(s)', Turn(s)')
      <4>1. \A k \in 1..Len(members'[s]) : members'[s][k] \in Clients
        BY <3>2 DEF TypeOK
      <4>2. \A k \in 1..Len(members'[s]) : PlaceCounts(s)'[k] = 0
        BY <3>1, <4>1 DEF PlaceCounts, NoneServed
      <4> QED BY <4>2 DEF Rotating
    <3> QED BY <3>1, <3>2, Zenon DEF SlotInTurn
  <2> QED BY <2>1, <2>2
<1> QED BY <1>3, <1>4, Zenon DEF InTurn

\* route serves, in each group it visits, the member whose turn it is.
LEMMA RouteInTurn ==
    ASSUME TypeOK, InTurn, NEW t, Route(t)
    PROVE  InTurn'
<1> DEFINE Up(s) == s \in Visited(t) /\ ~IsUnique(s[2])
<1>1. /\ members' = members
      /\ rr_idx' = [s \in Slots |-> IF Up(s) THEN rr_idx[s] + 1 ELSE rr_idx[s]]
      /\ served' = [s \in Slots |-> [c \in Clients |->
             IF s \in Visited(t) /\ ~IsUnique(s[2]) /\ \E k \in Chosen(s) : members[s][k] = c
             THEN served[s][c] + 1 ELSE served[s][c]]]
  BY Zenon DEF Route, route, Advance
<1>2. served \in [Slots -> [Clients -> Nat]] /\ \A s \in Slots : SlotInTurn(s)
  BY DEF InTurn, ServedOK
<1>3. ServedOK'
  BY <1>1, <1>2 DEF ServedOK
<1>4. ASSUME NEW s \in Slots PROVE SlotInTurn(s)'
  <2>1. CASE ~Up(s)
    <3>1. rr_idx'[s] = rr_idx[s]
      BY <1>1, <2>1
    <3>2. served'[s] = served[s]
      <4>1. served'[s] = [c \in Clients |-> served[s][c]]
        BY <1>1, <2>1
      <4>2. served[s] \in [Clients -> Nat]
        BY <1>2
      <4> QED BY <4>1, <4>2
    <3> QED BY <1>1, <1>2, <3>1, <3>2, Zenon DEF SlotInTurn, PlaceCounts, Turn
  <2>2. CASE Up(s)
    <3> DEFINE n == Len(members[s])
    <3>1. ~IsUnique(s[2]) /\ members[s] # <<>>
      BY <2>2 DEF Visited
    <3>2. /\ n \in Nat \ {0} /\ DOMAIN members[s] = 1..n
          /\ \A k \in 1..n : members[s][k] \in Clients
          /\ PlaceCounts(s) \in [1..n -> Nat] /\ Turn(s) \in 1..n
      BY <3>1, PlaceTypes DEF InTurn
    <3>3. Rotating(n, PlaceCounts(s), Turn(s))
      BY <1>2, <3>1 DEF SlotInTurn
    <3>4. Chosen(s) = {Turn(s)}
      BY <3>1 DEF Chosen, Turn
    <3>5. served'[s] = [c \in Clients |->
             IF members[s][Turn(s)] = c THEN served[s][c] + 1 ELSE served[s][c]]
      BY <1>1, <2>2, <3>4
    <3>6. PlaceCounts(s)' = [k \in 1..n |-> served'[s][members[s][k]]]
      BY <1>1 DEF PlaceCounts
    <3>7. \A k \in 1..n : members[s][Turn(s)] = members[s][k] <=> k = Turn(s)
      BY <3>2 DEF TypeOK, IsInjective
    <3>8. \A k \in 1..n : PlaceCounts(s)'[k] =
             IF k = Turn(s) THEN PlaceCounts(s)[k] + 1 ELSE PlaceCounts(s)[k]
      <4> SUFFICES ASSUME NEW k \in 1..n
                   PROVE  PlaceCounts(s)'[k] =
                            IF k = Turn(s) THEN PlaceCounts(s)[k] + 1 ELSE PlaceCounts(s)[k]
        BY Zenon
      <4>1. PlaceCounts(s)'[k] = served'[s][members[s][k]]
        BY Zenon, <3>6
      <4>2. PlaceCounts(s)[k] = served[s][members[s][k]]
        BY Zenon DEF PlaceCounts
      <4>3. served'[s][members[s][k]] = IF members[s][Turn(s)] = members[s][k]
              THEN served[s][members[s][k]] + 1 ELSE served[s][members[s][k]]
        BY Zenon, <3>2, <3>5
      <4> QED BY Zenon, <3>7, <4>1, <4>2, <4>3
    <3>9. PlaceCounts(s)' \in [1..n -> Nat]
      <4>1. \A k \in 1..n : served'[s][members[s][k]] \in Nat
        BY <1>3, <3>2 DEF ServedOK
      <4> QED BY Zenon, <3>6, <4>1
    <3>10. Turn(s)' = IF Turn(s) = n THEN 1 ELSE Turn(s) + 1
      <4>1. rr_idx[s] \in Nat /\ rr_idx'[s] = rr_idx[s] + 1
        BY <1>1, <2>2 DEF TypeOK
      <4>2. Turn(s)' = ((rr_idx[s] + 1) % n) + 1 /\ Turn(s) = (rr_idx[s] % n) + 1
        BY <1>1, <4>1 DEF Turn
      <4>3. (rr_idx[s] + 1) % n = IF rr_idx[s] % n = n - 1 THEN 0 ELSE (rr_idx[s] % n) + 1
        BY Zenon, <3>2, <4>1, ModStep
      <4>4. rr_idx[s] % n \in 0..(n - 1)
        BY Zenon, <3>2, <4>1, DivMod
      <4> HIDE DEF n
      <4> QED BY <3>2, <4>2, <4>3, <4>4
    <3>11. Rotating(n, PlaceCounts(s)', Turn(s)')
      <4> HIDE DEF n
      <4> QED BY Zenon, <3>2, <3>3, <3>8, <3>9, <3>10, ServeInTurn
    <3> QED BY <1>1, <3>1, <3>11, Zenon DEF SlotInTurn
  <2> QED BY <2>1, <2>2
<1> QED BY <1>3, <1>4, Zenon DEF InTurn

\* Serving in turn is inductive.
LEMMA InTurnInductive ==
    /\ Init => InTurn
    /\ TypeOK /\ TypeOK' /\ InTurn /\ [Next]_vars => InTurn'
<1>1. ASSUME Init PROVE InTurn
  <2>1. members = [s \in Slots |-> <<>>] /\ served = [s \in Slots |-> NoneServed]
    BY <1>1 DEF Init, RouterInit
  <2>2. ServedOK
    BY <2>1 DEF ServedOK, NoneServed
  <2> QED BY <2>1, <2>2 DEF InTurn, SlotInTurn
<1>2. ASSUME TypeOK, TypeOK', InTurn, [Next]_vars PROVE InTurn'
  <2>1. ASSUME NEW r \in Requests, NEW c \in Clients, Subscribe(r[1], r[2], c) PROVE InTurn'
    <3>1. rr_idx' = rr_idx /\ Recount
      BY Zenon, <2>1 DEF Subscribe, subscribe
    <3> QED BY <1>2, <3>1, RecountInTurn
  <2>2. ASSUME NEW c \in Clients, Unsubscribe(c) PROVE InTurn'
    <3>1. rr_idx' = [s \in Slots |-> IF members'[s] = <<>> THEN 0 ELSE rr_idx[s]] /\ Recount
      BY Zenon, <2>2 DEF Unsubscribe, unsubscribe
    <3>2. \A s \in Slots : members'[s] = members[s] /\ members[s] # <<>> => rr_idx'[s] = rr_idx[s]
      BY <3>1
    <3> QED BY <1>2, <3>1, <3>2, RecountInTurn
  <2>3. ASSUME NEW t \in Topics, Route(t) PROVE InTurn'
    BY <1>2, <2>3, RouteInTurn
  <2>4. CASE UNCHANGED vars
    <3>1. members' = members /\ rr_idx' = rr_idx /\ served' = served
      BY <2>4 DEF vars, routerVars
    <3> QED BY <1>2, <3>1, Zenon DEF InTurn, ServedOK, SlotInTurn, PlaceCounts, Turn
  <2> QED BY Zenon, <1>2, <2>1, <2>2, <2>3, <2>4 DEF Next
<1> QED BY <1>1, <1>2

\* Between two changes of a group nobody is given two messages more than
\* another member, however rr_idx was left by the members before.
THEOREM TurnsAreFair == Spec => []RoundRobin
<1>1. TypeOK /\ InTurn => RoundRobin
  BY RotatingIsFair
<1> QED BY <1>1, RouterTypes, InTurnInductive, PTL DEF Spec

\* The place that a visited slot contributes.
Place(s) == IF IsUnique(s[2]) THEN 1 ELSE Turn(s)

\* A visited slot contributes one place: a slot made up for a client has no
\* other member, and a group takes one of its members.
LEMMA OnePlace ==
    ASSUME TypeOK, WantedOK, MembershipExact, NEW t, NEW s \in Visited(t)
    PROVE  /\ s \in Slots /\ Chosen(s) = {Place(s)}
           /\ Place(s) \in DOMAIN members[s] /\ members[s][Place(s)] \in Wanting(s)
<1>1. s \in Slots /\ members[s] # <<>>
  BY DEF Visited
<1>2. members[s] \in Seq(Clients) /\ rr_idx[s] \in Nat /\ IsInjective(members[s])
  BY <1>1 DEF TypeOK
<1>3. Len(members[s]) \in Nat \ {0} /\ DOMAIN members[s] = 1..Len(members[s])
  BY <1>1, <1>2
<1>4. Chosen(s) = {Place(s)} /\ Place(s) \in DOMAIN members[s]
  <2>1. CASE IsUnique(s[2])
    <3>1. PICK d \in Clients : s[2] = Unique(d)
      BY <2>1 DEF IsUnique
    <3>2. \A c \in Wanting(s) : c = d
      <4> SUFFICES ASSUME NEW c \in Wanting(s), c # d PROVE FALSE
        OBVIOUS
      <4>1. s[2] # Unique(c)
        BY <3>1 DEF Unique
      <4>2. <<c, s[1], s[2]>> \in wanted
        BY <4>1 DEF Wanting
      <4>3. s[2] \in Groups \cup {NoGroup}
        BY <4>2 DEF WantedOK
      <4> QED BY <3>1, <4>3, GroupsNamed
    <3>3. \A k \in DOMAIN members[s] : members[s][k] = d
      <4>1. Range(members[s]) = Wanting(s)
        BY <1>1, Zenon DEF MembershipExact
      <4> QED BY <3>2, <4>1, Zenon DEF Range
    <3>4. \A k \in DOMAIN members[s] : k = 1
      <4>1. 1 \in DOMAIN members[s]
        BY <1>3
      <4> QED BY <1>2, <3>3, <4>1, Zenon DEF IsInjective
    <3>5. DOMAIN members[s] = {1}
      BY <1>3, <3>4
    <3> QED BY <2>1, <3>5 DEF Chosen, Place
  <2>2. CASE ~IsUnique(s[2])
    <3>1. rr_idx[s] % Len(members[s]) \in 0..(Len(members[s]) - 1)
      BY <1>2, <1>3, DivMod, Zenon
    <3>2. Turn(s) \in 1..Len(members[s])
      BY <1>3, <3>1 DEF Turn
    <3> QED BY <1>3, <2>2, <3>2, Zenon DEF Chosen, Place, Turn
  <2> QED BY <2>1, <2>2
<1>5. members[s][Place(s)] \in Range(members[s])
  BY <1>4, Zenon DEF Range
<1> QED BY <1>1, <1>4, <1>5, Zenon DEF MembershipExact

\* The slots are finite in number.
LEMMA SlotsFinite == IsFiniteSet(Slots)
<1>1. IsFiniteSet({Unique(c) : c \in Clients})
  <2> DEFINE name == [c \in Clients |-> Unique(c)]
  <2>1. name \in Surjection(Clients, {Unique(c) : c \in Clients})
    BY DEF Surjection
  <2> QED BY <2>1, RouterFinite, FS_Surjection, Zenon
<1>2. IsFiniteSet(Groups \cup {Unique(c) : c \in Clients})
  BY <1>1, RouterFinite, FS_Union, Zenon
<1> QED BY <1>2, RouterFinite, FS_Product, Zenon DEF Slots

\* An ordering of a finite set leaves out no element.
LEMMA OrderIsOnto ==
    ASSUME NEW S, IsFiniteSet(S), NEW o \in Bijection(1..Cardinality(S), S)
    PROVE  /\ Cardinality(S) \in Nat /\ DOMAIN o = 1..Cardinality(S)
           /\ \A i \in DOMAIN o : o[i] \in S
           /\ \A i, j \in DOMAIN o : o[i] = o[j] => i = j
           /\ \A x \in S : \E i \in DOMAIN o : o[i] = x
<1> DEFINE D == 1..Cardinality(S)
<1>1. o \in [D -> S] /\ IsInjective(o) /\ \A x \in S : \E i \in D : o[i] = x
  BY Zenon DEF Bijection, Injection, Surjection
<1>2. Cardinality(S) \in Nat
  BY FS_CardinalityType, Zenon
<1>3. \A i, j \in DOMAIN o : o[i] = o[j] => i = j
  BY <1>1, Zenon DEF IsInjective
<1> QED BY <1>1, <1>2, <1>3, Zenon

\* What route returns has one entry for each visited slot, the member there
\* whose place was chosen: so the copies of a client are the slots it stands for.
LEMMA CopiesCounted ==
    ASSUME TypeOK, WantedOK, MembershipExact, NEW t, NEW ts \in RouteResults(t), NEW c \in Clients
    PROVE  Cardinality({i \in DOMAIN ts : ts[i] = c}) =
               Cardinality({s \in Visited(t) : members[s][Place(s)] = c})
<1> DEFINE T == Turns(t)  V == Visited(t)  turn == [s \in V |-> <<s, Place(s)>>]
           M(s) == members[s][Place(s)]
<1>1. T = {<<s, Place(s)>> : s \in V}
  BY OnePlace DEF Turns
<1>2. IsFiniteSet(V)
  <2>1. V \in SUBSET Slots
    BY DEF Visited
  <2> QED BY <2>1, SlotsFinite, FS_Subset, Zenon
<1>3. IsFiniteSet(T)
  <2>1. turn \in Surjection(V, T)
    BY <1>1 DEF Surjection
  <2> QED BY <1>2, <2>1, FS_Surjection, Zenon
<1>4. PICK o \in Bijection(1..Cardinality(T), T) :
        ts = [n \in DOMAIN o |-> members[o[n][1]][o[n][2]]]
  BY Zenon DEF RouteResults
<1> HIDE DEF T, V
<1>5. /\ \A i \in DOMAIN o : o[i] \in T
      /\ \A i, j \in DOMAIN o : o[i] = o[j] => i = j
      /\ \A x \in T : \E i \in DOMAIN o : o[i] = x
      /\ Cardinality(T) \in Nat /\ DOMAIN o = 1..Cardinality(T)
  BY <1>3, <1>4, OrderIsOnto, Zenon
<1>6. \A i \in DOMAIN o : o[i][1] \in V /\ o[i] = <<o[i][1], Place(o[i][1])>>
  BY <1>1, <1>5
<1>7. DOMAIN ts = DOMAIN o /\ \A i \in DOMAIN o : ts[i] = M(o[i][1])
  <2>1. \A i \in DOMAIN o : o[i][2] = Place(o[i][1])
    BY <1>6
  <2> QED BY <1>4, <2>1, Zenon
<1> DEFINE I == {i \in DOMAIN ts : ts[i] = c}  W == {s \in V : M(s) = c}
           slot == [i \in I |-> o[i][1]]
<1>8. slot \in [I -> W]
  BY <1>6, <1>7, Zenon
<1>9. \A i, j \in I : slot[i] = slot[j] => i = j
  <2> SUFFICES ASSUME NEW i \in I, NEW j \in I, slot[i] = slot[j] PROVE i = j
    OBVIOUS
  <2>1. i \in DOMAIN o /\ j \in DOMAIN o /\ o[i][1] = o[j][1]
    BY <1>7
  <2>2. o[i] = o[j]
    BY <1>6, <2>1, Zenon
  <2> QED BY <1>5, <2>1, <2>2, Zenon
<1>10. \A s \in W : \E i \in I : slot[i] = s
  <2> SUFFICES ASSUME NEW s \in W PROVE \E i \in I : slot[i] = s
    OBVIOUS
  <2>1. <<s, Place(s)>> \in T
    BY <1>1
  <2>2. PICK i \in DOMAIN o : o[i] = <<s, Place(s)>>
    BY <1>5, <2>1, Zenon
  <2>3. o[i][1] = s
    BY <2>2
  <2>4. i \in I
    BY <1>7, <2>3
  <2> QED BY <2>3, <2>4
<1>11. IsFiniteSet(W)
  <2>1. W \in SUBSET V
    OBVIOUS
  <2> QED BY <1>2, <2>1, FS_Subset, Zenon
<1> HIDE DEF slot, I, W
<1>12. slot \in Injection(I, W) /\ slot \in Surjection(I, W)
  <2>1. DOMAIN slot = I
    BY <1>8
  <2> QED BY <1>8, <1>9, <1>10, <2>1, Zenon DEF Injection, Surjection, IsInjective
<1>13. Cardinality(I) = Cardinality(W)
  BY <1>11, <1>12, FS_Injection, Zenon
<1> QED BY <1>13, Zenon DEF I, W, V

\* The slots that the last message was due to.
Due == {s \in Slots : Matches(s[1], lastRoute.topic) /\ Wanting(s) # {}}

\* route gives every group with a matching subscription its copy.
LEMMA RouteIsFair ==
    ASSUME TypeOK, WantedOK, MembershipExact, NEW t, Route(t)
    PROVE  OneCopyPerGroup'
<1>1. PICK ts \in RouteResults(t) :
        lastRoute' = [topic |-> t, copies |-> [c \in Clients |->
                         Cardinality({i \in DOMAIN ts : ts[i] = c})]]
  BY Zenon DEF Route
<1>2. wanted' = wanted
  BY Zenon DEF Route
<1>3. \A s : Wanting(s)' = Wanting(s)
  BY <1>2, Zenon DEF Wanting
<1>4. {s \in Slots : Matches(s[1], t) /\ Wanting(s) # {}} = Visited(t)
  <2>1. ASSUME NEW s \in Slots PROVE Wanting(s) # {} <=> members[s] # <<>>
    <3>1. members[s] \in Seq(Clients)
      BY DEF TypeOK
    <3>2. members[s] # <<>> <=> \E k \in DOMAIN members[s] : TRUE
      <4>1. members[s] # <<>> <=> 1 \in DOMAIN members[s]
        BY <3>1
      <4>2. members[s] = <<>> => DOMAIN members[s] = {}
        BY <3>1
      <4> QED BY <4>1, <4>2, Zenon
    <3>3. Range(members[s]) = Wanting(s)
      BY Zenon DEF MembershipExact
    <3> QED BY <3>2, <3>3, Zenon DEF Range
  <2> QED BY <2>1, Zenon DEF Visited
<1> DEFINE pick == [s \in Visited(t) |-> members[s][Place(s)]]
<1>5. \A s \in Visited(t) : pick[s] \in Wanting(s) /\ pick[s] \in Clients
  BY OnePlace DEF Wanting
<1>6. pick \in [Visited(t) -> Clients]
  BY <1>5, Zenon
<1>7. \A c \in Clients : lastRoute'.copies[c] = Cardinality({s \in Visited(t) : pick[s] = c})
  <2> SUFFICES ASSUME NEW c \in Clients
               PROVE  lastRoute'.copies[c] = Cardinality({s \in Visited(t) : pick[s] = c})
    BY Zenon
  <2>1. lastRoute'.copies[c] = Cardinality({i \in DOMAIN ts : ts[i] = c})
    BY <1>1
  <2>2. {s \in Visited(t) : pick[s] = c} = {s \in Visited(t) : members[s][Place(s)] = c}
    BY Zenon
  <2>3. Cardinality({i \in DOMAIN ts : ts[i] = c}) =
            Cardinality({s \in Visited(t) : members[s][Place(s)] = c})
    BY CopiesCounted, Zenon
  <2> QED BY <2>1, <2>2, <2>3, Zenon
<1>8. lastRoute'.topic = t
  BY <1>1
<1>9. Due' = Visited(t)
  BY <1>3, <1>4, <1>8, Zenon DEF Due
<1> HIDE DEF pick
<1>10. /\ pick \in [Due' -> Clients]
       /\ \A s \in Due' : pick[s] \in Wanting(s)'
       /\ \A c \in Clients : lastRoute'.copies[c] = Cardinality({s \in Due' : pick[s] = c})
  BY <1>3, <1>5, <1>6, <1>7, <1>9, Zenon
<1> QED BY <1>10, Zenon DEF OneCopyPerGroup, Due

\* Independent groups each get exactly one copy of every message, from any
\* state that subscriptions, disconnects and earlier messages lead to.
THEOREM EveryGroupServed == Spec => []OneCopyPerGroup
<1>1. Init => OneCopyPerGroup
  BY Zenon DEF Init, OneCopyPerGroup
<1>2. TypeOK /\ WantedOK /\ MembershipExact /\ OneCopyPerGroup /\ [Next]_vars => OneCopyPerGroup'
  <2> SUFFICES ASSUME TypeOK, WantedOK, MembershipExact, OneCopyPerGroup, [Next]_vars
               PROVE  OneCopyPerGroup'
    OBVIOUS
  <2>1. CASE lastRoute' = Idle
    BY <2>1, Zenon DEF OneCopyPerGroup, Idle
  <2>2. ASSUME NEW t \in Topics, Route(t) PROVE OneCopyPerGroup'
    BY <2>2, RouteIsFair
  <2>3. CASE UNCHANGED vars
    <3>1. wanted' = wanted /\ lastRoute' = lastRoute
      BY <2>3 DEF vars
    <3>2. \A s : Wanting(s)' = Wanting(s)
      BY <3>1, Zenon DEF Wanting
    <3>3. Due' = Due
      BY <3>1, <3>2, Zenon DEF Due
    <3>4. CASE lastRoute = Idle
      BY <3>1, <3>4, Zenon DEF OneCopyPerGroup, Idle
    <3>5. CASE lastRoute # Idle
      <4>1. PICK pick \in [Due -> Clients] :
              /\ \A s \in Due : pick[s] \in Wanting(s)
              /\ \A c \in Clients : lastRoute.copies[c] = Cardinality({s \in Due : pick[s] = c})
        BY <3>5, Zenon DEF OneCopyPerGroup, Due
      <4>2. /\ pick \in [Due' -> Clients]
            /\ \A s \in Due' : pick[s] \in Wanting(s)'
            /\ \A c \in Clients : lastRoute'.copies[c] = Cardinality({s \in Due' : pick[s] = c})
        BY <3>1, <3>2, <3>3, <4>1, Zenon
      <4> QED BY <4>2, Zenon DEF OneCopyPerGroup, Due
    <3> QED BY <3>4, <3>5
  <2> QED BY <2>1, <2>2, <2>3, Zenon DEF Next, Subscribe, Unsubscribe, Idle
<1> QED BY <1>1, <1>2, MembershipInductive, PTL DEF Spec
==============================================================================
