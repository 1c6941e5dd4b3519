------------------------------ MODULE TopicMatch -----------------------------
(***************************************************************************)
(* The two matchers of topic patterns: TopicRouter::matches, which decides *)
(* what the broker sends to the gateway, and topicMatches of the gateway's *)
(* protocol.js, which decides what the gateway passes on.  A string is a   *)
(* sequence of characters.                                                 *)
(***************************************************************************)
EXTENDS Integers, Sequences

Star == "*"
Dot == "."

StartsWith(t, p) == Len(p) <= Len(t) /\ \A i \in 1..Len(p) : t[i] = p[i]

\* TopicRouter::matches: what precedes the first '*' must start the topic;
\* whatever follows it is ignored.
matches(pattern, topic) ==
    \/ pattern = topic
    \/ \E star \in 1..Len(pattern) :
        /\ pattern[star] = Star
        /\ \A i \in 1..(star - 1) : pattern[i] # Star
        /\ StartsWith(topic, SubSeq(pattern, 1, star - 1))

\* topicMatches: '*' counts only alone or in a trailing ".*".
topicMatches(pattern, topic) ==
    \/ pattern = topic
    \/ pattern = <<Star>>
    \/ /\ Len(pattern) >= 2
       /\ pattern[Len(pattern) - 1] = Dot /\ pattern[Len(pattern)] = Star
       /\ StartsWith(topic, SubSeq(pattern, 1, Len(pattern) - 1))
==============================================================================
