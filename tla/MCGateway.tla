------------------------------ MODULE MCGateway ------------------------------
\* Instances of Gateway: an order topic, and the exempt $SYS.stats as "$s".
EXTENDS Gateway, TopicMatch, TLC

Orders == <<"o", ".", "c">>
Stats == <<"$", "s">>

BothTopics == {Orders, Stats}
OrderTopics == {Orders}
WildcardAndStats == {<<"o", ".", Star>>, Stats}
OrderPattern == {Orders}
Alike == Permutations(Ws)
==============================================================================
