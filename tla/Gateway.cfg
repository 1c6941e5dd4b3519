CONSTANTS
    Ws = {w1, w2}
    Patterns <- WildcardAndStats
    Topics <- BothTopics
    Deduplicated <- OrderTopics
    StatsTopic <- Stats
    TopicMatches <- topicMatches
    BrokerMatches <- matches
    Groups = {}
    NoGroup = NoGroup
    MsgIds = {1, 2, 3, 4}
    RingSize = 3
    OutCapacity = 1
    MaxAccepted = 5
SPECIFICATION Spec
INVARIANTS TypeOK IndexesAgree RingExact WindowedOnce TopicsSubscribed
SYMMETRY Alike
