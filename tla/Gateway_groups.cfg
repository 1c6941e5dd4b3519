CONSTANTS
    Ws = {w1, w2}
    Patterns <- OrderPattern
    Topics <- BothTopics
    Deduplicated <- OrderTopics
    StatsTopic <- Stats
    TopicMatches <- topicMatches
    BrokerMatches <- matches
    Groups = {g1}
    NoGroup = NoGroup
    MsgIds = {1}
    RingSize = 1
    OutCapacity = 1
    MaxAccepted = 1
SPECIFICATION Spec
INVARIANT OneInstancePerGroup
