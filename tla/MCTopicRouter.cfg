CONSTANTS
    Patterns <- MCPatterns
    Topics <- MCTopics
    Matches <- matches
    Groups = {g1}
    NoGroup = NoGroup
    Clients = {c1, c2, c3}
    Requests <- MCRequests
    MaxRoutes = 4
SPECIFICATION Spec
INVARIANTS TypeOK MembershipExact RoundRobin OneCopyPerGroup
