SPECIFICATION FairSpec
CONSTANTS
    s1 = s1
    s2 = s2
    a1 = a1
    a2 = a2
    Sessions = {s1, s2}
    Agents = {a1, a2}
    AgentOf <- TwoSessions
    Takeover = {a2}
    Requests = {r1}
    Heart = heart
    None = none
INVARIANTS
    RegistryInv
PROPERTIES
    NoLiveRemoval
    RemoteCallSpec
    CallsReturn
    StatusConverges
