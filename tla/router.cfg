CONSTANTS
    Messages = {m1, m2, m3}
    Agents = {"a", "b"}
    Keys = {"p", "pc", "q", "gc"}
    Shapes = {"dm", "mine", "theirs"}
    KeysOf <- MCKeysOf
    ChatOf <- MCChatOf
    SessionOf <- MCSessionOf
    OperatorOf <- MCOperatorOf
    AutoAgents = {"a", "none"}
    MaxTroubles = 2
SPECIFICATION FairSpec
INVARIANTS StoppedEntriesStayOff 
 
CHECK_DEADLOCK FALSE
