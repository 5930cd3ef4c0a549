\* A request at each door under every configuration, with fairness.
SPECIFICATION DoorSpec
CONSTANTS
    Requests = {claude, webui}
    ChatRequests = {webui}
    ConversationKeys <- MCConversationKeys
    NoKey = NoKey
    Cap = 1
    HistoryCap = 1
    Configs <- MCConfigs
    ChatBodies <- MCChatBodies
    MessageBodies <- MCMessageBodies
    ChatChoices <- MCChatChoices
    NoChat = NoChat
INVARIANTS
    DoorTypeOK
    ServedUnderOneChoice
    EscalationHasCause
    AnswersObservedOnce
    OneConversationOneKey
    TierCountsAllButChatTargets
PROPERTIES
    EveryCallEnds
