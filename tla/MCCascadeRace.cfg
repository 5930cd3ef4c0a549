\* Three requests of one conversation, one permit, a ring of two.
SPECIFICATION StatusSpec
CONSTANTS
    Requests = {r1, r2, r3}
    ConversationKeys = {k1}
    NoKey = NoKey
    Cap = 1
    HistoryCap = 2
    Configs <- MCRaceConfig
SYMMETRY MCSymmetry
INVARIANTS
    DispatchDiscipline
    StickyConversation
    LedgersAgree
    HistoryIsNewest
PROPERTIES
    StatusNeverAhead
