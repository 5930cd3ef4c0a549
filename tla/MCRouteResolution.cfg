\* Two turns: commands in either, in text or in blocks, and any model field; a session ends.
SPECIFICATION Spec
CONSTANTS
    Qualified <- MCQualified
    Prefix <- MCPrefix
    Bare <- MCBare
    Providers <- MCProviders
    DefaultOf <- MCDefaultOf
    NoModel = "NoModel"
    Default = "q"
    Typed <- MCTyped
    Answers <- MCAnswers
    MaxTurns = 2
INVARIANTS
    TypeOK
    NothingElseStripped
PROPERTIES
    FirstCommandGoverns
    TurnsExtend
