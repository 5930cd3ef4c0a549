\* The same.
SPECIFICATION Spec
CONSTANTS
    Qualified <- MCQualified
    Prefix <- MCPrefix
    Bare <- MCBare
    Providers <- MCProviders
    DefaultOf <- MCDefaultOf
    NoModel = "NoModel"
    Default = "q"
    Typed <- MCTyped
    Answers <- MCAnswers
    MaxTurns = 2
INVARIANTS
    UpstreamNeverSeesCommand
