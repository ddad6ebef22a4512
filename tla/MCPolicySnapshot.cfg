SPECIFICATION ComparisonSpec
CONSTANTS
    Labels <- MCLabels
    Lower <- MCLower
    EmptyLabel = ""
    Rules <- MCRules
    QNames <- MCQNames
    MaxSuffixes = 3
    MaxNames = 1
    Chars <- MCChars
    LowerChar <- MCLowerChar
    Spelling <- MCSpelling
    DotChar = "."
CHECK_DEADLOCK FALSE
INVARIANTS
    TypeOK
    MatchesReference
    TrieWellFormed
    AutomatonFindsSubstrings
PROPERTIES
    RulesActLocally
