SPECIFICATION RecognizerSpec
CONSTANTS
    Grammars <- MCContexts
    MaxWord = 11
    Vocabulary <- MCParts
    MaskCapacity = 2
    MaxBytes = 4
    Patterns = {}
    RuleBooks = {}
    Schemas = {}
    Digits = {}
    StringBytes = {}
    MaxText = 0
INVARIANTS
    MaskIsExact
