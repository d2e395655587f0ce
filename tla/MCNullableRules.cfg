SPECIFICATION RecognizerSpec
CONSTANTS
    Grammars <- MCNullable
    MaxWord = 11
    Vocabulary <- MCBlanks
    MaskCapacity = 2
    MaxBytes = 4
    Patterns = {}
    RuleBooks = {}
    Schemas = {}
    Digits = {}
    StringBytes = {}
    MaxText = 0
INVARIANTS
    AcceptsItsLanguage
