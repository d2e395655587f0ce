SPECIFICATION EngineSpec
CONSTANTS
    gen = gen
    Sessions = {gen}
    Content <- MCContent
    KeyOf <- MCKey
    SessionPrompts <- MCSessionPrompts
    MaxBlocks = 2
    Tiers = {"fallback"}
INVARIANT TrieNotPoisoned
