SPECIFICATION Spec
CONSTANTS
    Lexemes = {"---", "...", "%YAML", "%TAG", "%other", "&", "*", "!", "[", "plain"}
    Names = {"a", "b"}
    NoName = NoName
    MaxLine = 4
    MaxCol = 1
    MaxTokens = 10
INVARIANTS
    AliasScope
    DirectiveBlock
