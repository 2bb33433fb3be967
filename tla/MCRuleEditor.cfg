CONSTANTS
  Scopes = {user, system}
  FirstScope = user
  Texts = {empty, rules, broken}
  Empty = empty
  Valid = {empty, rules}
  NoDoc = NoDoc
  Nothing = Nothing
  MaxCalls = 2
SPECIFICATION Spec
INVARIANTS
  QuietEditorIsHonest
  SavesTakeEffectInOrder
  EveryWaitHasACall
