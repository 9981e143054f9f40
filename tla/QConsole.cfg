\* One letter, one line break, two commands, blocks of three characters wrapped.
SPECIFICATION QSpec
CONSTANTS
  a = a
  blank = blank
  nl = nl
  gt = gt
  Blank = blank
  NewLine = nl
  Key <- MCKey
  Separator <- MCSeparator
  Prompt <- MCPrompt
  Welcome <- MCWelcome
  Foreign <- MCForeign
  Result <- MCResult
  Incomplete <- MCIncomplete
  Suggestions <- MCSuggestions
  Width = 2
  MaxZone = 2
  Reach = 1
  MaxHistory = 2
INVARIANT QTypeOK
PROPERTY ProtectedText
PROPERTY ShownIsMeant
ACTION_CONSTRAINT Continued
