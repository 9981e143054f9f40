\* What the comment in del() says, with the bounds of QConsole.cfg.
SPECIFICATION QSpec
CONSTANTS
  a = a
  blank = blank
  nl = nl
  gt = gt
  Blank = blank
  NewLine = nl
  Key <- MCKey
  Separator <- MCSeparator
  Prompt <- MCPrompt
  Welcome <- MCWelcome
  Foreign <- MCForeign
  Result <- MCResult
  Incomplete <- MCIncomplete
  Suggestions <- MCSuggestions
  Width = 2
  MaxZone = 2
  Reach = 1
  MaxHistory = 2
PROPERTY DeletesOnlyInZone
