CONSTANTS
  Letter = {"a", "b", "x", "n", "l", "q", "t"}
  Number = {"1", "-"}
  Sign = {"~"}
  MaxTokens = 12
  FieldName <- MCFieldName
  Fields <- MCFields
  Bits <- MCBits
  EnumNumber <- MCEnum
  Formats <- MCFormats
  Rules <- MCRules
  Requests <- MCRequests
  Configs <- MCConfigs
  Names <- MCNames
  RuneOrder <- MCRuneOrder
  MaxRules = 3
SPECIFICATION MCSpec
INVARIANTS LexerFollowsGrammar RulesAsGiven RequestsServed AnswerIsDetermined FieldsAsWritten
  SelectorsResolved
CHECK_DEADLOCK FALSE
