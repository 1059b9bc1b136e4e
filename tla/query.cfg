SPECIFICATION Spec
CONSTANTS
  LowerOf <- MCLowerOf
  OperandNode <- MCOperandNode
  ConditionNode <- MCConditionNode
  Letter <- Letters
  Characters <- MCCharacters
  FreeChars = 4
  MaxChars = 5
  Vocabulary <- MCVocabulary
  FreeTokens = 5
  MaxTokens = 8
  Queries <- MCQueries
  Events <- MCEvents
  RuleEvents <- MCRuleEvents
  BadRules <- MCBadRules
INVARIANTS CutsIntoTokens ParsesTheGrammar ReadsAsWritten CaseBlind RulesMean BadRuleContained
\* Every text and condition has been typed, every query run.
CHECK_DEADLOCK FALSE
