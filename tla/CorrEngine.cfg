SPECIFICATION Spec
CONSTANTS
  a1 = a1
  a2 = a2
  a3 = a3
  r1 = r1
  r1New = r1New
  r2 = r2
  None = None
  Alarms = {a1, a2, a3}
  Keeps = {a2}
  Time <- MCTime
  Rules = {r1, r1New, r2}
  RuleId <- MCRuleId
  BadPrune = {r1New}
  RulesFiles <- MCRulesFiles
  RuleN = 3
  CcN = 2
  MatchN = 2
  MaxFails = 1
INVARIANTS
  TypeOK
  BooksRight
  MatchKeepsRule
  RulesInForce
  KeepIsTicketed
  KeepNotForgotten
