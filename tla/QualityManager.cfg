CONSTANT Rule <- MCRule
CONSTANT Module <- MCModule
CONSTANT Loadable <- MCModule
CONSTANT Actions <- MCActions
CONSTANT Htb = "htb"
CONSTANT Capacity = 3
CONSTANT Limit = 4
CONSTANT MaxFaults = 1
CONSTANT Batches <- MCBatches
CONSTANT RuleSet <- MCRuleSet
CONSTANT RuleName <- MCRuleName
CONSTANT Start <- MCStart
CONSTANT Stop <- MCStop
CONSTANT DoneListSize = 1
SPECIFICATION FairSpec
INVARIANT CallerKeepsProtocol
INVARIANT IndexMatchesDb
INVARIANT ScheduleMatchesDb
INVARIANT NothingDangles
PROPERTY RulesEnd
PROPERTY HandlersEnd
PROPERTY UsesProcessor
CHECK_DEADLOCK FALSE
