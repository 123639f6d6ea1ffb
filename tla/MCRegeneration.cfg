SPECIFICATION FairSpec
CONSTANTS
  Rules <- MCRules
  JudgedSets <- MCJudgedSets
  Answers <- MCAnswers
  Thresholds <- MCThresholds
  Pins <- MCPins
  Denied <- MCDenied
  MaxPerRule = 1
  Absent = Absent
  Torn = Torn
  MaxRuns = 2
  MaxEdits = 1
  MaxFaults = 1
INVARIANTS SiteWithinCap EveryPairReportedOnce ReportDescribesDocument AgreedOverridesChangeNothing RefusedOnlyForOverrides
PROPERTIES EventuallyPublished
