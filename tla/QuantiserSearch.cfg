SPECIFICATION FairSpec
CONSTANTS
  MAX_QI = 14
  TopBaseline = 7
  Qualities = {"full", "half", "quarter", "eighth"}
INVARIANTS MeasuresInTable ChoosesWell
PROPERTIES Recovers
