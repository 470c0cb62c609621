CONSTANTS
  Trials = {p1, p2}
  Windows <- SampleWindows
  Candles <- SampleCandles
  Wall0 = 10
  WallEnd = 12
  BlockSecs = 6
  CandleSecs = 2
  Review = 4
SPECIFICATION BSpec
INVARIANT EvaluationsSound
PROPERTY EvaluationEnds
