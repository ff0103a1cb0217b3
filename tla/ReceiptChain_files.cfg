SPECIFICATION Spec
CONSTANTS
  t1 = t1
  t2 = t2
  w1 = w1
  w2 = w2
  NoOne = NoOne
  Target = {t1}
  Writer = {w1, w2}
  LastAttempt = 2
  MaxWrites = 5
INVARIANTS RefusedIffTorn SentSurvives ReportCommitted
PROPERTIES RunLogSpec
SYMMETRY Symmetry
