SPECIFICATION Spec
CONSTANTS
  half = 4
  Width <- Widths
  Resolution = {1, 2, 3, 4, 5, 6, 7, 9, 11, 15}
INVARIANTS DivisionIsExact IndexIsNearestSlot SurvivesNoiseBelowMargin
