SPECIFICATION Spec
CONSTANTS
  WeightC = 1000
  MaxCount = 1000000
  Values = {3, 5, 12, 40, 300}
  MaxHeld = 1
  Settings <- LargeFaces
INVARIANT AcceptedFacesEvaluate
