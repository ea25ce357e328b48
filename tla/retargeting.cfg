SPECIFICATION Spec
CONSTANTS
  WeightC = 1000
  MaxCount = 25
  Values = {3, 5, 12, 40, 300}
  MaxHeld = 3
  Settings <- ThreeSettings
INVARIANTS TooHeavyHoldsNoBlanks PriceWithinHalfABlank NoMiddleFillDoesBetter
  NoRefusalWithinBound
