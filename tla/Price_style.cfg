SPECIFICATION Spec
CHECK_DEADLOCK FALSE
CONSTANTS
  Precision = 10
  Width = 12
  MaxDecimals = 3
  MaxDigits = 2
  MaxPrice = 300
  Unparsed = Unparsed
INVARIANTS
  StylePriceExact
