SPECIFICATION Spec
CONSTANTS
  Words <- MCWords
  Pointers <- MCPointers
  Literals <- MCLiterals
  Immediates <- MCImmediates
  Indices <- MCIndices
  Scratch = {"R0"}
  MaxInstructions = 1
  Longest = 6
PROPERTIES OnlyTheField ArithmeticIsExact SubtractionUndoesAddition
  DecimalStaysDecimal TestsCompareNumbers ShiftsMultiplyAndDivide
