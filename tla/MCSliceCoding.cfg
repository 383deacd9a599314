SPECIFICATION MCSpec
CONSTANTS
  Weights = {0, 2, 3, 5, 8, 12, 16, 20}
  MAX_QI = 64
  Chains <- MCChains
  Stride = 2048
  Shapes <- MCShapes
  Scalars = {1, 2}
  MAX_LENGTH = 4
  Paddings = {0, 6}
INVARIANTS DivisionExact CoarserIsShorter DecodesBack BytesAsMeasured
