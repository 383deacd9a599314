SPECIFICATION Spec
CONSTANTS
  NFACTOR = 5
  SlicesPerLine = {1, 3, 4}
  SliceRows = {1, 2, 4, 5, 7}
  Lengths = {7, 31, 64, 112, 113, 200, 321, 500}
  FragmentSizes = {0, 10, 30, 100}
INVARIANTS SlicesShared TableSuffices OutputShared ExtraAgrees
