SPECIFICATION Spec
CONSTANTS
  slice_size_scalar = 2
  MAX_LENGTH = 2
  Triples <- MCTriples
  Counts = {1, 2, 3}
  Rests = {0, 1, 2, 3, 5, 8, 12, 17, 20}
  FragmentSizes = {0, 1, 2, 5}
  slices_per_line = 2
INVARIANTS BytesConserved EndsWell FragmentsDescribeSlices NoOverreach
