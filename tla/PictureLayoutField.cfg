SPECIFICATION Spec
CONSTANTS
  NFACTOR = 540
  SlicesPerLine = {60}
  SliceRows = {68}
  Lengths = {1296000}
  FragmentSizes = {1400}
INVARIANT NextParseOffset
