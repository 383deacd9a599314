SPECIFICATION StreamSpec
CONSTANTS
  Formats <- MCFormats
  Levels = {3}
  BaseFormats = {13}
  Modes = {0, 1}
  NFACTOR = 2
  MinData = 16
  mSliceSizeScalar = 2
  Lengths = {16, 18}
  mPictureHeader_length = 33
  MaxFragments = 2
  MaxEnd = 150
  Followed <- MCFollowed
INVARIANTS HeaderTellsFormat UnitsChain
