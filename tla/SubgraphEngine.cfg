\* Four shapes in every order over five inferences.
SPECIFICATION Spec
CONSTANTS
  small = small
  odd = odd
  tall = tall
  large = large
  NoShape = NoShape
  Null = Null
  Addresses = {1, 2}
  Shapes <- FourShapes
  InSize <- InSizes
  OutDims <- OutShapes
  OutSize <- OutSizes
  MaxRuns = 5
INVARIANTS DataRightUnlessOutgrown DimsRightUnlessOtherBuilt FailedLaunchShowsTheLastGood
CHECK_DEADLOCK FALSE
