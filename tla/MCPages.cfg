CONSTANTS
  Systems = {"linux", "windows"}
  Page = {1, 2, 3, 4}
  PageSize = 2
  WordLimit = 8
  Sizes <- MCSizes
  MaxSegments = 2
SPECIFICATION Spec
INVARIANT PagesAreAccountedFor
