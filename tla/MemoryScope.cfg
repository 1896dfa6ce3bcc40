SPECIFICATION Spec
CONSTANTS
  Names = {"Same name", "same-name", "other"}
  Sessions = {"s1", "s2"}
  Threshold = 2
  MaxItems = 1
  MaxVersions = 2
  MaxRequests = 2
  Slug <- MCSlug
CHECK_DEADLOCK FALSE
INVARIANT SessionKeepsItsSnapshot
