\* A directory of two generated files, edited once while it is verified.
CONSTANTS
  bundle = bundle
  test = test
  approved = approved
  edited = edited
  unsafe = unsafe
  ManifestOrder <- BundleThenTest
  BundleFile = bundle
  Contents = {approved, edited, unsafe}
  Clean = {approved, edited}
  ValidBundles = {approved}
  Implementing = {edited, unsafe}
  Policies <- TeamPolicies
  MaxEdits = 1
SPECIFICATION Spec
\* The system stops when the receipt has been returned.
CHECK_DEADLOCK FALSE
INVARIANTS
  QuietVerdict
  ExecutionEarned
  PolicyPassedIsEarned
PROPERTIES
  VerificationEnds
