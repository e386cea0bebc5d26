SPECIFICATION Spec
CONSTANTS
  Fleets <- MCFleets
  Limits = {0, 1, 7, 15, 20, 33, 50, 66, 87, 97, 98, 100}
INVARIANTS WaterfallMeetsReference ReclaimKeepsCeiling MoreLimitNeverLess RelaysThrottledLast
CHECK_DEADLOCK FALSE
