SPECIFICATION PartsSpec
CONSTANTS
  Looks = {"missing", "stale", "weak", "strong"}
  Retry = 6
  MaxLag = 2
  Names = {1, 2, 3, 4}
  Unfillable = {1}
  DayCap = 2
  CloseCap = 3
  Batches = 3
INVARIANTS ExitSignalIsEarned AcceptedOnce
PROPERTIES StaysWeakSignalled RetrySpacing EventuallyDelivered
           NamesAreFilled FormingBarsAreReplaced
CHECK_DEADLOCK FALSE
