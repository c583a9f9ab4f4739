\* Three long presses, taps, flips and closing, with photos and clips delivered at any time.
SPECIFICATION FairSpec
CONSTANTS
  MaxUses = 3
CHECK_DEADLOCK FALSE
INVARIANT TypeOK
INVARIANT CrashesNeedHaste
INVARIANT OneCircle
INVARIANT LimitStands
PROPERTY ButtonsComeBack
PROPERTY CameraComesBack
