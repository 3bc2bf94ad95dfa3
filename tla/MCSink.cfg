SPECIFICATION Spec
CONSTANTS
  Destination = {"readwise", "shiori"}
  Interval = 2
  MinCooldown = 3
  MaxWait = 4
  Header = {0, 1, 4, 6}
  Checked = {"readwise"}
  Hold = {1, 3}
INVARIANTS
  BoundedPush
PROPERTIES
  RetryAfterHonoured
  SpacedUnlessLate
