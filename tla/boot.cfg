SPECIFICATION FairSpec
CONSTANTS
  MSGBOX_MAX_QUEUE = 3
  Uarts <- TwoUarts
  MaxRing = 3
INVARIANTS FaultExplained AnnouncedReachable NoStrandedMessage NotificationKept
PROPERTIES BootCompletes FullInboxDrains
CHECK_DEADLOCK FALSE
