SPECIFICATION Spec
CONSTANTS
  Packets <- MCPackets
  LabelLen <- MCLabelLen
  Lower <- MCLower
  BodyLen <- MCBodyLen
  MaxHops = 2
INVARIANTS WhatIsWrittenIsRead CutToSize PointersGoBack CountsTellWhatFollows
CHECK_DEADLOCK FALSE
