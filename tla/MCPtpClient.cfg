SPECIFICATION FairSpec
CONSTANTS
  Masters = {one, two}
  TwoStep = {two}
  Apps = {a1}
  None = None
  UtcOffsets = {0, 1}
  SequenceIds = {0}
  AnnounceExpiration = 2
  DelayReqInterval = 1
  QueueDepth = 1
  MaxRequests = 2
INVARIANTS
  OffsetIsSound
  CalibratedByMaster
  NextRequestScheduled
  UtcOffsetTold
  NothingUnread
PROPERTIES
  LeavesSilentMaster
