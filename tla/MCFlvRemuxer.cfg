SPECIFICATION Spec
CONSTANTS
  Layouts <- MCLayouts
  Sdps = {"av"}
  Bases = {3, 6}
  RtpMod = 8
  SeqMod = 5
  Confs <- MCConfs
  MaxVideo = 9
  MaxAudio = 4
  MaxSdps = 2
CHECK_DEADLOCK FALSE
INVARIANTS
  TypeOK
  QueuedAreAhead
  QueuesAreBounded
  FrameHasNoHole
  WholeFramesAreKept
