SPECIFICATION Spec
CONSTANTS
  Layouts <- MCShort
  Sdps = {"av", "audio"}
  Bases = {3}
  RtpMod = 8
  SeqMod = 8
  Confs <- MCConfs
  MaxVideo = 9
  MaxAudio = 4
  MaxSdps = 2
CHECK_DEADLOCK FALSE
INVARIANT HeaderFirst
