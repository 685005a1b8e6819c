SPECIFICATION Spec
CONSTANTS
  Layouts <- MCShort
  Sdps = {"av"}
  Bases = {40, 80}
  RtpMod = 1000
  SeqMod = 8
  Confs <- MCConfs
  MaxVideo = 9
  MaxAudio = 4
  MaxSdps = 2
CHECK_DEADLOCK FALSE
INVARIANT TracksStayTogether
