SPECIFICATION Spec
CONSTANTS
  Packets <- MCPackets
  VideoCsds <- MCVideoCsds
  AudioCsds <- MCAudioCsds
  TitleLen = 43
  Codecs = {"H264", "MJPEG"}
  FrameSize = 7
  STCO_CACHE_SIZE = 2
  STSZ_CACHE_SIZE = 3
  KeyCap = 3
  Reserve = 1181
  JUNK = JUNK
  MaxPackets = 5
INVARIANTS
  TypeOK
  SamplesReadBack
  SyncSamplesAreIdr
  TimesReadBack
  BoxesTile
  BoxesNest
  DecoderConfigured
CHECK_DEADLOCK FALSE
