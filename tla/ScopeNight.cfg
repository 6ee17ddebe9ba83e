SPECIFICATION FairSpec
CONSTANTS
  Targets = {t1}
  Texts = {x}
  None = None
  FramesPerRun = 2
  FailMin = 1
  ProbeFrames = 1
  ProbeMaxFailed = 0
  MaxTroubles = 1
PROPERTY ParkOnlyIdle
PROPERTY RunsAreNotReplaced
PROPERTY QuietByDay
PROPERTY RunsAreLeft
PROPERTY RainIsTold
