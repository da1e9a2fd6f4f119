SPECIFICATION DemoSpec
CONSTANTS
  Dirs <- MCDirs
  Target = "etc/ramfb"
  Writable <- MCWritable
  DirSel = 25
  FB_W = 10
  FB_H = 8
  SIM_W = 5
  SIM_H = 4
  SourceRad = 1
  Hot = 20
  Warm = 1
  Alpha = 250
  Cooling = 1
  Unit = 1250
  Shades = 5
  g_pal <- MCPalettes
  Period = 3
  FrameWrap = 8
  TickWrap = 16
  Freqs = {10, 25}
  PerSecond = 10
  FillMs = 3
  FrameMs = 2
  MaxGap = 2
INVARIANT TypeOK DeviceSeesRequest CompletionIsReal PaintConfigured FrameWhole
PROPERTY BringUpEnds FieldLaw PaletteHeld DelayLongEnough FramesForEver
