SPECIFICATION Spec
CONSTANTS
  Lines <- MCLines
  Main = "main"
  Programs <- PipeInSubstitution
  Values = {"0", "1", "2", "3", "4", "old"}
  Files = {"x", "y", "bad"}
  Contents <- MCContents
  Unopenable = {"bad"}
  TempA = "pipe_a"
  TempB = "pipe_b"
  CaptureFiles <- MCCaptureFiles
  Console = "console"
  None = "none"
INVARIANT SubstitutionCaptures
