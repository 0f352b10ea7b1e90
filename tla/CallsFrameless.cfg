SPECIFICATION Spec
CONSTANTS
  MaxDepth = 9
  Func <- MCFunc
  Listed <- MCFunc
  MayPanic <- MCMayPanic
  Code <- FramelessCode
  FrameSize <- FramelessSize
INVARIANT TypeOK
