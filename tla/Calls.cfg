SPECIFICATION Spec
CONSTANTS
  MaxDepth = 9
  Func <- MCFunc
  Listed <- MCFunc
  MayPanic <- MCMayPanic
  Code <- MCCode
  FrameSize <- MCFrameSize
INVARIANTS TypeOK Aligned
PROPERTIES ImplementsCallService PanicsEnd
