SPECIFICATION Spec
CONSTANTS
  MaxDepth = 9
  Func <- MCFunc
  Listed <- MCFunc
  MayPanic <- MCMayPanic
  Code <- PushingCode
  FrameSize <- MCFrameSize
PROPERTIES ImplementsCallService
