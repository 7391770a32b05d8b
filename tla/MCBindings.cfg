\* Two goroutines that thread tables through InvokeByName only; plugins yield.
SPECIFICATION Spec
CONSTANTS
  Goroutine = {g1, g2}
  MaxBoxes = 3
  Threads = {"InvokeByName"}
  Blocks = FALSE
INVARIANTS
  HandlesAccounted
  ShutdownWaits
PROPERTIES
  CallsReturn
