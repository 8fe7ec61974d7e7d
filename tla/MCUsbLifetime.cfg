SPECIFICATION Spec
CONSTANTS
  Handle = {h1, h2, h3}
  Xfer = {x1, x2, x3, x4}
  Obj = {ctl, input, output}
  Ctl = ctl
  None = None
  MaxReapers = 2
INVARIANTS
  NoCloseInFlight
  TransfersAccounted
  HandlesAccounted
  SubmitNeverSeesClosing
PROPERTIES
  DeferredCloseHappens
