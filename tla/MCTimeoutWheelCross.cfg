SPECIFICATION Spec
CONSTANTS
  W = 4
  timer = timer
  peer = peer
  other = other
  nil = nil
  Items = {timer, peer, other}
  Nil = nil
  Timers = {timer}
  Peers = {peer}
  Intervals <- ShortIntervals
  Careful = FALSE
PROPERTY CancelledStaysSilent
