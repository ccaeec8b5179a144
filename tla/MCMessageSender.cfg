CONSTANTS
  Callers = {c1, c2}
  Senders = {s1, s2}
  Disconnects = 1
  streamReuseTries = 0
  DHT = DHT
  None = None
SPECIFICATION Spec
INVARIANTS Inv ReplyMatchesRequest NoForgottenStreamUncancelled
PROPERTIES CallsReturn
CHECK_DEADLOCK FALSE
