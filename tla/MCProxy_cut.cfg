\* A stream of up to three lines, broken off behind the host.
SPECIFICATION ProxySpec
CONSTANTS
  Texts = {"whole", "head", "tail"}
  Envelope <- Encoded
  MaxLines = 3
  NoText = "-"
INVARIANTS Transparent
CHECK_DEADLOCK FALSE
