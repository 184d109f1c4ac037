\* A reply that is no event stream.
SPECIFICATION Spec
CONSTANTS
  Texts = {"whole", "head", "tail"}
  Envelope <- Encoded
  MaxLines = 1
  NoText = "-"
INVARIANTS BodyWrapped
CHECK_DEADLOCK FALSE
