\* Every stream of up to four lines, through the host, cut anywhere.
SPECIFICATION ProxyFairSpec
CONSTANTS
  Texts = {"whole", "head", "tail"}
  Envelope <- Encoded
  MaxLines = 4
  NoText = "-"
INVARIANTS ProxyTypeOK Parsed Whole Proxied
PROPERTIES ProxyReturns
CHECK_DEADLOCK FALSE
