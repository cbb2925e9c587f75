SPECIFICATION Spec
CONSTANTS
  len = 3
  Byte = {0, 1}
  MUX_TASK = TRUE
  TX_LIMIT = 5
  RX_LIMIT = 2
PROPERTY TxInOrder
