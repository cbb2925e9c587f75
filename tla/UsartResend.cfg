SPECIFICATION Spec
CONSTANTS
  len = 3
  Byte = {0, 1}
  MUX_TASK = FALSE
  TX_LIMIT = 2
  RX_LIMIT = 2
PROPERTY TxInOrder
