SPECIFICATION FairSpec
CONSTANTS
  len = 3
  Byte = {0, 1}
  MUX_TASK = TRUE
  TX_LIMIT = 2
  RX_LIMIT = 2
PROPERTIES EverySent TxInOrder
