\* A counterexample: a gzip header longer than pending_buf, in two pieces.
CONSTANTS
  ByteBits = 4
  LITERALS = 16
  LENGTH_CODES = 3
  D_CODES = 6
  MAX_BITS = 5
  MAX_BL_BITS = 4
  extra_lbits <- MCextra_lbits
  extra_dbits <- MCextra_dbits
  ZeroBits <- MCZeroBits
  bl_order <- MCbl_order
  HeaderBits <- MCHeaderBits
  static_llen <- MCstatic_llen
  static_dlen = 3
  lit_bufsize = 32
  w_size = 16
  hash_bits = 6
  pending_buf_size = 32
  Poly = 40961
  TOO_FAR = 5
  Filtered = 4
  BASE = 251
  configuration_table <- MCtable
  Threads = {0, 1}
  MaxSim = 1
  Marker = 6
  actual_length = 16
  MAX_HEADER_SIZE = 24
  UIntSize = 65536
  Settings <- MCHeader
SPECIFICATION Spec
CHECK_DEADLOCK FALSE
INVARIANTS NoFault
