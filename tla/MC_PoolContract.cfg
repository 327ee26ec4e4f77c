SPECIFICATION PoolSpec
CONSTANTS
  PAYLOAD_POOL_BLOCKS = 3
  RefCountModulus = 4
  MaxSequence = 2
INVARIANTS RefCountExact
PROPERTIES NoRecycling
