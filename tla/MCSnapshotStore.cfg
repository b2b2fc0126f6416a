SPECIFICATION Spec
CONSTANTS
  CHUNK_SIZE = 2
  MaxSnapshots = 5
  MaxFails = 2
INVARIANTS AckedIsStored AckedIsNamed ReadIsComplete AppendsReadNewestFirst
