SPECIFICATION Spec
CONSTANTS
  Paths = {"a", "b"}
  Packets = {1, 2}
  SizeMod = 32
  PacketBytes = 8
  MaxChunk = 2
  MaxMessages = 3
  MaxFiles = 3
INVARIANTS FileReadable SavedIsPublished
PROPERTY OnlyAskedFile
CHECK_DEADLOCK FALSE
