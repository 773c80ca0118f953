CONSTANTS MaxEntries = 5  BufferSize = 2  MaxFileSize = 1
CHECK_DEADLOCK FALSE
SPECIFICATION FairSpec
INVARIANTS FilesInOrder NothingLost FilesBounded
PROPERTIES EntriesGetOut
