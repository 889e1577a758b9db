\* A watch saving beside a dry run loading.  Three inodes: record file,
\* temporary file, a replaced file still being read.
SPECIFICATION Spec
CONSTANTS
  Proc = {w, d}
  Saver = {w}
  Version = {"long", "short"}
  Inode = {i1, i2, i3}
  Nothing = Nothing
  Torn = Torn
  Chunks = 2
  Length <- LongAndShort
INVARIANTS PathWhole IInv
PROPERTY RefinesAtomicStore
