\* A pool of eighteen words and two tasks that allocate blocks of two sizes, with
\* every merge the code makes.
SPECIFICATION ByteSpec
CONSTANTS
  ByteTask = {t1, t2}
  PoolWords = 18
  BlockMin = 5
  Request = {2, 5}
  MergeStart = TRUE
INVARIANT
  SearchStartsAtBlock
CHECK_DEADLOCK FALSE
