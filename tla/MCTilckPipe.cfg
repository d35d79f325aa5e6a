SPECIFICATION Spec
CONSTANTS
  a = a  b = b  c = c  None = None
  Task <- MCTask  InitFds <- MCFds  Sizes <- MCSizes
  PIPE_BUF_SIZE = 2
  NonBlockable = {}  Killable = {b}  Stoppable = {a}  Spare = {b}
INVARIANTS TypeOK WriterNotForgotten ReaderNotForgotten AtomicWrites EndsCountHolders
PROPERTY ImplementsPipeStream
CHECK_DEADLOCK FALSE
