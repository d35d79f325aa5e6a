SPECIFICATION FairSpec
CONSTANTS
  a = a  b = b  c = c  None = None
  Task <- MCTask  InitFds <- ReaderFds  Sizes <- SmallSizes
  PIPE_BUF_SIZE = 2
  NonBlockable = {"r", "w"}  Killable = {}  Stoppable = {}  Spare = {}
PROPERTIES EndOfFile BrokenPipe Exchange ImplementsPipeStream
