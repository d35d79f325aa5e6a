SPECIFICATION Spec
CONSTANTS
  a = a  b = b  c = c  None = None
  Task <- MCTask  InitFds <- ReaderFds  Sizes <- SmallSizes
  PIPE_BUF_SIZE = 2
  NonBlockable = {}  Killable = {a}  Stoppable = {}  Spare = {}
INVARIANT SignalWakes
