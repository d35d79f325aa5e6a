SPECIFICATION OomSpec
CONSTANTS
  p1 = p1
  p2 = p2
  f1 = f1
  f2 = f2
  f3 = f3
  Proc <- Processes2
  First = p1
  Page <- Pages
  Frame <- Frames3
  Zero = Zero
  Val = {0, 1}
  Blank = 0
  None = None
SYMMETRY FrameSymmetry
INVARIANT MappedPagesCounted
