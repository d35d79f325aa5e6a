SPECIFICATION VforkSpec
CONSTANTS
  pa = pa  pb = pb  pc = pc  ha = ha  hb = hb  ga = ga  None = None
  Proc <- MCProc  Handle <- MCHandle  Page <- OnePage
  MaxHandles = 2  First = pa
INVARIANTS TypeOK RefsCountUsers MappingsHeld SpacesOwned
PROPERTY ImplementsFdTables
SYMMETRY Alike
CHECK_DEADLOCK FALSE
