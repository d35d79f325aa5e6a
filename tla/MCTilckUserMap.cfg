SPECIFICATION Spec
CONSTANTS
  MinSize = 4
  MaxSize = 8
  Lens = {1, 2, 3}
  Off = {1}
  File = {f1}
  Anonymous = Anonymous
  Nothing = Nothing
  Failing = {2, 6}
  Writable = {1}
  MaxMaps = 2
INVARIANTS TypeOK HeapFollowsMappings MappingsTellPages
PROPERTY ImplementsUserMemory
VIEW CodeState
