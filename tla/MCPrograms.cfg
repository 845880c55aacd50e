SPECIFICATION Spec
CONSTANTS
  MaxServices = 2
  MaxLoads = 3
  LoadSizes = {0, 2}
  CommandLines <- MCCommandLines
  ConfigFiles <- MCConfigFiles
  NbRows = 2
  NbInits = 3
  NbClientObjects = 2
INVARIANTS NothingOutlivesItsUsers LoadsFound CopyInStep PythonRunsOneInit
