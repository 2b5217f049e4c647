CONSTANTS
  Names <- MCNames
  Declarations <- MCDeclarations
  Imports <- MCImports
  BaseTypes = {"Integer32"}
  ModuleOrder <- MCModuleOrder
  Convert <- MCConvert
  ConstImports <- MCConstImports
  None = None
SPECIFICATION Spec
INVARIANTS OrderIsTopological AcceptedIsComplete
CHECK_DEADLOCK FALSE
