SPECIFICATION Spec
CONSTANTS
  N = 3
  Shapes <- MCShapes
  Declarations <- MCDeclarations
  Interfaces <- MCInterfaces
  Extends <- MCExtends
  Members <- MCMembers
  Defaults <- MCDefaults
INVARIANTS
  TypeOK
  CallsReachOverride
  LayoutsAgree
  DestructorsComplete
  CatchesDynamicType
