SPECIFICATION Spec
CONSTANTS
  original = original
  upgraded = upgraded
  agent = agent
  state = state
  None = None
  Addresses <- Packages
  Datatypes <- AgentAndState
  CallPackage = upgraded
  TypePackage = original
  Origins <- TwoOrigins
  MaxDepth = 3
PROPERTIES
  ImplementsScopeStack
