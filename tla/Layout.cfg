SPECIFICATION Spec
CONSTANTS
  None = None
  Root = Root
  Methods = Methods
  Mod = "mod"
  Modules <- SomeModules
  Packages <- SomePackages
  AllOptions <- RenderOptions
  Joined <- JoinedName
  SplitOptions <- FewOptions
  MaxRenders = 2
  Unrawable <- NoRaw
  RootValues <- Values
  RootTypes <- Types
  Imported <- OnlyImported
  RustNames <- FromRust
  RustValues <- OfValues
  TypePrelude <- ForTypes
  CallPrelude <- ForCalls
  RootPrelude <- Prelude
  TxExtPrelude <- ForTxExt
  Signer <- TheSigner
  SpecVariable <- TheSpec
  PhantomNames <- Phantoms
  Sm <- TheSm
  SmCall <- TheSmCall
  TxExt <- TheTxExt
CHECK_DEADLOCK FALSE
INVARIANTS
  RootIsWrittenLast
  
