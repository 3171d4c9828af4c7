\* Every line of up to three symbols, every pair of six names.
SPECIFICATION Spec
CONSTANTS
  Symbols <- AllSymbols
  Names <- SomeNames
  Typed <- SomeTyped
INVARIANTS
  FrameIntact
  PlainIsShown
  TablesInvert
