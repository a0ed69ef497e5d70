SPECIFICATION Spec
CONSTANTS
  Fuzzers = {"main", "child"}
  Main = "main"
  Raw <- RawNames
  Names <- AllNames
  Spaced <- Display
  Expectations <- Asked
  MaxCauses = 5
INVARIANTS TypeOK TimingsAreFirst GaveUpMeansInterrupted
PROPERTY ScriptEnds
