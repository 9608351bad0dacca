SPECIFICATION Spec
CONSTANTS
  Package <- MCPackage
  Deps <- MCDeps
  Others <- Unregistered
  Parallel = 2
  MaxCommit = 3
INVARIANTS
  CompiledInOrder
  PackedIsCompiled
