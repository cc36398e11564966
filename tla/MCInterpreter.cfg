SPECIFICATION Spec
CONSTANTS
  Tensors <- MCTensors
  Resources <- MCResources
  Constants <- MCConstants
  Shape <- MCShape
  InputTensor = "in"
  OutputTensor = "out"
  Files <- MCFiles
  MaxInvokes = 3
  MaxOps = 4
INVARIANTS
  StateOperatorsSucceed
  ResetMakesNew
