SPECIFICATION Spec
CONSTANTS
  Main = main
  Workers = {w1, w2}
  Nodes = {n1, n2}
  Others = {e1}
  Self = self
  Remotes = {}
  MaxVersion = 0
  Failing = {"pub"}
  EarlyFini = FALSE
SYMMETRY EntitySymmetry
INVARIANTS
  InitMeansChannel
