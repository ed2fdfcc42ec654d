SPECIFICATION Spec
CONSTANTS
  HeaderSize = 4
  MaxIndex = 3
  Objects <- MCObjects
INVARIANTS RoundTrip FxReadsApart DiscriminatorFinds RunAccounted CutRefused WalkExact GateAgrees
