SPECIFICATION Spec
CONSTANTS
  Messages <- MCMessages
  NumElements = 8
  ParamsBytes = 96
  Estimate <- MCEstimate
  BlockBytes = 128
  WindowBytes = 300
INVARIANTS
  TypeOK
  FieldsLineUp
  IndicatorsSurvive
  FrameFits
PROPERTIES
  ReadsWholeStream
