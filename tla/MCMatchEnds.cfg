SPECIFICATION Spec
PROPERTIES
  GateResolves
  DepartureEndsMatch
  AlwaysEnds
