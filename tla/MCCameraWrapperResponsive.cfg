SPECIFICATION Spec
CONSTANTS
  MaxEvents = 2
INVARIANTS
  ResponsiveMeansAnswered
