SPECIFICATION CrtcSpec
CONSTANTS
  Mul = 3
  Den = 2
  Display <- MCDisplay
  DefaultDisplay <- MCDefaultDisplay
  Ranges <- MCRanges
  DefaultRange <- MCDefaultRange
  Dots <- MCDots
  Lines <- MCLines
  MaxOverrun = 1
INVARIANTS BeamIsExact EdgesAreOnTime
