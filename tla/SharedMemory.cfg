SPECIFICATION FairSpec
CONSTANTS
  p1 = p1  p2 = p2  p3 = p3
  s1 = s1  s2 = s2  s3 = s3
  Pids = {p1, p2, p3}
  Segments = {s1, s2, s3}
  NoPid = NoPid
  NoSegment = NoSegment
  MaxStarts = 4
INVARIANTS
  SharedIsWritten
  OneSegment
PROPERTIES
  LiveSocketStays
  OpensEnd
