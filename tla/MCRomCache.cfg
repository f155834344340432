SPECIFICATION FairSpec
CONSTANTS
  t0 = t0
  t1 = t1
  w0 = w0
  w1 = w1
  Tags <- const_Tags
  Tag0 = t0
  NoTag = NoTag
  Lines = 2
  Words <- const_Words
  Word0 = w0
INVARIANTS
  AckedWord
  LinesCoherent
PROPERTY
  AckHeld
  RequestServed
