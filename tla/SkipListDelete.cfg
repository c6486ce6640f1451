\* A delete that misses its member.
SPECIFICATION Spec
CONSTANTS
  Member = {1, 2, 3}
  Score = {1, 2}
  NaN = nan
  MaxLevel = 3
  HeadNode = head
  NULL = null
PROPERTIES DeleteRemoves
