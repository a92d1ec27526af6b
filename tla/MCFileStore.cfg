SPECIFICATION Spec
CONSTANTS
  s1 = s1
  s2 = s2
  s3 = s3
  Snapshots <- Three
  Absent = Absent
INVARIANT NeverTorn
PROPERTY Promise
