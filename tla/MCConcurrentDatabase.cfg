SPECIFICATION FairSpec
CONSTANTS
  Names = {"A"}
  Width <- MCWidth
  Content <- MCContent
  BadHash = 9
  Writers = {w1, w2}
  Savers = {s1, s2}
  Loaded <- MCLoaded
  Chunks = 1
  MaxTime = 1
  MaxChanges = 2
INVARIANTS ListsMatchService AckedSaves
PROPERTIES NeverBack NeverOlder SavesReturn
