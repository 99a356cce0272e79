SPECIFICATION Spec
CONSTANTS
  NumRevs = 2
  Sets = {s1, s2}
  FinalSet = s1
  Approvers = {a1}
  Wanted = {"active"}
  Verdicts = {"approved", "declined"}
  NoSig = NoSig
PROPERTIES
  GoodSignatureCounts
