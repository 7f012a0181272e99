CONSTANTS
  n1 = n1
  n2 = n2
  bad = bad
  Nodes = {n1, n2}
  BadKey = bad
  Answers <- MCAnswers
  MaxChanges = 3
  MaxErrors = 2

SPECIFICATION FairSpec
INVARIANT TypeOK
PROPERTY EventuallyCurrent
