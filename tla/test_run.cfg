SPECIFICATION FairSpec
CONSTANTS
  expected_output <- MCExpected
  Results         <- MCResults
  CountRange = 2
  MaxPolls = 2
INVARIANTS
  IInv
  VerdictHonest
PROPERTY TestEnds
