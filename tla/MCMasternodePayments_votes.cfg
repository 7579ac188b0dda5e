SPECIFICATION PaymentsSpec
CONSTANTS
  me = me
  m2 = m2
  p1 = p1
  p2 = p2
  Mns = {me, m2}
  Me = me
  Payees = {p1}
  NoPayee = NoPayee
  NoVote = NoVote
  Corrupt = Corrupt
  FirstTip = 3
  MaxTip = 4
  VoteWindow = 0
  Ahead = 1
  OwnAhead = 1
  Limit = 1
  MaxReorg = 1
  Required = 2
  MaxVotes = 2
  MaxRestarts = 1
VIEW Distinct
INVARIANTS
  VotesCounted
PROPERTIES
  EnforcedStays
