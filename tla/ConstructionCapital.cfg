CONSTANTS
  Offers <- Mixed
  Rates = {0, 1}
  Year = 2
  MaxVotes = 1
  MaxOps = 3
  MaxCapitals = 2
  MaxTime = 4
SPECIFICATION Spec
INVARIANTS TypeOK SummaryMatches VotePointsConserved PrincipalReturned
PROPERTY OnlyClashStops
