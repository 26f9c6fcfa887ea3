\* Three results: ties and orders of every kind among loss, ping, node, subnet;
\* two attempts for each pick, each of which gives a speed or none.
CONSTANTS
  Endpoints <- ThreeTargets
  Subnets = {"s1", "s2"}
  Nodes = {1, 2}
  SubnetOf <- FirstTwoTogether
  ExitOf <- OuterTwoTogether
  MaxLoss = 2
  MaxPing = 2
  Filters <- FilterKinds
  CountryOf <- OneCountryEach
  Attempts = 2
  MaxSpeed = 1
SPECIFICATION SpeedSpec
INVARIANTS
  FeedIsTheReport
  NodesMatchFeed
  BestLeads
  PicksAreMeasured
\* The phase ends.
CHECK_DEADLOCK FALSE
