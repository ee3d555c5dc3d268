SPECIFICATION FairSpec
CONSTANTS
  proctor = proctor
  Pages = {proctor}
  StaffPages = {proctor}
  Results = {{"students"}, {"staff"}, {"students", "staff"}}
  MaxVersion = 3
  MaxPolls = 2
INVARIANT NoUpdateMissed
PROPERTY PagesConverge
