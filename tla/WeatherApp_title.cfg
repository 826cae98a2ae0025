SPECIFICATION Spec
CONSTANTS
  ann = ann
  test = test
  test1 = test1
  pw = pw
  tpw = tpw
  urbana = urbana
  User = {ann, test, test1}
  Password = {pw, tpw}
  City = {urbana}
  Test = test
  Test1 = test1
  TestPassword = tpw
  None = None
  Registrations <- SmallRegistrations
  Depth = 4
  MaxRows = 3
  MaxKills = 1
INVARIANTS
  ListOfTitle
