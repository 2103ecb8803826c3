SPECIFICATION Spec
CONSTANTS
  flaky = flaky
  Requests = {r1}
  Admins = {a1}
  Scenarios = {s1}
  Presets = {flaky}
  Bodies <- Nothing
  Headers <- NewStatus
  Contents <- StartContents
  Home <- StartHome
  MaxRefs = 9
  Families <- FamilyNames
  NoFamily = NoFamily
  Absent = Absent
  Null = Null
  NoScenario = NoScenario
SYMMETRY Symmetry
INVARIANT PublishedIsImmutable
