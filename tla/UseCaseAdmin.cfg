SPECIFICATION Spec
CONSTANTS
  Workers = {w1, w2}
  robles = robles
  acme = acme
  UseCaseIds = {robles, acme}
  Seeds <- TwoSeeds
  Codes = {c1, c2}
  Phones = {p1}
  NoCode = NoCode
  Unset = Unset
  Same = Same
  Bodies <- SomeBodies
  MaxFaults = 1
CONSTRAINT OneException
SYMMETRY Alike
INVARIANT TypeOK
INVARIANT ActiveIsThere
INVARIANT ProfilesBelong
INVARIANT CodesDistinct
PROPERTY CodeStays
