SPECIFICATION Spec
CONSTANTS
  j1 = j1  j2 = j2  r1 = r1
  u1 = u1  g1 = g1  g2 = g2
  Nil = Nil
  Users = {u1}
  Communities = {g1, g2}
  Roles = {"admin", "owner"}
  Permitted = {"admin"}
  Jtis = {j1, j2}
  Requests = {r1}
  AccessTtl = 1
  RefreshTtl = 2
  MaxTime = 4
SYMMETRY JtiSymmetry
INVARIANTS
  TypeOK
  NoStaleAuthority
  NothingOutlivesTtl
