CONSTANTS
  u1 = u1
  u2 = u2
  d1 = d1
  d2 = d2
  Users = {u1, u2}
  Admins = {u2}
  Vids = {v1}
  Definitions = {d1, d2}
  Instances = {i1}
  Keys = {k1}
  MaxIds = 1
  None = None
  Tenant <- MCTenant
SPECIFICATION Spec
INVARIANT OkMeansErased
