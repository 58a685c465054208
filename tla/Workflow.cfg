SPECIFICATION FairSpec
CONSTANTS
  a = a
  b = b
  c = c
  d = d
  Node = {a, b, c, d}
  ab = ab
  ac = ac
  bd = bd
  cd = cd
  ad = ad
  da = da
  bb = bb
  Edge = {ab, ac, bd, cd, ad, da, bb}
  From <- Sources
  To <- Targets
  Barred = {cd}
  MaxEdges = 5
  Ran <- Diamond
  Stranger = Stranger
  Run = {r1, r2}
  MaxBegun = 3
  Missing = Missing
  None = None
INVARIANTS TypeOK BuiltSound ResumeSound
PROPERTIES RunsEnd
CHECK_DEADLOCK FALSE
