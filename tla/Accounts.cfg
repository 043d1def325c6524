\* Two requests at a time, two passwords, two links, two updates of the version.
CONSTANTS
  w1 = w1  w2 = w2  k1 = k1  k2 = k2  p1 = p1  p2 = p2
  Workers = {w1, w2}
  Tokens = {k1, k2}
  Passwords = {p1, p2}
  NoToken = NoToken
  MaxVersion = 2
SPECIFICATION Spec
SYMMETRY Symmetries
INVARIANTS TypeOK LinkOpensOneSession OneExclusiveLink SessionsMatchPassword
PROPERTIES ClaimTakesNoAccount RevokedStaysRevoked
\* Nobody has to ask for anything, and the links run out.
CHECK_DEADLOCK FALSE
