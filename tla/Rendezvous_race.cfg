SPECIFICATION Spec
CONSTANTS
  i1 = i1
  j1 = j1
  j2 = j2
  s1 = s1
  c1 = c1
  Request = {i1, j1, j2, s1, c1}
  Mailbox = {m1, m2, m3}
  Token = {t1}
  NONE = NONE
  MailboxTtl = 2
  RendezvousTtl = 1
  MaxTime = 2
  Kind <- KindOfRequest
SYMMETRY Interchangeable
CHECK_DEADLOCK FALSE
INVARIANTS
  RedeemedTokenIsGone
  HeldUntilExpiry
  JoinLinksBothSides
  SessionIsolation
PROPERTY ListsAppendOnly
