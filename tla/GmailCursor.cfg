\* Two mailboxes with a message each, one poller.
SPECIFICATION Spec
CONSTANTS
  m1 = m1
  m2 = m2
  box1 = box1
  box2 = box2
  Mailbox = {box1, box2}
  Message = {m1, m2}
  Box <- MCBox
  Thread <- Alone
  Label = {l1}
  Broken = {}
  Poller = {w1}
  MaxHistory = 2
  MaxRow = 1
  MaxFaults = 0
  Null = Null
INVARIANT CursorIsOfMailbox
CHECK_DEADLOCK FALSE
