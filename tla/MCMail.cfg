\* One mailbox with a conversation of two messages, labelled once, under two
\* pollers; and two mailboxes with a message each under one.
SPECIFICATION MailSpec
CONSTANTS
  m1 = m1
  m2 = m2
  box1 = box1
  box2 = box2
  Mailbox = {box1}
  Message = {m1, m2}
  Box <- OneBox
  Thread <- MCThread
  Label = {l1}
  Broken = {}
  w1 = w1
  Poller = {w1, w2}
  MaxHistory = 2
  MaxRow = 1
  MaxFaults = 1
  Null = Null
INVARIANTS TypeOK OneTicketPerThread
PROPERTY LabelledMailArrives
CHECK_DEADLOCK FALSE
