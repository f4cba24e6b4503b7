\* Peers implement the mailbox, and ours mirrors WhatsApp, one request at a time.
SPECIFICATION Spec
CONSTANTS
  k = k
  g = g
  t1 = t1
  t2 = t2
  o1 = o1
  o2 = o2
  w1 = w1
  w2 = w2
  Dispatcher = dispatcher
  Chats <- OneChat
  Groups <- None
  Theirs <- OneTheirs
  Ours <- OneOurs
  ChatOf <- AllInChat
  Workers <- OneWorker
  Events = {"message", "edit", "revokeTheirs", "reaction"}
  Ops = {"send", "edit", "delete", "react"}
  Emoji = {1}
  MaxEdits = 1
  MaxRedeliveries = 0
  MaxFailures = 1
  MaxRestarts = 1
  MaxDrops = 1
INVARIANTS
  OursMirrored
PROPERTIES
  ImplementsMailbox
CHECK_DEADLOCK FALSE
