\* Redelivery, a failing store call, a crash and a new group, under two requests.
SPECIFICATION Spec
CONSTANTS
  k = k
  g = g
  t1 = t1
  t2 = t2
  o1 = o1
  o2 = o2
  w1 = w1
  w2 = w2
  Dispatcher = dispatcher
  Chats <- OneChat
  Groups <- OneGroup
  Theirs <- TwoTheirs
  Ours <- OneOurs
  ChatOf <- SomeInGroup
  Workers <- TwoWorkers
  Events = {"message", "edit", "receipt"}
  Ops = {"send", "read", "group"}
  Emoji = {1}
  MaxEdits = 1
  MaxRedeliveries = 1
  MaxFailures = 1
  MaxRestarts = 1
  MaxDrops = 0
INVARIANTS
  TypeOK
  AnnouncedIsStored
  UnreadNeverOvercounts
  PeersMirrored
CHECK_DEADLOCK FALSE
