\* The first message to a new chat is sent and not stored.
SPECIFICATION Spec
CONSTANTS
  k = k
  g = g
  t1 = t1
  t2 = t2
  o1 = o1
  o2 = o2
  w1 = w1
  w2 = w2
  Dispatcher = dispatcher
  Chats <- OneChat
  Groups <- None
  Theirs <- OneTheirs
  Ours <- OneOurs
  ChatOf <- AllInChat
  Workers <- OneWorker
  Events = {"message"}
  Ops = {"send"}
  Emoji = {1}
  MaxEdits = 1
  MaxRedeliveries = 0
  MaxFailures = 0
  MaxRestarts = 0
  MaxDrops = 0
INVARIANTS
  SentIsStored
CHECK_DEADLOCK FALSE
