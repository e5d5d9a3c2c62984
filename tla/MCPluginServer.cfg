SPECIFICATION FairSpec
CONSTANTS
  Hosts = {"h1", "h2"}
  Messages = {"m1", "m2"}
  Senders = {"s1", "s2"}
  From <- TwoSenders
  NoHost = "none"
  NoSender = "null"
  MaxFaults = 2
INVARIANT ListenerIsReachable
INVARIANT LastSenderIsNewest
PROPERTY MessagesArrive
