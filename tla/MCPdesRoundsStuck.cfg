SPECIFICATION Spec
CONSTANTS
  N = 3
  Channels = {0, 1, 2}
  Sender <- MCSender
  Receiver <- MCReceiver
  Lookahead <- MCLookahead
  Until = 16
  Infinity = 64
  Round <- Coarse
  Labels = {"tick", "mail"}
  Programs <- LatePrograms
INVARIANT
  HorizonAdvances
