SPECIFICATION Spec
CONSTANTS
  N = 3
  Channels = {0, 1, 2}
  Sender <- MCSender
  Receiver <- MCReceiver
  Lookahead <- FarLookahead
  Until = 40
  Infinity = 64
  Round <- Coarse
  Labels = {"tick", "mail"}
  Programs <- RelayPrograms
INVARIANT
  CausalityHolds
