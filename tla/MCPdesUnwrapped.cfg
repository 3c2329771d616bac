SPECIFICATION SpecBoth
CONSTANTS
  N = 3
  Channels = {0, 1, 2}
  Sender <- MCSender
  Receiver <- MCReceiver
  Lookahead <- MCLookahead
  Until = 4
  Infinity = 8
  Round <- Exact
  Labels = {"tick", "mail"}
  Programs <- SendsTooSoon
INVARIANT
  RunFailuresWrapped
