SPECIFICATION Spec
CONSTANTS
  N = 3
  Channels = {0, 1, 2}
  Sender <- MCSender
  Receiver <- MCReceiver
  Lookahead <- MCLookahead
  Until = 6
  Infinity = 16
  Round <- Exact
  Labels = {"tick", "mail"}
  Programs <- MCPrograms
INVARIANTS
  TypeOK
  SafeWindow
  CausalityHolds
  HorizonAdvances
  NothingLeftBehind
  ExactlyOnce
  DeliveryOrder
  IInv
