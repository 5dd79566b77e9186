SPECIFICATION FairSpec
CONSTANTS
  Types = {"kTcp", "kUdp"}
  Fds = {f1, f2}
  MaxConns = 2
  MaxSends = 1
  MaxArrivals = 1
  MaxOther = 1
INVARIANTS
  MapsAgree
  NoSilentEnd
  ChunksAttributed
  NothingForgotten
PROPERTIES
  NothingAfterError
  ClosesItsOwn
  ConnectSettles
