CONSTANTS
  Requests = {r1, r2}
  OutboundTimeout <- DefaultOutbound
  InternalTimeout <- DefaultInternal
  WriteTimeout <- DefaultWrite
  ShutdownTimeout <- DefaultShutdown
  Hosts <- AllHosts
  Strings <- AllStrings
  Absent = Absent
  Broken = Broken
  NoSettings = NoSettings
  BadDurations <- Unparsable
  BadBools <- Undecodable
  BadURLs <- Unaddressable
  Faults = {"listen"}
SPECIFICATION FairSpec
INVARIANTS TypeOK NoGoodAnswerLost CleanExit ProfileInTime Precedence SecretsGiven FailsFast
PROPERTIES SignalStops GracefulServerSpec
CHECK_DEADLOCK FALSE
