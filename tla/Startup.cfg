\* The core process started, shut down and restarted twice, on Windows and elsewhere, with every prep and start failing or not.
CONSTANT MaxRuns = 3
SPECIFICATION StartupSpec
INVARIANT DNSCacheHandled
INVARIANT PacketHandlerFed
CHECK_DEADLOCK FALSE
