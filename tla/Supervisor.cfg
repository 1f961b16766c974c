\* A supervisor and a terminal that starts or stops everything or restarts the
\* server, or one of them with one event more: a service dies, the command is
\* killed, the supervisor gets a SIGTERM.  Services take their time to bind
\* their port; one pid file may be left from an earlier boot.
CONSTANTS
  NoPid = NoPid
  p1 = p1
  p2 = p2
  p3 = p3
  p4 = p4
  p5 = p5
  p6 = p6
  c1 = c1
  Pids <- SixPids
  Local <- JustMcp
  Mode = "cloudflare"
  Shells <- OneShell
  Supervisor = Supervisor
  Commands <- StartStopRestart
  Events <- EventKinds
  MaxEvents = 2
  Binding = "slow"
SPECIFICATION LiveSpec
INVARIANTS TypeOK SparesOthers
PROPERTIES Recovers CommandsEnd
CHECK_DEADLOCK FALSE
