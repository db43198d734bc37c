SPECIFICATION Spec
CONSTANTS
  t1 = t1
  main0 = main0
  a1 = a1
  a2 = a2
  Threads = {t1}
  Early = {}
  Main = main0
  Targets = {x1}
  QUIT = quit
  Timers = {a1, a2}
  Duration <- MCDuration
  OneShot = {a2}
  MaxPosts <- MCMaxPosts
  MaxLives = 1
  MaxClock = 2
  NoEvent = NoEvent
INVARIANTS QueueInv TimerPunctual
PROPERTIES KeepsOrder DueFires
CHECK_DEADLOCK FALSE
