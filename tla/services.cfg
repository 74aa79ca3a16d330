SPECIFICATION ServicesSpec
CONSTANTS
  PReaders = {r1}
  PWriters = {w1, w2}
  PIPESIZE = 2
  WRAP = 4
  PBytes = {0, 1}
  Payloads <- MCPayloads
  PCounts = {2}
  Tellers = {t1, t2}
  INPUT_BUF = 2
  UWRAP = 4
  Letters = {"a"}
  ReadSizes = {2}
  NCPU = 2
  IRQCPU = 1
  NTHREAD = 2
  Waiters = {1}
  Signallers = {2}
  MProcs = {p1, p2}
  NoOne = NoOne
  NPAGES = 11
  PGSIZE = 2
  KERNBASE = 8
  KPT = 1
  ImageSizes = {1, 3}
  Increments = {1, 3}
  Sleepers = {a, b}
  TWRAP = 5
  Naps = {0, 2}
  MAXLATE = 2
  MAXWIRE = 2
  MINCORE = 4
  LIMIT = 15
  Requests = {2, 3, 5}
  Pieces <- MCPieces
  MAXTOKENS = 5
  MAXARGS = 3
  ReChars = {"a", "b", ".", "*", "^", "$"}
  TextChars = {"a", "$"}
  MAXRE = 4
  MAXTEXT = 3
  WIDTH = 6
  MEMSIZE = 5
  Contenders = {c1, c2}
  TreeNames = {x, y}
  Depths = {1, 2}
  MAX_MUTEXES = 7
INVARIANTS
  NoLostPipeWakeup NoLostConsoleWakeup NoLostEvent SwitchSafe PagesConserved SizeMapped
  SleepsLongEnough NoStuckModifier HeapPartitioned TreeSound
  ParserMatchesGrammar  LibraryCorrect
PROPERTIES PipeIsQueue ConsoleIsTerminal
CHECK_DEADLOCK FALSE
