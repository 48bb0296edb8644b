SPECIFICATION Spec
CONSTANTS
  Requests = {r1, r2}
  Selects = {s1, s2}
  Convs = {c1}
  Keys = {k1}
  None = None
  MaxFaults = 1
  MaxMoves = 2
  MaxSelectFaults = 1
  Asks <- MCAsks
  Texts <- MCTexts
  MaxCandidates = 3
  MaxOptions = 2
  MaxAliases = 2
  MaxNames = 4
  Place <- MCPlace
  Unfit <- MCUnfit
  PaymentPrefixes <- MCPrefixes
  Numbers = {"12"}
  Keywords <- MCKeywords
  Inside <- MCInside
  Spells <- MCSpells
  MaxSuggestions = 1
  Descriptions <- MCDescriptions
  Mine <- MCMine
  Mapped <- MCMapped
  Sizes = {1, 3}
  BaseBytes = 2
  MaxMessages = 3
  MaxTurns = 2
  MaxTools = 1
  MaxBytes = 8
  MaxEvents = 6
  PlanMessages <- MCMessages
  Proposals <- MCProposals
  Sums = {"20000", "50000"}
SYMMETRY Symmetry
INVARIANTS
  AssistantTypeOK
  OneExecutionPerKey
  AnswersAreRecorded
  LeftoversNeedACause
  ChainMovesForward
  SelectionAnswersAreTrue
  WalletIsNotForgotten
  GuessesAreUnrivalled
  PlansStayInBounds
PROPERTIES
  FinishedTurnsStay
CHECK_DEADLOCK FALSE
