SPECIFICATION MCSpec
CONSTANTS
  SRequests = {r1, r2}
  SWorkers = {a, b}
  SPhases = {p}
  SCopies = {1, 2}
  NoWorker = NoWorker
  TRequests = {r1, r2}
  TWorkers = {a, b}
  TCopies = {1}
  TImages = {1, 2, 3}
  NoImage = NoImage
  FRequests = {r1, r2}
  FCopies = {1, 2}
  LRequests = {r1, r2}
  LVersions = {0, 1, 2, 3}
  NoEntry = NoEntry
  ARequests = {r1}
  AWorkers = {w1, w2}
  AClients = {c1}
  AAdmins = {a1}
  NoAccount = NoAccount
  Ids = {1, 2, 3}
  Times = {0, 1}
  Limit = 1
  NClients = {c}
  NWorkers = {w1, w2}
  NAdmins = {n}
  NInspectors = {i}
  Nobody = Nobody
  DRequests = {r1, r2}
  DAccounts = {u1, u2}
  Tokens = {t1, t2}
  NoToken = NoToken
  DNobody = DNobody
  URequests = {r1, r2}
  Emails = {e1, e2, e3}
  Addresses = {e1, e2}
  Invites = {v1, v2}
  NoEmail = NoEmail
  NoInvite = NoInvite
  ORequests = {r1, r2}
  OAdmins = {a, b}
  OrgIds = {1, 2}
  NoAdmin = NoAdmin
  XRequests = {r1, r2}
  MaxTwins = 2
  ReportIds = {i1}
  GRequests = {r1, r2}
  GProjects = {p1, p2}
  GNobody = GNobody
  NRequests = {r1, r2}
  Base = 2
  Width = 2
  MaxNumber = 5
  Totals = {1, 7, 20}
  Phases = {1, 3}
  Fees = {0, 250, 3333}
  NoNumber = NoNumber
  SgRequests = {r1, r2}
  SgSigners = {a, b}
  SgImages = {1, 2, 3}
  NoSigner = NoSigner
SYMMETRY Symmetry
INVARIANTS
  TypesOK
  StaffingAgrees
  ToolsAgree
  StoredFilesAgree
  CachedIsCurrent
  
  PagesShowOnce
  PeopleAgree
  NoticesAreRight
  LoggedOutIsSilent
  TwinsAgree
  FiguresAgree
\* A component whose bounds are used up, or a reader at the last page, has nothing to do.
CHECK_DEADLOCK FALSE
