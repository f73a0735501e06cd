SPECIFICATION FairComponentsSpec
CONSTANTS
  Parts = {"streams", "settings", "composer", "pages", "settingsPages", "files", "recovery", "store", "families", "snapshot", "names", "secrets", "rows", "audit", "endpoints", "protocol", "signIn", "layout"}
  s1 = s1
  u1 = u1
  d1 = d1
  d2 = d2
  t1 = t1
  t2 = t2
  Threads = {t1, t2}
  PackageThreads = {t1}
  AccessSessions = {s1}
  SessionUser <- MCUser
  Offered <- MCOffered
  LeaseTime = 1
  MaxLeases = 2
  MaxSessionLeases = 1
  MaxLeaseTokens = 1
  MaxTicks = 1
  StreamSessions = {r1, r2}
  Viewers = {v1, v2}
  TicketTime = 1
  MaxEndpointTokens = 2
  MaxTickets = 2
  MaxStreamTicks = 1
  ChannelApps = {a1}
  Links = {l1, l2}
  Callers = {c1, c2}
  MaxTokens = 1
  MaxCalls = 2
  MaxInbox = 1
  NoLink = NoLink
  NoApp = NoApp
  MaxFaults = 2
  MaxUserCalls = 1
  FieldTexts <- MCTexts
  RuntimeRequests <- MCRuntimeRequests
  SecretRequests <- MCSecretRequests
  ImageRequests <- MCImageRequests
  CommandLines <- MCCommandLines
  ProtocolFieldLimit = 2
  RequestLimit = 22
  ArchiveLimit = 3
  EntrypointLimit = 1
  NoRequest = NoRequest
  ImageInstalls <- MCInstalls
  ArchiveOf <- MCArchiveOf
  SpecsOf <- MCSpecsOf
  TargetOptions <- MCOptions
  FoundDirectories <- MCDirectories
  MaxImageLoads = 3
  NoImage = NoImage
  DatabaseCalls = {k1, k2}
  BindingLists <- MCBindingLists
  MaxDatabaseCalls = 4
  NoDirectory = NoDirectory
  PackagePaths = {"a"}
  PackageContents = {"x", "y"}
  Templates <- MCTemplates
  KeyIds = {"k"}
  Installations = {"i"}
  MaxKeyPairs = 2
  MaxEdits = 2
  MaxSignings = 2
  MaxPublishings = 1
  Absent = Absent
  WireNames = {"n", "m"}
  WireTexts = {"", " plain"}
  StreamWidths = {319, 320, 7680}
  StreamHeights = {200, 4321}
  FrameRates = {0, 1, 120}
  OptionLimit = 2
  Left = Left
  Characters = {"a", "A", "0", "-", ".", " ", "/"}
  MaxText = 5
  LongLimit = 5
  ShortLimit = 2
  Devices = {d1, d2}
  Tabs = {t1, t2}
  TabDevice <- MCTabDevice
  Themes = {"dark"}
  Layouts = {"w"}
  DeviceLimit = 1
  WorkspaceLimit = 2
  MaxRevision = 2
  Unset = Unset
  Deeds = {"hostFiles", "storeImport"}
  MaxFileIds = 4
  FileNames = {"a", "b"}
  FileSizes = {0, 1}
  MaxFileSize = 1
  MaxFiles = 3
  MaxTotalSize = 1
  NotSealed = NotSealed
  Reporters = {r1, r2}
  MaxAuditEvents = 3
  MaxAuditStops = 1
  PageLimit = 1
  MaxOffset = 5
  NoTable = NoTable
  EventInputs <- MCEventInputs
  Filters <- MCFilters
  MaxAuditRows = 2
  NotGiven = NotGiven
  RecoveryApps = {"x"}
  AlwaysOn <- MCAlwaysOn
  Workers = {w1, w2}
  DisabledLimit = 1
  MaxRecoveryRequests = 2
  NoSettings = NoSettings
  WebUser = WebUser
  NoUser = NoUser
  NotAnObject = NotAnObject
  MaxChanges = 1
  WebFeatures = {"apps", "modes", "streams", "audit", "repository", "sessions"}
  SignInBrowsers = {b1, b2}
  ShellTargets <- MCTargets
  TypedNames = {8, 129}
  LoginSlots = 1
  MaxSignIns = 3
  Here = Here
  ViewAppLimit = 1
  ContributionLimit = 2
  MaxRevisions = 3
  NotComposed = NotComposed
  ThemeManifests <- MCManifests
  Contributions <- MCContributions
  PageApps <- MCPageApps
  PageThemes = {"com.rumahl.classic"}
  PageModes = {"launcher"}
  PageWorkspaces = {"w"}
  BusCapacity = 1
  MaxPageChanges = 1
  MaxPageFaults = 1
  NoRevision = NoRevision
  NoView = NoView
  StoreUsers = {u1, u2}
  Urls <- MCUrls
  TypedHosts <- MCTypedHosts
  PrintTexts <- MCPrintTexts
  PublicPrints = {"pub"}
  TrustEntries = 2
  MaxTrusts = 2
  Shoppers = {u1}
  MaxRenewals = 1
  NoPin = NoPin
  NoHost = NoHost
  NewAccounts <- MCNewAccounts
  Canonical <- MCCanonical
  TypedPasswords <- MCPasswords
  Provisioners = {p1, p2}
  Readers = {r1}
  SessionSeconds = 2
  MaximumProofAge = 1
  Clock = {1, 3}
  MaxAccounts = 2
  MaxSessionRows = 2
  MaxPasswordChanges = 1
  Unrevoked = Unrevoked
  FamilyClients = {k1}
  FamilySessions = {s1}
  FamilyLifetime = 2
  AccessLifetime = 1
  MaxFamilies = 2
  MaxRefresh = 3
  MaxAccess = 2
  MaxFamilyTime = 2
  OidcApps <- MCOidcApps
  AuthorizeRequests <- MCAuthorize
  ConsentScopes <- MCConsent
  TokenRedirects <- MCRedirects
  Verifiers <- MCVerifiers
  EndpointUser <- MCEndpointUser
  ClaimedName <- MCClaimedName
  MaxAsked = 2
  MaxGranted = 2
  MaxIssued = 1
  Nobody = Nobody
  KeyConfigurations <- MCKeyConfigurations
  SecretOwners <- MCSecretOwners
  SecretPurposes = {"oidc"}
  Secrets <- MCSecrets
  Contexts = {"f1"}
  UnsealRuns <- MCUnsealRuns
  NonceLength = 2
  MaxSeals = 2
  NoProvider = NoProvider
  BridgeApps = {"chat"}
  Declared <- MCDeclared
  CallKinds <- MCCallKinds
  ProviderApps = {"chat"}
  MaxFrames = 1
  MaxDocuments <- MCMaxDocuments
  MaxBridgeCalls = 1
  OpenPages = {"p"}
  Providers = {"preferences", "os-mode", "workspace"}
  MaxRecord = 2
  MaxSaves = 2
  Icons = {"a", "b", "c"}
  ColumnCounts = {1, 2}
  PageRows = 1
  DropCells <- MCDropCells
  StoredOrders <- MCStoredOrders
INVARIANTS
  OneRevisionOneState
  FilesStayATree
  StartsRespectRecoveryMode
  
  
  ReuseEndsTheFamily
  StoredFormsReadBack
  CredentialsOpenTheirOwn
  LimitsHold
PROPERTIES
  
  SignedOutPagesStop
CHECK_DEADLOCK FALSE
