SPECIFICATION PlatformSpec
CONSTANTS
  Chosen = {"riot"}
  Holders = {"a", "b"}
  Amounts = {1, 2}
  Calls = {1, 2}
  MaxCoins = 2
  MaxRosters = 9
  MaxSize = 3
  MaxBid = 60
  WeekdayChoices <- MCWeekdays
  Percents = {0, 1, 5, 10, 33, 100}
  Workers = {w1, w2}
  Drafters = {1, 2}
  Moderators = {1}
  Seats = {"A", "B"}
  Draftees = {"x", "y"}
  Overall <- MCOverall
  RosterSize = 1
  OrderType = "SNAKE"
  LiveStart = TRUE
  NoOne = NoOne
  MaxBracket = 10
  MaxGroups = 8
  MaxGroupSize = 5
  MaxAdvance = 4
  Entrants = {1, 2}
  Creator = 1
  Codes = {1}
  MaxTeams = 2
  MinTeams = 2
  MaxRequests = 3
  MaxRestarts = 0
  Setups <- MCSetups
  Scores <- MCScores
  MaxCorrections = 2
  Rules <- MCRules
  Reporters = {"one", "two"}
  MaxReopened = 1
  MaxProofs = 1
  Queuers = {1, 2, 3, 4}
  Score <- MCScore
  LeagueHandlers <- MCHandlers
  MatchTypes = {"LIVRE", "BALANCEADO"}
  MaxLeft = 1
  MaxSessions = 3
  GameAdmins = {}
  Spots = {"task"}
  MIN_PLAYERS = 3
  Emergencies = 0
  MaxDrops = 1
  Detective = TRUE
  Accusers = {1}
  MaxGames = 1
  Syncs = {1}
  ClubPlayers = {1, 2, 3}
  Name <- MCName
  ClubMatches = {1, 2, 3}
  Played <- MCPlayed
  Anonymous = {2}
  ListTeams = {1, 2}
  Names = {"a", "b"}
  MaxSyncs = 2
  MaxEdits = 1
  Batch = 1
  RiotCallers = {1, 2}
  Buckets = {"perSecond", "perTwoMin"}
  MaxTokens <- MCTokens
  Window <- MCWindow
  Lookups = {"match"}
  FreshKeys = {"icon"}
  Ttl = 2
  MaxEntries = 1
  RIOT_MAX_RETRIES = 1
  MaxRetryAfter = 1
  AccessRequests = {1, 2}
  Reviewers = {1}
  MaxReviews = 1
  Blue <- MCBlue
  Red <- MCRed
  MaxFinished = 2
  MaxBallots <- MCBallots
  Goals <- MCGoals
  MaxRanked = 1
  MaxSeasons = 2
  Clients = {"reader"}
  Closers = {"one", "two"}
  Discords = {1}
  Accounts = {1}
  Icons = {1, 2}
  MaxPending = 1
  MAX_ATTEMPTS = 3
  Squads <- MCSquads
  LineOf <- MCLines
  Age <- MCAges
  Ratings = {49, 80}
  Quota <- MCQuota
  LINEUP_SIZE = 2
  MIN_SQUAD = 2
  MIN_MATCHES = 2
  Draftable = {"a1"}
  MaxRounds = 2
  MaxFailures = 1
  Callers = {"a", "b", "c"}
  Modes = {"Aleatorio", "Livre", "Balanceado"}
  playersPerTeam = 1
  MaxWaiting = 2
  Guests = {1, 2}
  Messages = {1}
  Managers = {1, 2}
  Rosters = {"A", "B"}
  Manager <- MCManager
  Picked = {"x", "y"}
  Formations = {1}
  Sizes = {2}
  FIELD = 1
  Credentials <- MCCredentials
  Announcement = "news"
  MaxKeys = 3
  MaxSaves = 2
  MaxPeers = 2
  MaxGrants = 2
  MaxReboots = 1
  Askers = {1, 2}
  Features = {"analysis", "profile", "recap"}
  UNSUPPORTED_PARAMS = {"max_tokens"}
  MAX_RETRIES = 1
  MaxCalls = 2
INVARIANT TheLimitIsHeld
CHECK_DEADLOCK FALSE
