SPECIFICATION PartSpec
CONSTANTS
    a = a  b = b  c = c  p = p  q = q
    Workers = {a, b, c}  Listeners = {a}  Services <- MCServices  ServiceOf <- MCServiceOf
    SynMin = 1  SynMax = 1  Expire = 5  DelPeriod = 1
    BindEntries = {"w1", "w2"}  FirstEntry = "w1"  OnlineName <- MCOnlineName  OnlineId <- MCOnlineId
    Sos = {"v1", "v2", "bad"}  BootSo = "v1"  Incomplete = {"bad"}  MaxRequests = 2  MaxForks = 2
    Writers = {p, q}  AskedConfigs <- MCConfigs  FullDisk <- MCFullDisk  MaxLives <- MCMaxLives
    DAILY_MAX_FILES = 5  MIN_ONE_LOG_SIZE = 1  MAX_ONE_LOG_SIZE = 5  MAX_SLICE_NO = 2
    CHECK_DISKFULL_DUR = 2  Day = 4  HeadLen = 1  Start = 6  End = 9  MaxLines = 3  MaxSize = 7
    Makers = {p, q}  Asked <- MCAsked
    Given <- MCGiven  CONFIG_VAL_SIZE = 2  max_listen_fds = 2
    Bytes = 6  Capacity = 3  Totals = {1, 2, 3, 4}
    Fds = {1, 2}  MaxCalls = 3
    Len1 <- MCLen1  VarOf <- MCVarOf  ArgLists <- MCArgs  EnvLists <- MCEnvs
    Titles = {"t1", "t4", "t9"}  TITLE_SIZE = 9  MaxEnvCalls = 2  MaxExecs = 1
    EndFds = {1, 2, 3, 4}
SYMMETRY Symmetry
INVARIANTS NeverForgotten TableIsTrue NeverWithoutPlugin NoOldPlugin LogKept
INVARIANTS DirsMade FilesRead CallsClean TitleKept NothingUnsent
PROPERTIES LinesKept StreamKept
CHECK_DEADLOCK FALSE
