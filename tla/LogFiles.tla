------------------------------- MODULE LogFiles -------------------------------
(***************************************************************************)
(* The log files of async_test (tlog.c): when write_to_logger goes on to   *)
(* another file, which one, and what it does when the disk is full.        *)
(*                                                                         *)
(* Each process keeps its own count of what it wrote, but files are opened *)
(* for appending by name: processes with the same prefix share them, one   *)
(* after the other when a worker is started again, or at the same time.    *)
(* Sizes are in units of a line, times in units of the shortest interval.  *)
(* One level of logging, so one logfile_t per process.                     *)
(***************************************************************************)
EXTENDS Integers, FiniteSets, Functions

CONSTANTS Writers,        \* processes of one prefix
          AskedConfigs,   \* what init_logger_ctrl_cfg is called with
          DAILY_MAX_FILES, MIN_ONE_LOG_SIZE, MAX_ONE_LOG_SIZE, MAX_SLICE_NO,
          CHECK_DISKFULL_DUR,
          Day,            \* the time a day takes
          HeadLen,        \* size of the first line of a file, at most a line
          Start, End,     \* bounds of the time
          MaxLives,       \* a bound for each configuration on the processes started
          FullDisk,       \* the configurations in which the disk may fill
          MaxLines, MaxSize   \* bounds on a process and on all files

ASSUME LogAssumption ==
    /\ {DAILY_MAX_FILES, MIN_ONE_LOG_SIZE, MAX_ONE_LOG_SIZE, MAX_SLICE_NO} \subseteq Nat
    /\ CHECK_DISKFULL_DUR \in Nat /\ HeadLen \in {0, 1} /\ Day \in Nat \ {0}
    /\ MaxLives \in [AskedConfigs -> Nat]
    /\ Start \in Nat /\ Start >= CHECK_DISKFULL_DUR /\ End \in Nat /\ End >= Start
    /\ AskedConfigs \subseteq [daily_max_files : Int, max_one_size : Nat,
                               stop_if_diskfull : BOOLEAN, time_slice_secs : Int]

VARIABLES ctrl_cfg, \* the configuration, the same in every process
          now,      \* the time
          full,     \* the disk is full
          logfile,  \* per process: its logfile_t, with status and last_check of logger
          size,     \* per file: its size; its domain is the files there are
          lives,    \* how many processes were started
          opened,   \* per process: files it opened this day
          failed    \* per process: when its last two writes to a full disk were

logvars == <<ctrl_cfg, now, full, logfile, size, lives, opened, failed>>

NoFile == <<>>

-----------------------------------------------------------------------------
(* Names.                                                                  *)

DayOf(t) == t \div Day

\* the time in a file's name: when the slice began, or now
SecondOf(t) ==
    LET secs == ctrl_cfg.time_slice_secs
    IN  (IF secs > 0 THEN (t \div secs) * secs ELSE t) % Day

Sized(f) == IF f \in DOMAIN size THEN size[f] ELSE 0

\* a bug: a new slice number is never looked for
SliceNoFirst(day, second) == 0

\* get_time_slice_no: the first file that is missing or has room; the last
\* number when there is none.  Without slices gen_timestring takes number 0.
SliceNo(day, second) ==
    LET room == {no \in 0..MAX_SLICE_NO - 1 : Sized(<<day, second, no>>) < ctrl_cfg.max_one_size}
    IN  IF ctrl_cfg.time_slice_secs = 0 THEN 0
        ELSE IF room = {} THEN MAX_SLICE_NO ELSE CHOOSE no \in room : \A m \in room : no <= m

FileName == <<DayOf(now), SecondOf(now), SliceNo(DayOf(now), SecondOf(now))>>

-----------------------------------------------------------------------------
(* Starting.                                                               *)

\* init_logger_ctrl_cfg, and the macros that set one of its fields
Accepted(c) ==
    /\ c.daily_max_files \in 0..DAILY_MAX_FILES
    /\ c.max_one_size \in MIN_ONE_LOG_SIZE..MAX_ONE_LOG_SIZE
    /\ c.time_slice_secs >= 0

NotInit == [status |-> "notinit", last_check |-> 0, fd |-> NoFile, file_len |-> 0,
            daily_seq |-> 0, time_slice_seq |-> 0, tm_yday |-> 0]

LogInit ==
    /\ ctrl_cfg \in {c \in AskedConfigs : Accepted(c)}
    /\ now = Start /\ full = FALSE
    /\ logfile = [p \in Writers |-> NotInit]
    /\ size = [f \in {} |-> 0]
    /\ lives = 0
    /\ opened = [p \in Writers |-> 0] /\ failed = [p \in Writers |-> <<0, 0>>]

\* init_logger: the whole structure is cleared
InitLogger(p) ==
    /\ lives < MaxLives[ctrl_cfg] /\ lives' = lives + 1
    /\ logfile' = [logfile EXCEPT ![p] = [NotInit EXCEPT !.status = "writing"]]
    /\ opened' = [opened EXCEPT ![p] = 0] /\ failed' = [failed EXCEPT ![p] = <<0, 0>>]
    /\ UNCHANGED <<ctrl_cfg, now, full, size>>

-----------------------------------------------------------------------------
(* is_need_shift_file and create_new_logfile.                              *)

Limited(lf) == ctrl_cfg.daily_max_files > 0 /\ lf.daily_seq >= ctrl_cfg.daily_max_files

SliceSeq == IF ctrl_cfg.time_slice_secs > 0 THEN now \div ctrl_cfg.time_slice_secs ELSE 0

\* a bug: without a limit on the size nothing else is looked at
NeedShiftBySize(lf) ==
    ~Limited(lf) /\ (lf.fd = NoFile \/ lf.file_len >= ctrl_cfg.max_one_size)

NeedShift(lf) ==
    /\ ~Limited(lf)
    /\ \/ lf.fd = NoFile
       \/ ctrl_cfg.time_slice_secs > 0 /\ SliceSeq # lf.time_slice_seq
       \/ lf.file_len >= ctrl_cfg.max_one_size
       \/ lf.tm_yday # DayOf(now)

\* a bug: the number of files starts anew with every file
ClearedDaily(lf) ==
    [lf EXCEPT !.time_slice_seq = SliceSeq, !.daily_seq = 0, !.tm_yday = DayOf(now),
               !.file_len = 0, !.fd = NoFile]

\* init_logfile
Cleared(lf) ==
    [lf EXCEPT !.time_slice_seq = IF ctrl_cfg.time_slice_secs > 0 THEN SliceSeq ELSE lf.time_slice_seq,
               !.daily_seq = IF lf.tm_yday # DayOf(now) THEN 0 ELSE lf.daily_seq,
               !.tm_yday = DayOf(now), !.file_len = 0, !.fd = NoFile]

\* a bug: the number of files is counted before the file is open
NotOpenedCounted(lf) == [Cleared(lf) EXCEPT !.daily_seq = @ + 1]

\* stat or open has failed, after the old file is closed
NotOpened(lf) == Cleared(lf)

Opened(lf) == [Cleared(lf) EXCEPT !.fd = FileName, !.daily_seq = Cleared(lf).daily_seq + 1]

Total == FoldFunction(+, 0, size)

Grown(f, n) == [g \in DOMAIN size \cup {f} |-> Sized(g) + (IF g = f THEN n ELSE 0)]

-----------------------------------------------------------------------------
(* write_to_logger.                                                        *)

\* a bug: when the disk was looked at is not noted
ResumedUntimed(lf) == [lf EXCEPT !.status = "writing"]

Resumed(lf) == [lf EXCEPT !.status = "writing", !.last_check = now]

\* The status is stop: the line goes to udp_sink only.
Suppress(p) ==
    /\ logfile[p].status = "stop"
    /\ logfile' = [logfile EXCEPT ![p] =
          IF now - logfile[p].last_check >= CHECK_DISKFULL_DUR THEN Resumed(logfile[p]) ELSE @]
    /\ UNCHANGED <<ctrl_cfg, now, full, size, lives, opened, failed>>

\* the directory of the day cannot be made: the old file stays open
MkdirFails(p) ==
    /\ logfile[p].status = "writing" /\ NeedShift(logfile[p])
    /\ UNCHANGED <<ctrl_cfg, now, full, logfile, size, lives, opened, failed>>

OpenFails(p) ==
    /\ logfile[p].status = "writing" /\ NeedShift(logfile[p])
    /\ logfile' = [logfile EXCEPT ![p] = NotOpened(logfile[p])]
    /\ UNCHANGED <<ctrl_cfg, now, full, size, lives, opened, failed>>

\* The line is written, with the first line of a new file before it; the error
\* that is not ENOSPC, or is not to stop the logger, only counts the length.
Write(p, fails) ==
    LET old == logfile[p]
        new == IF NeedShift(old) THEN Opened(old) ELSE old
        head == IF new.fd # NoFile /\ NeedShift(old) THEN HeadLen ELSE 0
        counted == [new EXCEPT !.file_len = new.file_len + 1]
    IN  /\ old.status = "writing" /\ Total < MaxSize /\ old.file_len < MaxLines
        /\ opened' = [opened EXCEPT ![p] = IF NeedShift(old) THEN @ + 1 ELSE @]
        /\ \/ /\ ~full /\ ~fails
              /\ size' = Grown(new.fd, head + 1)
              /\ logfile' = [logfile EXCEPT ![p] = counted] /\ UNCHANGED failed
           \/ /\ ~full /\ fails
              /\ size' = Grown(new.fd, head)
              /\ logfile' = [logfile EXCEPT ![p] = counted] /\ UNCHANGED failed
           \/ /\ full /\ size' = Grown(new.fd, 0)
              /\ IF ctrl_cfg.stop_if_diskfull
                 THEN /\ logfile' = [logfile EXCEPT ![p] = [new EXCEPT !.status = "stop"]]
                      /\ failed' = [failed EXCEPT ![p] = <<failed[p][2], now>>]
                 ELSE logfile' = [logfile EXCEPT ![p] = counted] /\ UNCHANGED failed
        /\ UNCHANGED <<ctrl_cfg, now, full, lives>>

Pass ==
    /\ now < End /\ now' = now + 1
    /\ opened' = [p \in Writers |-> IF DayOf(now') # DayOf(now) THEN 0 ELSE opened[p]]
    /\ UNCHANGED <<ctrl_cfg, full, logfile, size, lives, failed>>

DiskFills ==
    /\ ctrl_cfg \in FullDisk /\ full' = ~full
    /\ UNCHANGED <<ctrl_cfg, now, logfile, size, lives, opened, failed>>

LogNext ==
    \/ \E p \in Writers :
          \/ InitLogger(p) \/ Suppress(p) \/ MkdirFails(p) \/ OpenFails(p)
          \/ \E fails \in BOOLEAN : Write(p, fails)
    \/ Pass \/ DiskFills

LogSpec == LogInit /\ [][LogNext]_logvars
-----------------------------------------------------------------------------
(* Properties.                                                             *)

Slices == ctrl_cfg.time_slice_secs > 0
NoLimit == ctrl_cfg.daily_max_files = 0

\* Every variable has its type, and what a process has open exists.
LogTypeOK ==
    /\ ctrl_cfg \in AskedConfigs /\ now \in Start..End /\ full \in BOOLEAN
    /\ \A p \in Writers :
          /\ logfile[p].status \in {"notinit", "writing", "stop"}
          /\ logfile[p].fd \in DOMAIN size \cup {NoFile}
          /\ logfile[p].last_check \in 0..now
          /\ logfile[p].file_len \in Nat /\ logfile[p].daily_seq \in Nat
    /\ \A f \in DOMAIN size : size[f] \in Nat /\ f[3] \in 0..MAX_SLICE_NO

\* With time slices a file takes, from each process that has it open, at most a
\* first line and as much as the limit on the size lets through; the limit
\* itself is not kept, as a file that is appended to counts from 0
\* (tlog.c:36, 230-238, 356-359).
SizeBounded ==
    Slices /\ NoLimit =>
        LET each == HeadLen + ctrl_cfg.max_one_size
        IN  \A f \in DOMAIN size :
                f[3] < MAX_SLICE_NO => size[f] <= ctrl_cfg.max_one_size - 1 + lives * each

\* Of a step: a line goes to a file of its own day and slice, unless the process has had
\* its number of files (tlog.c:340-364).
RightFile ==
    \A f \in DOMAIN size' : f \notin DOMAIN size \/ size'[f] # Sized(f) =>
        \E p \in Writers :
           /\ logfile'[p].fd = f
           /\ \/ f[1] = DayOf(now) /\ (Slices => f[2] = SecondOf(now))
              \/ Limited(logfile[p])

\* A process opens no more files a day than it may (tlog.c:30-34, 336-343).
DailyCount == \A p \in Writers : NoLimit \/ opened[p] <= ctrl_cfg.daily_max_files

\* A process that has had its number of files has one open: no line is written
\* to a descriptor that is not (tlog.c:286-308, 340-346).
NeverDeadFd == \A p \in Writers : Limited(logfile[p]) => logfile[p].fd # NoFile

\* Of three attempts to write to a full disk the last comes at least
\* CHECK_DISKFULL_DUR after the first (tlog.c:458-467, 479-483).
AttemptsSpaced ==
    \A p \in Writers : failed'[p] # failed[p] /\ failed[p][1] # 0 /\ lives' = lives =>
        failed'[p][2] - failed[p][1] >= CHECK_DISKFULL_DUR

\* Between two lines: files keep to their limits, and the descriptor a process
\* has counted on is open (tlog.c:216-378).
LogKept == LogTypeOK /\ SizeBounded /\ DailyCount /\ NeverDeadFd

\* From line to line: each goes to its own file, and a full disk is left alone
\* for a while (tlog.c:332-378, 458-483).
LinesKept == [][RightFile /\ AttemptsSpaced]_logvars
=============================================================================
