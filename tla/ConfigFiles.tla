------------------------------ MODULE ConfigFiles ------------------------------
(***************************************************************************)
(* What main reads before it forks: the configuration, line by line        *)
(* (async_test config.c), then the bind entries, from a file or, with a    *)
(* Lua configuration that names none, from a Lua table (bindconf.c).       *)
(* A line is its words and whether it is indented; a file is its lines and *)
(* whether the last of them has its newline.                               *)
(***************************************************************************)
EXTENDS Integers, Sequences, FiniteSets

CONSTANTS Given,           \* files to start with: [lua, conf, binds, rows]
          CONFIG_VAL_SIZE, \* words a value may have
          max_listen_fds

Blank == [indented |-> FALSE, words |-> <<>>]

\* what follows the last newline is no line if there is nothing
IsFile(file) == file.ended \/ (file.lines # <<>> /\ file.lines[Len(file.lines)] # Blank)

ASSUME ConfigAssumption ==
    /\ CONFIG_VAL_SIZE \in Nat /\ max_listen_fds \in Nat
    /\ \A g \in Given :
          /\ IsFile(g.conf) /\ IsFile(g.binds) /\ g.lua \in BOOLEAN /\ g.rows \in Seq(Seq(STRING))
          /\ {g.conf.lines, g.binds.lines} \subseteq Seq([indented : BOOLEAN, words : Seq(STRING)])

VARIABLES given,   \* the files
          stage,   \* "idle", "config", "bind", "lua", "running", "refused", "crashed"
          at,      \* the next line
          pairs,   \* ini_key_head: the value of each key
          configs, \* bindconf.configs up to bind_num; one more than it has room for
          rows     \* rows of async_server_bind_map lua_next has not come to

confvars == <<given, stage, at, pairs, configs, rows>>

Empty == [lines |-> <<>>, ended |-> TRUE]
NoFiles == [lua |-> FALSE, conf |-> Empty, binds |-> Empty, rows |-> <<>>]

ConfInit == given = NoFiles /\ stage = "idle" /\ at = 1 /\ pairs = [k \in {} |-> <<>>] /\ configs = <<>> /\ rows = {}

\* main: config_init comes first, read with the server's own parser in any form
ReadConfig ==
    /\ stage = "idle" /\ stage' = "config"
    /\ \E g \in Given : given' = g /\ rows' = DOMAIN g.rows
    /\ UNCHANGED <<at, pairs, configs>>

-----------------------------------------------------------------------------
(* Lines.                                                                  *)

\* only the very first character is looked at
IsComment(line) == ~line.indented /\ line.words # <<>> /\ Head(line.words) = "#"

\* str_split: the first words, the last field with all that follows it
str_split(words, n) ==
    [i \in 1..(IF Len(words) < n THEN Len(words) ELSE n) |->
        IF i < n THEN <<words[i]>> ELSE SubSeq(words, n, Len(words))]

Sets(line) == ~IsComment(line) /\ Len(str_split(line.words, 2)) = 2
KeyOf(line) == str_split(line.words, 2)[1][1]
ValueOf(line) == str_split(line.words, 2)[2]

IsEntry(line) == ~IsComment(line) /\ Len(str_split(line.words, 4)) = 4

\* the id and the port are read up to the first word
EntryOf(words) == [i \in 1..4 |-> str_split(words, 4)[i][1]]

-----------------------------------------------------------------------------
(* config.c: each line is appended or, if its key is there, updated.       *)

Fits(val) == Len(val) <= CONFIG_VAL_SIZE

AppendFails(k, val) == ~Fits(val) \/ k \in DOMAIN pairs

\* no pair of that key has another value
UpdateFails(k, val) ==
    ~Fits(val) \/ ~\E key \in DOMAIN pairs : key = k /\ pairs[key] # val

\* a bug: the first value of a key stays
WithPairFirst(k, val) ==
    [x \in DOMAIN pairs \cup {k} |-> IF x \in DOMAIN pairs THEN pairs[x] ELSE val]

WithPair(k, val) == [x \in DOMAIN pairs \cup {k} |-> IF x = k THEN val ELSE pairs[x]]

ConfigLine ==
    /\ stage = "config" /\ at <= Len(given.conf.lines)
    /\ LET line == given.conf.lines[at]
           k == KeyOf(line)
           val == ValueOf(line)
           fails == Sets(line) /\ AppendFails(k, val) /\ UpdateFails(k, val)
       IN  /\ stage' = IF fails THEN "refused" ELSE stage
           /\ at' = IF fails THEN at ELSE at + 1
           /\ pairs' = IF Sets(line) /\ ~fails THEN WithPair(k, val) ELSE pairs
    /\ UNCHANGED <<given, configs, rows>>

\* the end, a missing newline or not; then main looks for bind_conf
ConfigEnd ==
    /\ stage = "config" /\ at > Len(given.conf.lines)
    /\ stage' = IF "bind_conf" \in DOMAIN pairs THEN "bind"
                ELSE IF given.lua THEN "lua" ELSE "refused"
    /\ at' = IF stage' = "refused" THEN at ELSE 1
    /\ UNCHANGED <<given, pairs, configs, rows>>

-----------------------------------------------------------------------------
(* bindconf.c.                                                             *)

\* a bug: the number of entries is not looked at
TooManyNever(entries) == FALSE

\* looked at when the entry is written
TooMany(entries) == Len(entries) > max_listen_fds

\* the last line has no newline: strchr gives NULL, and start is NULL + 1
Unended == at = Len(given.binds.lines) /\ ~given.binds.ended

BindLine ==
    /\ stage = "bind" /\ at <= Len(given.binds.lines)
    /\ LET line == given.binds.lines[at]
       IN  /\ configs' = IF IsEntry(line) THEN Append(configs, EntryOf(line.words)) ELSE configs
           /\ stage' = IF TooMany(configs') THEN "refused"
                       ELSE IF Unended THEN "crashed" ELSE "bind"
    /\ at' = at + 1 /\ UNCHANGED <<given, pairs, rows>>

BindEnd ==
    /\ stage = "bind" /\ at > Len(given.binds.lines)
    /\ stage' = "running" /\ UNCHANGED <<given, at, pairs, configs, rows>>

\* a row of the table, in the order lua_next has; a value that is missing or of
\* another type is an error outside any protected call
BindRow(i) ==
    /\ stage = "lua" /\ i \in rows
    /\ LET row == given.rows[i]
           bad == Len(row) < 4 \/ Head(row) = "#"
       IN  /\ configs' = IF bad THEN configs ELSE Append(configs, EntryOf(row))
           /\ stage' = IF bad THEN "crashed" ELSE IF TooMany(configs') THEN "refused" ELSE "lua"
    /\ rows' = rows \ {i} /\ UNCHANGED <<given, at, pairs>>

RowsEnd ==
    /\ stage = "lua" /\ rows = {}
    /\ stage' = "running" /\ UNCHANGED <<given, at, pairs, configs, rows>>

ConfNext ==
    \/ ReadConfig \/ ConfigLine \/ ConfigEnd \/ BindLine \/ BindEnd
    \/ \E i \in rows : BindRow(i)
    \/ RowsEnd

ConfSpec == ConfInit /\ [][ConfNext]_confvars
-----------------------------------------------------------------------------
(* Properties.                                                             *)

Settings == {i \in DOMAIN given.conf.lines : Sets(given.conf.lines[i])}

\* line j sets the key of line i, and no line in between does
Again(i, j) ==
    /\ i < j /\ KeyOf(given.conf.lines[i]) = KeyOf(given.conf.lines[j])
    /\ ~\E k \in Settings : i < k /\ k < j /\ KeyOf(given.conf.lines[k]) = KeyOf(given.conf.lines[i])

\* The files, each setting in the order of the file, that config_init refuses.
Refusable ==
    \/ \E i \in Settings : ~Fits(ValueOf(given.conf.lines[i]))
    \/ \E i, j \in Settings :
          Again(i, j) /\ ValueOf(given.conf.lines[i]) = ValueOf(given.conf.lines[j])

\* When main goes on from the configuration every key has the value it was last
\* given, and none that no line gave it; a file is refused for a value that is
\* too long or said twice in a row, and for nothing else (config.c:27-117).
ConfigFaithful ==
    /\ stage \in {"bind", "lua", "running", "crashed"} =>
          /\ ~Refusable
          /\ DOMAIN pairs = {KeyOf(given.conf.lines[i]) : i \in Settings}
          /\ \A i \in Settings :
                \/ \E j \in Settings : Again(i, j)
                \/ pairs[KeyOf(given.conf.lines[i])] = ValueOf(given.conf.lines[i])
    /\ stage = "refused" /\ at <= Len(given.conf.lines) /\ configs = <<>> => Refusable

EntryLines == {i \in DOMAIN given.binds.lines : IsEntry(given.binds.lines[i])}
UpToLine(i) == Cardinality({j \in EntryLines : j <= i})

\* The servers that run are those of the file, in its order, or those of the
\* table; there are at most as many as there is room for, and a file that ends
\* without a newline never gets that far (bindconf.c:26-65, 92-129).
EntriesComplete ==
    stage = "running" =>
        /\ Len(configs) <= max_listen_fds
        /\ IF "bind_conf" \in DOMAIN pairs
           THEN /\ Len(configs) = Cardinality(EntryLines)
                /\ \A i \in EntryLines : configs[UpToLine(i)] = EntryOf(given.binds.lines[i].words)
                /\ given.binds.lines = <<>> \/ given.binds.ended
           ELSE \A row \in {EntryOf(given.rows[i]) : i \in DOMAIN given.rows} :
                   Cardinality({i \in DOMAIN configs : configs[i] = row})
                     = Cardinality({i \in DOMAIN given.rows : EntryOf(given.rows[i]) = row})

\* The server starts from what its two files say, or does not start
\* (config.c:27-117; bindconf.c:26-129).
FilesRead == ConfigFaithful /\ EntriesComplete
=============================================================================
