------------------------------- MODULE MCParts -------------------------------
(***************************************************************************)
(* One instance of each of the modules that have no process in common with *)
(* the others: the first state picks the one that runs, and the others     *)
(* stay where they begin.  So each is checked as it would be alone.        *)
(***************************************************************************)
EXTENDS Registry, PluginReload, LogFiles, MakeDirs, ConfigFiles, TcpStream, TcpOpen, ProcTitle, WorkerEnd,
        TLC
CONSTANTS a, b, c, p, q

VARIABLE part  \* the module that runs

\* Registry: two workers of one entry, one of another, which listens
MCServices == {<<"s", 1>>, <<"s", 2>>}
MCServiceOf == [w \in Workers |-> IF w = a THEN <<"s", 1>> ELSE <<"s", 2>>]

\* PluginReload: workers of one name
MCOnlineName == [w \in BindEntries |-> "online"]
MCOnlineId == [w1 |-> 1, w2 |-> 2]

\* LogFiles: slices; a daily limit; both; more files than are allowed
Config(daily, size1, secs) ==
    [daily_max_files |-> daily, max_one_size |-> size1, stop_if_diskfull |-> TRUE, time_slice_secs |-> secs]
Sliced == Config(0, 2, 2)
MCConfigs == {Sliced, Config(2, 1, 0), Config(1, 1, 3), Config(9, 1, 3)}
MCFullDisk == MCConfigs \ {Sliced}
MCMaxLives == [g \in MCConfigs |-> IF g = Sliced THEN 2 ELSE 1]

\* MakeDirs
MCAsked == [path : {<<"log", "d1">>, <<"log", "d2">>, <<"log", "d1", "x">>}, absolute : BOOLEAN]

\* ConfigFiles: all short files of a few lines, of one kind at a time
Line(ws) == [indented |-> FALSE, words |-> ws]
Indented(ws) == [indented |-> TRUE, words |-> ws]
ConfLines ==
    {Blank, Line(<<"bind_conf", "f">>), Line(<<"bind_conf", "g">>), Line(<<"id", "f">>), Line(<<"id">>),
     Line(<<"id", "f", "g">>), Line(<<"id", "f", "g", "g">>), Line(<<"#", "id", "g">>),
     Indented(<<"#", "id", "f">>)}
BindLines ==
    {Line(<<"1", "on", "ip", "80">>), Line(<<"2", "on", "ip", "80", "x">>), Line(<<"1", "on">>),
     Line(<<"#", "on", "ip", "80">>), Indented(<<"#", "1", "on", "ip", "80">>)}
MCRows == {<<"1", "on", "ip", "80">>, <<"2", "on", "ip", "80">>, <<"1", "on">>}
UpTo(n, S) == UNION {[1..k -> S] : k \in 0..n}
FilesOf(n, S) == {f \in [lines : UpTo(n, S), ended : BOOLEAN] : IsFile(f)}
NamesBind == [lines |-> <<Line(<<"bind_conf", "f">>)>>, ended |-> TRUE]
MCGiven ==
    [lua : BOOLEAN, conf : FilesOf(3, ConfLines), binds : {Empty}, rows : {<<>>}]
    \cup [lua : {FALSE}, conf : {NamesBind}, binds : FilesOf(4, BindLines), rows : {<<>>}]
    \cup [lua : {TRUE}, conf : {Empty}, binds : {Empty}, rows : UpTo(3, MCRows)]

\* ProcTitle: a name longer than what there is, environments of up to three strings
MCLen1 == [prog |-> 2, x |-> 1, A1 |-> 1, A3 |-> 3, B2 |-> 2, C1 |-> 1, t1 |-> 1, t4 |-> 4, t9 |-> 9]
MCVarOf == [A1 |-> "A", A3 |-> "A", B2 |-> "B", C1 |-> "C"]
MCArgs == {<<"prog">>, <<"prog", "x">>}
MCEnvs == {<<>>, <<"A1">>, <<"A3", "B2">>, <<"A1", "B2", "C1">>}

Symmetry == Permutations({b, c})

-----------------------------------------------------------------------------
Parts == {"registry", "plugin", "log", "dirs", "files", "stream", "open", "title", "end"}

PartInit ==
    /\ part \in Parts
    /\ RegInit /\ PlugInit /\ LogInit /\ MakeInit /\ ConfInit /\ StreamInit /\ OpenInit /\ TitleInit /\ EndInit
    /\ part # "log" => ctrl_cfg = Sliced

PartNext ==
    /\ UNCHANGED part
    /\ \/ /\ part = "registry" /\ RegNext
          /\ UNCHANGED <<plugvars, logvars, makevars, confvars, streamvars, openvars, titlevars, endvars>>
       \/ /\ part = "plugin" /\ PlugNext
          /\ UNCHANGED <<regvars, logvars, makevars, confvars, streamvars, openvars, titlevars, endvars>>
       \/ /\ part = "log" /\ LogNext
          /\ UNCHANGED <<regvars, plugvars, makevars, confvars, streamvars, openvars, titlevars, endvars>>
       \/ /\ part = "dirs" /\ MakeNext
          /\ UNCHANGED <<regvars, plugvars, logvars, confvars, streamvars, openvars, titlevars, endvars>>
       \/ /\ part = "files" /\ ConfNext
          /\ UNCHANGED <<regvars, plugvars, logvars, makevars, streamvars, openvars, titlevars, endvars>>
       \/ /\ part = "stream" /\ StreamNext
          /\ UNCHANGED <<regvars, plugvars, logvars, makevars, confvars, openvars, titlevars, endvars>>
       \/ /\ part = "open" /\ OpenNext
          /\ UNCHANGED <<regvars, plugvars, logvars, makevars, confvars, streamvars, titlevars, endvars>>
       \/ /\ part = "title" /\ TitleNext
          /\ UNCHANGED <<regvars, plugvars, logvars, makevars, confvars, streamvars, openvars, endvars>>
       \/ /\ part = "end" /\ EndNext
          /\ UNCHANGED <<regvars, plugvars, logvars, makevars, confvars, streamvars, openvars, titlevars>>

PartSpec ==
    /\ PartInit
    /\ [][PartNext]_<<part, regvars, plugvars, logvars, makevars, confvars, streamvars, openvars, titlevars, endvars>>
=============================================================================
