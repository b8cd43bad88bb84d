------------------------------- MODULE MakeDirs -------------------------------
(***************************************************************************)
(* The directory of the day, made by every process that logs when the day  *)
(* has changed (async_test fileutils.c).  tlog_mkdir_with_parents goes     *)
(* along the path one part at a time and looks before it makes; other      *)
(* processes make the same directories, or files, between the two calls.   *)
(***************************************************************************)
EXTENDS Integers, Sequences

CONSTANTS Makers,   \* processes that log
          Asked     \* calls: a path, a sequence of names; and is it from the root

ASSUME MakeAssumption ==
    Asked \subseteq [path : Seq(STRING), absolute : BOOLEAN] /\ \A a \in Asked : Len(a.path) > 0

VARIABLES dirs,   \* the directories there are, as paths from the working directory
          files,  \* and the files
          call    \* per process: the call it is in, or the last one

makevars == <<dirs, files, call>>

Prefix(path, n) == SubSeq(path, 1, n)

Exists(path) == path \in dirs \cup files
Reachable(path) == Len(path) = 1 \/ Prefix(path, Len(path) - 1) \in dirs

NoCall == [path |-> <<>>, absolute |-> FALSE, at |-> 1, step |-> "none", before |-> {}]

MakeInit == dirs = {} /\ files = {} /\ call = [p \in Makers |-> NoCall]

InCall(p) == call[p].step \in {"look", "make"}
Part(p) == Prefix(call[p].path, call[p].at)

Mkdir(p, a) ==
    /\ ~InCall(p)
    /\ call' = [call EXCEPT ![p] =
          [path |-> a.path, absolute |-> a.absolute, at |-> 1, step |-> "look", before |-> files]]
    /\ UNCHANGED <<dirs, files>>

To(p, step) == call' = [call EXCEPT ![p].step = step]

\* on to the next part, or done
Onward(p) ==
    LET this == call[p]
    IN  call' = [call EXCEPT ![p] = IF this.at = Len(this.path) THEN [this EXCEPT !.step = "ok"]
                                    ELSE [this EXCEPT !.at = this.at + 1, !.step = "look"]]

\* a bug: what is there is taken for a directory
NoDirectoryNever(path) == FALSE

NoDirectory(path) == path \notin dirs

\* tlog_is_absolute_path compares a truth value with '/', so the slashes are not
\* skipped, the first part is the name "", and mkdir refuses it
FromRoot(p) == call[p].absolute

\* tlog_file_test
Look(p) ==
    /\ call[p].step = "look"
    /\ \/ FromRoot(p) /\ To(p, "failed")
       \/ ~FromRoot(p) /\ ~Exists(Part(p)) /\ To(p, "make")
       \/ ~FromRoot(p) /\ Exists(Part(p)) /\ NoDirectory(Part(p)) /\ To(p, "failed")
       \/ ~FromRoot(p) /\ Exists(Part(p)) /\ ~NoDirectory(Part(p)) /\ Onward(p)
    /\ UNCHANGED <<dirs, files>>

\* a bug: that another process was faster is an error
RefusedIfThere(path) == Exists(path) \/ ~Reachable(path)

\* mkdir fails with another error than EEXIST: a parent is missing or is a file
Refused(path) == ~Reachable(path)

Make(p) ==
    /\ call[p].step = "make"
    /\ IF Refused(Part(p)) THEN To(p, "failed") /\ UNCHANGED dirs
       ELSE Onward(p) /\ dirs' = dirs \cup ({Part(p)} \ files)
    /\ UNCHANGED files

\* The system refuses it: no permission, no space, a name too long, no memory.
Denied(p) == call[p].step = "make" /\ To(p, "denied") /\ UNCHANGED <<dirs, files>>

\* another program makes a file
PutFile(path) ==
    /\ ~Exists(path) /\ Reachable(path)
    /\ files' = files \cup {path} /\ UNCHANGED <<dirs, call>>

MakeNext ==
    \/ \E p \in Makers : (\E a \in Asked : Mkdir(p, a)) \/ Look(p) \/ Make(p) \/ Denied(p)
    \/ \E a \in Asked : \E n \in 1..Len(a.path) : PutFile(Prefix(a.path, n))

MakeSpec == MakeInit /\ [][MakeNext]_makevars
-----------------------------------------------------------------------------
(* Properties.                                                             *)

\* When it returns 0 the path is a directory, unless a file came in its place
\* after the call began (fileutils.c:100-114).
MadeWhenTold ==
    \A p \in Makers : call[p].step = "ok" =>
        call[p].path \in dirs \/ call[p].path \in files \ call[p].before

\* Processes that make the same directories never make each other fail: a call
\* fails for a file in the way only, or for a path from the root, which fails
\* always, or because the system denied it a directory (fileutils.c:12-15, 88-114).
FailsForAFile ==
    \A p \in Makers :
        /\ call[p].step = "failed" =>
              call[p].absolute \/ \E n \in 1..Len(call[p].path) : Prefix(call[p].path, n) \in files
        /\ call[p].step = "ok" => ~call[p].absolute

\* What a caller is told of its directory is so, and others that make the same
\* one do not disturb it (fileutils.c:77-125).
DirsMade == MadeWhenTold /\ FailsForAFile
=============================================================================
