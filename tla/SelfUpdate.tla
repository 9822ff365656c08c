----------------------------- MODULE SelfUpdate -----------------------------
(***************************************************************************)
(* The self-update of the management server (cmd/mgr/download.go, the      *)
(* /download handler of cmd/mgr/mgr.go): the new image is written beside   *)
(* the executable, the old one is renamed to -bak and the new one takes    *)
(* its name, in separate system calls between which the process may die.   *)
(* Handlers run at once and share files that have the same name.           *)
(*                                                                         *)
(* os.Executable reads /proc/self/exe, which follows the running image when *)
(* it is renamed: the second download of one process finds its own image   *)
(* under the name with -bak.  A name is how many -bak it ends in and the   *)
(* version of a file that is not installed yet (0: none).                  *)
(***************************************************************************)
EXTENDS Naturals, FiniteSets

CONSTANTS
    Download,       \* concurrent /download requests
    MaxVer,         \* the versions that the repository server has
    Inode,          \* bound on files
    MaxBak          \* bound on the number of -bak in a name

VARIABLES
    dir,            \* the directory: Name -> inode, or 0
    image,          \* per inode: the version it holds, 0 while it is being written
    running,        \* the inode of the running process, 0 when there is none
    runName,        \* the name /proc/self/exe shows
    get,            \* per handler: its step, version, base name and open file
    exeLost         \* the second rename of an update of the executable failed (history)

suVars == <<dir, image, running, runName, get, exeLost>>

Name == [bak : 0 .. MaxBak + 1, ver : 0 .. MaxVer]
Exe == [bak |-> 0, ver |-> 0]
Bak(n) == [n EXCEPT !.bak = @ + 1]
New(n, v) == [n EXCEPT !.ver = v]
NoGet == [at |-> "idle", ver |-> 0, base |-> Exe, file |-> 0]

Init ==
    /\ dir = [n \in Name |-> IF n = Exe THEN 1 ELSE 0]
    /\ image = [i \in Inode |-> IF i = 1 THEN 1 ELSE 0]
    /\ running = 1
    /\ runName = Exe
    /\ get = [d \in Download |-> NoGet]
    /\ exeLost = FALSE

Goes(d, to) == get' = [get EXCEPT ![d] = [@ EXCEPT !.at = to]]
Returns(d) == get' = [get EXCEPT ![d] = NoGet]

\* rename(2): the target's old file is gone, the running image takes its name along.
Rename(from, to) ==
    /\ dir' = [dir EXCEPT ![to] = dir[from], ![from] = 0]
    /\ runName' = IF dir[from] = running THEN to ELSE runName

InUse == {dir[n] : n \in Name} \cup {get[d].file : d \in Download} \cup {running}

\* os.Executable and os.Create, which empties a file that is already there.
Create(d, v) ==
    /\ running # 0 /\ get[d] = NoGet /\ runName.bak <= MaxBak /\ Inode \ InUse # {}
    /\ LET path == New(runName, v)
           i == IF dir[path] # 0 THEN dir[path] ELSE CHOOSE j \in Inode : j \notin InUse
       IN   /\ dir' = [dir EXCEPT ![path] = i]
            /\ image' = [image EXCEPT ![i] = 0]
            /\ get' = [get EXCEPT ![d] = [at |-> "copy", ver |-> v, base |-> runName, file |-> i]]
    /\ UNCHANGED <<running, runName, exeLost>>

\* Fault: the error of io.Copy is not looked at.
CopyUnchecked(d) ==
    /\ get[d].at = "copy"
    /\ \/ image' = [image EXCEPT ![get[d].file] = get[d].ver]
       \/ UNCHANGED image
    /\ Goes(d, "remove")
    /\ UNCHANGED <<dir, running, runName, exeLost>>

\* The request and io.Copy; an error or another status leaves the file behind.
Copy(d) ==
    /\ get[d].at = "copy"
    /\ \/ image' = [image EXCEPT ![get[d].file] = get[d].ver] /\ Goes(d, "remove")
       \/ Returns(d) /\ UNCHANGED image
    /\ UNCHANGED <<dir, running, runName, exeLost>>

\* os.Remove(bakFile), whose error is ignored.
RemoveBak(d) ==
    /\ get[d].at = "remove"
    /\ dir' = [dir EXCEPT ![Bak(get[d].base)] = 0]
    /\ Goes(d, "old")
    /\ UNCHANGED <<image, running, runName, exeLost>>

\* os.Rename(exPath, bakFile), which fails when a file has gone, or for any
\* reason of the file system's.
RenameOld(d) ==
    /\ get[d].at = "old"
    /\ \/ dir[get[d].base] # 0 /\ Rename(get[d].base, Bak(get[d].base)) /\ Goes(d, "new")
       \/ Returns(d) /\ UNCHANGED <<dir, runName>>
    /\ UNCHANGED <<image, running, exeLost>>

\* os.Rename(newVersionPath, exPath).  When it fails the first rename is not
\* undone: the process runs on, and its executable is under the -bak name only.
RenameNew(d) ==
    LET new == New(get[d].base, get[d].ver)
    IN  /\ get[d].at = "new"
        /\ \/ dir[new] # 0 /\ Rename(new, get[d].base) /\ UNCHANGED exeLost
           \/ /\ exeLost' = (exeLost \/ get[d].base = Exe)
              /\ UNCHANGED <<dir, runName>>
        /\ Returns(d)
        /\ UNCHANGED <<image, running>>

\* The process dies, or is replaced by the hot upgrade's next one, which
\* tableflip starts from the path of the first: handlers in flight are lost.
Crash ==
    /\ running # 0
    /\ running' = 0
    /\ get' = [d \in Download |-> NoGet]
    /\ UNCHANGED <<dir, image, runName, exeLost>>

Start ==
    /\ running = 0
    /\ dir[Exe] # 0 /\ image[dir[Exe]] # 0
    /\ running' = dir[Exe]
    /\ runName' = Exe
    /\ UNCHANGED <<dir, image, get, exeLost>>

Next ==
    \/ Crash \/ Start
    \/ \E d \in Download :
         \/ \E v \in 2 .. MaxVer : Create(d, v)
         \/ Copy(d) \/ RemoveBak(d) \/ RenameOld(d) \/ RenameNew(d)

Spec == Init /\ [][Next]_suVars

-----------------------------------------------------------------------------
Whole(n) == dir[n] # 0 /\ image[dir[n]] # 0

\* With one download at a time, a crash or a failed rename at any point of an
\* update (download.go:50-64), after any number of updates and restarts, leaves a
\* complete image: under the executable's name, or, between the two renames,
\* under the name with -bak.  Only once the second rename has failed may later
\* downloads of the same process push it on to a name with more -bak.  A partial
\* image is never installed.
AlwaysAnImage ==
    \/ Whole(Exe)
    \/ dir[Exe] = 0 /\ Whole(Bak(Exe))
    \/ dir[Exe] = 0 /\ exeLost /\ \E n \in Name : n.ver = 0 /\ Whole(n)

OneAtATime == \A d, e \in Download : d = e

UpdateTypeOK ==
    /\ dir \in [Name -> Inode \cup {0}]
    /\ image \in [Inode -> Nat]
    /\ running \in Inode \cup {0}
    /\ runName \in Name
    /\ exeLost \in BOOLEAN
    /\ get \in [Download -> [at : {"idle", "copy", "remove", "old", "new"}, ver : 0 .. MaxVer,
                             base : Name, file : Inode \cup {0}]]

\* A file has one name, and /proc/self/exe shows the name of the running one,
\* which is complete.
NamesAreRight ==
    /\ \A m, n \in Name : (dir[m] = dir[n] /\ dir[m] # 0) => m = n
    /\ running # 0 => /\ dir[runName] = running /\ image[running] # 0
                      /\ runName.ver = 0

\* What a handler has done so far is still so: the running image is under the
\* name it started from or, between the renames, under the one with -bak.
HandlersAreRight ==
    \A d \in Download : get[d].at # "idle" =>
        LET base == get[d].base
        IN  /\ running # 0
            /\ base.bak <= MaxBak /\ base.ver = 0 /\ get[d].ver # 0
            /\ get[d].file # 0 /\ dir[New(base, get[d].ver)] = get[d].file
            /\ get[d].at # "copy" => image[get[d].file] # 0
            /\ IF get[d].at = "new" THEN dir[base] = 0 /\ runName = Bak(base)
               ELSE runName = base

\* Unless a second rename failed, the executable's name is free only between
\* the renames, or for good when the process died there.
ExeIsThere ==
    IF dir[Exe] # 0 THEN Whole(Exe)
    ELSE /\ Whole(Bak(Exe))
         /\ running = 0 \/ \E d \in Download : get[d].at = "new" /\ get[d].base = Exe

\* After that nothing takes the name again, and the running image is whole.
ExeIsGone ==
    /\ dir[Exe] = 0
    /\ \A d \in Download : get[d].at # "idle" => get[d].base # Exe
    /\ running = 0 => \E n \in Name : n.ver = 0 /\ Whole(n)

ExeIsRight == IF exeLost THEN ExeIsGone ELSE ExeIsThere

UpdateInv == UpdateTypeOK /\ NamesAreRight /\ HandlersAreRight /\ ExeIsRight
=============================================================================
