--------------------------------- MODULE Filesystem --------------------------
(***************************************************************************)
(* Files of the workspace: those the tools of an agent write, and those    *)
(* the routes of the server do. The two parts have no state in common.     *)
(***************************************************************************)
EXTENDS Integers, FiniteSets, Sequences

-----------------------------------------------------------------------------
(***************************************************************************)
(* The filesystem engine (tools/filesystem.py): a file is backed up before *)
(* it is changed, and written to a temporary file that is then moved over  *)
(* it.  The model goes by system calls, so that a crash or an error may    *)
(* fall between any two, and two engines may work on the same file.  A     *)
(* content is a version number, Torn half of one, None no file.            *)
(***************************************************************************)

CONSTANTS
    Engines,        \* processes that use the workspace
    MaxVersions,    \* bound: contents written
    MaxFileCrashes  \* bound: crashes of an engine

ASSUME SafeFilesAssumption == MaxVersions \in Nat \ {0} /\ MaxFileCrashes \in Nat

VARIABLES
    file,           \* the file
    backup,         \* its copy below .rann_backup
    copySource,     \* the file safe_copy reads, 1 at the start
    op,             \* what each engine does and is about to do
    temps,          \* temporary files: those in use and those left behind
    versions,       \* contents made so far
    fileCrashes,
    lastWhole,      \* history: the content the file last held in full
    exposed         \* history: a torn file was backed up over its own copy, a
                    \* move without a backup had to copy, or engines overlapped

fileVars == <<file, backup, copySource, op, temps, versions, fileCrashes, lastWhole, exposed>>

NoFile == 0
Torn == -1
Contents == 1..MaxVersions
NoOp == [kind |-> "none", at |-> "none", content |-> NoFile]

\* "overwrite" is safe_write with create_backup=False.
FileOps == {"write", "overwrite", "patch", "copy", "delete"}
Writing == {"write", "overwrite", "patch"}

SafeFilesTypeOK ==
    /\ file \in Contents \cup {NoFile, Torn}
    /\ backup \in Contents \cup {NoFile, Torn}
    /\ \A e \in Engines :
          /\ op[e].kind \in FileOps \cup {"none"}
          /\ op[e].at \in {"none", "read", "backup", "backing", "temp", "move", "copy",
                           "copying", "tidy", "unlink"}
          /\ op[e].content \in Contents \cup {NoFile}
    /\ temps \subseteq Contents
    /\ versions \in 1..MaxVersions
    /\ lastWhole \in Contents \cup {NoFile}

SafeFilesInit ==
    /\ file = NoFile /\ backup = NoFile
    /\ copySource = 1 /\ versions = 1
    /\ op = [e \in Engines |-> NoOp]
    /\ temps = {}
    /\ fileCrashes = 0
    /\ lastWhole = NoFile
    /\ exposed = FALSE

Busy == {e \in Engines : op[e] # NoOp}
Goes(e, at) == op' = [op EXCEPT ![e].at = at]
Finishes(e) == op' = [op EXCEPT ![e] = NoOp]

(* safe_write, safe_patch, safe_copy and safe_delete begin. *)
BeginFileOp(e, kind) ==
    /\ op[e] = NoOp
    /\ kind \in Writing => versions < MaxVersions
    /\ kind \in {"patch", "delete"} => file # NoFile
    /\ versions' = IF kind \in Writing THEN versions + 1 ELSE versions
    /\ op' = [op EXCEPT ![e] = [kind |-> kind,
          at |-> CASE kind = "patch" -> "read" [] kind = "overwrite" -> "temp"
                   [] OTHER -> "backup",
          content |-> CASE kind \in Writing -> versions + 1
                        [] kind = "copy" -> copySource [] OTHER -> NoFile]]
    /\ exposed' = (exposed \/ Busy # {})
    /\ UNCHANGED <<file, backup, copySource, temps, fileCrashes, lastWhole>>

(* safe_patch reads the file and finds old_string in it. *)
ReadForPatch(e) ==
    /\ op[e].at = "read" /\ file # NoFile
    /\ Goes(e, "backup")
    /\ UNCHANGED <<file, backup, copySource, temps, versions, fileCrashes, lastWhole, exposed>>

(* What follows the backup, and what is done when there is nothing to save. *)
AfterBackup(kind) ==
    CASE kind \in Writing -> "temp" [] kind = "copy" -> "copy" [] kind = "delete" -> "unlink"

(* shutil.copy2 truncates the backup and fills it, whatever the file holds. *)
BeginBackup(e) ==
    /\ op[e].at = "backup"
    /\ IF file = NoFile
       THEN /\ IF op[e].kind = "delete" THEN Finishes(e) ELSE Goes(e, AfterBackup(op[e].kind))
            /\ UNCHANGED <<backup, exposed>>
       ELSE /\ backup' = Torn
            /\ exposed' = (exposed \/ file = Torn)
            /\ Goes(e, "backing")
    /\ UNCHANGED <<file, copySource, temps, versions, fileCrashes, lastWhole>>

EndBackup(e) ==
    /\ op[e].at = "backing"
    /\ backup' \in IF Busy = {e} THEN {file} ELSE 1..versions \cup {Torn}
    /\ Goes(e, AfterBackup(op[e].kind))
    /\ UNCHANGED <<file, copySource, temps, versions, fileCrashes, lastWhole, exposed>>

(* The temporary file; a write to it that fails leaves it behind. *)
WriteTemp(e, ok) ==
    /\ op[e].at = "temp"
    /\ temps' = temps \cup {op[e].content}
    /\ IF ok THEN Goes(e, "move") ELSE Finishes(e)
    /\ UNCHANGED <<file, backup, copySource, versions, fileCrashes, lastWhole, exposed>>

(* shutil.move renames it over the file ... *)
MoveTemp(e) ==
    /\ op[e].at = "move"
    /\ temps' = temps \ {op[e].content}
    /\ file' = op[e].content /\ lastWhole' = op[e].content
    /\ Finishes(e)
    /\ UNCHANGED <<backup, copySource, versions, fileCrashes, exposed>>

(* ... or, when that raises, copies it into the file and removes it. *)
MoveByCopy(e) ==
    /\ op[e].at = "move"
    /\ file' = Torn
    /\ exposed' = (exposed \/ (op[e].kind = "overwrite" /\ file > NoFile))
    /\ Goes(e, "copying")
    /\ UNCHANGED <<backup, copySource, temps, versions, fileCrashes, lastWhole>>

(* safe_copy copies into the file itself. *)
BeginCopy(e) ==
    /\ op[e].at = "copy"
    /\ file' = Torn
    /\ Goes(e, "copying")
    /\ UNCHANGED <<backup, copySource, temps, versions, fileCrashes, lastWhole, exposed>>

(* Either copy is over; another engine may have written into the same file or
   moved its own over it (as another engine may in EndBackup). *)
EndCopy(e) ==
    /\ op[e].at = "copying"
    /\ file' \in {op[e].content} \cup (IF Busy = {e} THEN {} ELSE {file, Torn})
    /\ lastWhole' = IF file' = op[e].content THEN op[e].content ELSE lastWhole
    /\ IF op[e].kind = "copy" THEN Finishes(e) ELSE Goes(e, "tidy")
    /\ UNCHANGED <<backup, copySource, temps, versions, fileCrashes, exposed>>

RemoveTemp(e) ==
    /\ op[e].at = "tidy"
    /\ temps' = temps \ {op[e].content}
    /\ Finishes(e)
    /\ UNCHANGED <<file, backup, copySource, versions, fileCrashes, lastWhole, exposed>>

Unlink(e) ==
    /\ op[e].at = "unlink"
    /\ file' = NoFile
    /\ Finishes(e)
    /\ UNCHANGED <<backup, copySource, temps, versions, fileCrashes, lastWhole, exposed>>

(* A step raises, a copy half way through included: what it was copying stays
   as it is, and only the temporary file of a failed move is removed. *)
StepRaises(e) ==
    /\ op[e] # NoOp /\ op[e].at # "tidy"
    /\ temps' = IF op[e].at \in {"move", "copying"} THEN temps \ {op[e].content} ELSE temps
    /\ Finishes(e)
    /\ UNCHANGED <<file, backup, copySource, versions, fileCrashes, lastWhole, exposed>>

(* The process dies; what it was copying stays as it is. *)
EngineDies(e) ==
    /\ op[e] # NoOp /\ fileCrashes < MaxFileCrashes
    /\ fileCrashes' = fileCrashes + 1
    /\ Finishes(e)
    /\ UNCHANGED <<file, backup, copySource, temps, versions, lastWhole, exposed>>

SafeFilesNext ==
    \E e \in Engines :
        \/ \E kind \in FileOps : BeginFileOp(e, kind)
        \/ ReadForPatch(e)
        \/ BeginBackup(e) \/ EndBackup(e)
        \/ \E ok \in BOOLEAN : WriteTemp(e, ok)
        \/ MoveTemp(e) \/ MoveByCopy(e)
        \/ BeginCopy(e) \/ EndCopy(e) \/ RemoveTemp(e)
        \/ Unlink(e)
        \/ StepRaises(e) \/ EngineDies(e)
-----------------------------------------------------------------------------

\* Whatever step raises and wherever an engine dies, the file or its backup is
\* the content the file last held in full.  The code itself gives this up in
\* three cases, after which nothing is claimed: an operation backs up a file
\* that an earlier copy left torn, over the last copy of its content; a write
\* without a backup has to copy; or two engines overlap.
LatestIsKept == ~exposed /\ lastWhole # NoFile => lastWhole \in {file, backup}

\* A file holds a content whose temporary file is still there only while a move
\* that had to copy is about to remove it, or an engine died before it could;
\* and what is moved is there in full.
TempsAreMoved ==
    /\ file \in temps => fileCrashes > 0 \/ \E e \in Engines : op[e].at = "tidy"
    /\ \A e \in Engines : op[e].at = "move" => op[e].content \in temps

-----------------------------------------------------------------------------
(***************************************************************************)
(* The file routes (api/files.py) and the project routes (api/projects.py) *)
(* on the workspace of one project.  A route runs without an await, so in  *)
(* one server process routes do not overlap; several processes do.  A path *)
(* is a sequence of names below the workspace, <<>> the workspace itself;  *)
(* a content is its number, 0 an empty file's.  Who asks is left out.      *)
(***************************************************************************)

CONSTANTS
    FilePaths,      \* paths the requests name, with all their prefixes but <<>>
    Servers,        \* server processes
    MaxContents     \* bound: contents written

PathNames == UNION {{p[i] : i \in DOMAIN p} : p \in FilePaths}

ASSUME FilesAssumption ==
    /\ MaxContents \in Nat
    /\ FilePaths \subseteq Seq(PathNames) \ {<<>>}
    /\ \A p \in FilePaths : \A n \in 1..Len(p) : SubSeq(p, 1, n) \in FilePaths

VARIABLES
    projectRow,     \* the row of projects is there
    tree,           \* what is at each path, and who has the file open
    routes,         \* what each server is in the middle of
    contentsMade,   \* contents made so far
    wanted,         \* history: contents written, not written over nor deleted
    usurped         \* history: contents a rename replaced after its check

filesVars == <<projectRow, tree, routes, contentsMade, wanted, usurped>>

AllPaths == FilePaths \cup {<<>>}
Under(p, q) == Len(p) <= Len(q) /\ SubSeq(q, 1, Len(p)) = p
Above(p) == {q \in AllPaths : Under(q, p) /\ q # p}
Below(p) == {q \in AllPaths : Under(p, q)}

Nowhere == [is |-> "nothing", content |-> 0, writers |-> {}]
Directory == [is |-> "directory", content |-> 0, writers |-> {}]
FileOf(c, ws) == [is |-> "file", content |-> c, writers |-> ws]
NoRequest == [does |-> "nothing", from |-> <<>>, to |-> <<>>, content |-> 0, disturbed |-> FALSE]

FilesTypeOK ==
    /\ projectRow \in BOOLEAN
    /\ tree \in [AllPaths -> {Nowhere, Directory} \cup
          [is : {"file"}, content : 0..MaxContents, writers : SUBSET Servers]]
    /\ routes \in [Servers -> [does : {"nothing", "write", "rename"}, from : AllPaths,
          to : AllPaths, content : 0..MaxContents, disturbed : BOOLEAN]]
    /\ contentsMade \in 0..MaxContents
    /\ wanted \subseteq 1..MaxContents /\ usurped \subseteq 1..MaxContents

FilesInit ==
    /\ projectRow = FALSE
    /\ tree = [p \in AllPaths |-> Nowhere]
    /\ routes = [s \in Servers |-> NoRequest]
    /\ contentsMade = 0
    /\ wanted = {} /\ usurped = {}

IsDir(p) == tree[p].is = "directory"
Exists(p) == tree[p].is # "nothing"
ContentsIn(paths) == {tree[q].content : q \in {r \in paths : tree[r].is = "file"}} \ {0}
Available(s) == projectRow /\ routes[s] = NoRequest

(* The others learn that the tree has changed under them. *)
Disturb(s) == [q \in Servers |-> IF q = s THEN NoRequest
                 ELSE [routes[q] EXCEPT !.disturbed = routes[q] # NoRequest]]

(* mkdir(parents=True, exist_ok=True) of the paths in dirs: it raises at a file. *)
CanMake(dirs) == \A q \in dirs : tree[q].is # "file"
WithDirs(dirs) == [q \in AllPaths |-> IF q \in dirs THEN Directory ELSE tree[q]]

-----------------------------------------------------------------------------
(* The project routes.                                                     *)

(* create_project: the directory, then the row, whose insertion may raise. *)
CreateProject ==
    /\ ~projectRow /\ ~Exists(<<>>)
    /\ tree' = [tree EXCEPT ![<<>>] = Directory]
    /\ projectRow' \in BOOLEAN
    /\ UNCHANGED <<routes, contentsMade, wanted, usurped>>

(* delete_project deletes the row; the files stay. *)
DeleteProject ==
    /\ projectRow /\ projectRow' = FALSE
    /\ UNCHANGED <<tree, routes, contentsMade, wanted, usurped>>

-----------------------------------------------------------------------------
(* The file routes.                                                        *)

(* write_file, and create_file with a content: the parents are made, the file
   is opened, which empties it, ... *)
BeginWriteFile(s, p) ==
    /\ Available(s) /\ contentsMade < MaxContents
    /\ p # <<>> /\ ~IsDir(p) /\ CanMake(Above(p))
    /\ contentsMade' = contentsMade + 1
    /\ wanted' = wanted \ ContentsIn({p})
    /\ tree' = [WithDirs(Above(p)) EXCEPT ![p] = FileOf(0, @.writers \cup {s})]
    /\ routes' = [Disturb(s) EXCEPT ![s] = [NoRequest EXCEPT !.does = "write", !.to = p,
                                                           !.content = contentsMade + 1]]
    /\ UNCHANGED <<projectRow, usurped>>

(* ... and filled, wherever another server has moved it; if that deleted or
   replaced it, the content goes nowhere. *)
EndWriteFile(s) ==
    LET opened == {p \in AllPaths : s \in tree[p].writers}
    IN  /\ routes[s].does = "write"
        /\ tree' = [p \in AllPaths |-> IF p \in opened
              THEN FileOf(routes[s].content, tree[p].writers \ {s}) ELSE tree[p]]
        /\ wanted' = IF opened = {} THEN wanted
                     ELSE (wanted \ ContentsIn(opened)) \cup {routes[s].content}
        /\ routes' = Disturb(s)
        /\ UNCHANGED <<projectRow, contentsMade, usurped>>

(* create_file without a content, or with one that is too large, which is
   found after touch(): a file or directory that is there stays as it is. *)
CreateEmpty(s, p, dir) ==
    /\ Available(s)
    /\ CanMake(Above(p) \cup (IF dir THEN {p} ELSE {}))
    /\ tree' = [WithDirs(Above(p)) EXCEPT ![p] =
          IF Exists(p) THEN @ ELSE IF dir THEN Directory ELSE FileOf(0, {})]
    /\ routes' = Disturb(s)
    /\ UNCHANGED <<projectRow, contentsMade, wanted, usurped>>

(* rename_move_file: the source is there, the destination is not; ... *)
BeginRename(s, p, q) ==
    /\ Available(s)
    /\ Exists(p) /\ ~Exists(q)
    /\ routes' = [routes EXCEPT ![s] =
          [does |-> "rename", from |-> p, to |-> q, content |-> 0, disturbed |-> FALSE]]
    /\ UNCHANGED <<projectRow, tree, contentsMade, wanted, usurped>>

(* rename(2): a file replaces a file and a directory an empty directory; a
   missing parent, a mismatch or a move into itself raises. *)
CanRename(p, q) ==
    /\ Exists(p) /\ p # <<>> /\ q # <<>> /\ ~Under(p, q)
    /\ IsDir(SubSeq(q, 1, Len(q) - 1))
    /\ Exists(q) => /\ tree[q].is = tree[p].is
                    /\ \A r \in Below(q) \ {q} : ~Exists(r)

(* The subtree of p as it looks at q; a path FilePaths does not list cannot be
   moved to. *)
Moved(p, q) == [r \in AllPaths |->
    IF Under(q, r)
    THEN LET old == p \o SubSeq(r, Len(q) + 1, Len(r))
         IN  IF old \in AllPaths THEN tree[old] ELSE Nowhere
    ELSE IF Under(p, r) THEN Nowhere ELSE tree[r]]
FitsIn(p, q) == \A r \in Below(p) :
    Exists(r) => (q \o SubSeq(r, Len(p) + 1, Len(r))) \in AllPaths

(* ... and it is moved, whatever is at the destination by now. *)
EndRename(s) ==
    LET p == routes[s].from
        q == routes[s].to
    IN  /\ routes[s].does = "rename" /\ FitsIn(p, q)
        /\ IF CanRename(p, q)
           THEN /\ tree' = Moved(p, q)
                /\ usurped' = IF routes[s].disturbed THEN usurped \cup ContentsIn({q}) ELSE usurped
                /\ routes' = Disturb(s)
           ELSE UNCHANGED <<tree, usurped>> /\ routes' = [routes EXCEPT ![s] = NoRequest]
        /\ UNCHANGED <<projectRow, contentsMade, wanted>>

(* delete_file: a file is unlinked; rmtree goes from the leaves up and stops at
   what it cannot remove. *)
DeletePath(s, p) ==
    /\ Available(s) /\ Exists(p)
    /\ \E kept \in SUBSET {r \in Below(p) : Exists(r)} :
          /\ \A r \in kept : Above(r) \cap Below(p) \subseteq kept
          /\ tree' = [r \in AllPaths |-> IF r \in Below(p) \ kept THEN Nowhere ELSE tree[r]]
          /\ wanted' = wanted \ ContentsIn(Below(p) \ kept)
    /\ routes' = Disturb(s)
    /\ UNCHANGED <<projectRow, contentsMade, usurped>>

ServerDies(s) ==
    /\ routes[s] # NoRequest
    /\ routes' = [routes EXCEPT ![s] = NoRequest]
    /\ tree' = [p \in AllPaths |-> [tree[p] EXCEPT !.writers = @ \ {s}]]
    /\ UNCHANGED <<projectRow, contentsMade, wanted, usurped>>

FilesNext ==
    \/ CreateProject \/ DeleteProject
    \/ \E s \in Servers :
          \/ EndWriteFile(s) \/ EndRename(s) \/ ServerDies(s)
          \/ \E p \in FilePaths : BeginWriteFile(s, p)
          \/ \E p \in AllPaths, dir \in BOOLEAN : CreateEmpty(s, p, dir)
          \/ \E p, q \in AllPaths : BeginRename(s, p, q)
          \/ \E p \in AllPaths : DeletePath(s, p)

-----------------------------------------------------------------------------
(* Properties.                                                             *)

(* Whatever is written, moved and deleted, by several servers and with rmtree
   or a server stopping half way: what exists has its parent directories, and
   every content that was written, and neither written over nor deleted, is in
   one file, unless a rename found another server's file at its destination. *)
ContentsAreKept ==
    /\ \A p \in AllPaths : Exists(p) => \A q \in Above(p) : IsDir(q)
    /\ ContentsIn(AllPaths) = wanted \ usurped
    /\ \A p, q \in AllPaths : p # q /\ tree[p].is = "file" /\ tree[q].is = "file" =>
          tree[p].content = 0 \/ tree[p].content # tree[q].content

=============================================================================
