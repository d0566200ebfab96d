-------------------------- MODULE WorkspaceBrowser --------------------------
(***************************************************************************)
(* The browser of a thread's workspace: the bridge's reads, confined to    *)
(* the workspace root it keeps for the thread, and the client's hook with  *)
(* its tree of folders, its preview and the paths it is asked to open.     *)
(* The root holds one entry, "t", that may change under the reader, and a  *)
(* file "g".                                                               *)
(***************************************************************************)
EXTENDS Naturals, FiniteSets

CONSTANTS
  Openers,  \* the paths asked for by the thread's messages, one after the other
  MaxFiles, \* bound on the files loaded
  MaxLists  \* bound on the listings asked for

VARIABLES
  workDisk,     \* what "t" is now
  workFolders,  \* directories of the hook: status of each, and what the root's entries say of "t"
  workLists,    \* listings in flight, and whether directoryRequestRef holds the folder
  workOpeners,  \* the runs of openRequestedPath
  workPreview,  \* selected file, preview and fileRequestIdRef
  workReads,    \* file reads in flight
  workAsked     \* number of listings asked for

workVars == <<workDisk, workFolders, workLists, workOpeners, workPreview, workReads, workAsked>>

Folders == {"root", "t"}
Kinds == {"file", "directory", "outside", "gone"}
Files == {"t", "g"}
Waiting == {"root", "parent", "probe", "chainRoot", "chain"}

WorkTypeOK ==
  /\ workDisk \in Kinds
  /\ workFolders \in [status : [Folders -> {"none", "loading", "ready", "error"}],
                      entry : Kinds \cup {"unlisted"}]
  /\ workLists \in [flying : [Folders -> 0 .. MaxLists], held : [Folders -> BOOLEAN]]
  /\ workOpeners \in [Openers -> [at : Waiting \cup {"new", "done"}, target : Files \cup {"root"},
                                  kind : {"auto", "file"}]]
  /\ workPreview \in [id : 0 .. MaxFiles + Cardinality(Openers), selected : Files \cup {"none"},
                      status : {"idle", "loading", "ready", "error"}, path : Files \cup {"none"}]
  /\ workReads \subseteq [id : 1 .. MaxFiles + Cardinality(Openers), path : Files]
  /\ workAsked \in 0 .. MaxLists

WorkInit ==
  /\ workDisk = "file"
  /\ workFolders = [status |-> [f \in Folders |-> "none"], entry |-> "unlisted"]
  /\ workLists = [flying |-> [f \in Folders |-> 0], held |-> [f \in Folders |-> FALSE]]
  /\ workOpeners = [o \in Openers |-> [at |-> "new", target |-> "root", kind |-> "auto"]]
  /\ workPreview = [id |-> 0, selected |-> "none", status |-> "idle", path |-> "none"]
  /\ workReads = {} /\ workAsked = 0

-----------------------------------------------------------------------------
(* The bridge                                                              *)

DiskChanges ==
  /\ workDisk' \in Kinds \ {workDisk}
  /\ UNCHANGED <<workFolders, workLists, workOpeners, workPreview, workReads, workAsked>>

\* A path that leaves the root once its links are resolved is refused, as is
\* one of another kind.
resolveTarget(path, expected) ==
  CASE path = "root" -> expected = "directory"
    [] path = "g" -> expected = "file"
    [] OTHER -> workDisk = expected

-----------------------------------------------------------------------------
(* Folders                                                                 *)

Asks(f) ==
  /\ workAsked < MaxLists
  /\ workAsked' = workAsked + 1
  /\ workFolders' = [workFolders EXCEPT !.status[f] = "loading"]
  /\ workLists' = [workLists EXCEPT !.flying[f] = @ + 1, !.held[f] = TRUE]

\* A folder that is ready, or asked for, is not asked for again.
ensureDirectory(f) ==
  IF workFolders.status[f] = "ready" \/ workLists.held[f]
  THEN UNCHANGED <<workFolders, workLists, workAsked>> ELSE Asks(f)

handleRetryDirectory(f) ==
  /\ workFolders.status[f] = "error"
  /\ Asks(f)
  /\ UNCHANGED <<workDisk, workOpeners, workPreview, workReads>>

handleToggleDirectory(f) ==
  /\ ensureDirectory(f)
  /\ workPreview' = [workPreview EXCEPT !.selected = "none"]
  /\ UNCHANGED <<workDisk, workOpeners, workReads>>

\* Whichever listing of the folder ends, its outcome is shown and the folder
\* is no longer held.
ListEnds(f, status, entry) ==
  /\ workLists.flying[f] > 0
  /\ workFolders' = [status |-> [workFolders.status EXCEPT ![f] = status], entry |-> entry]
  /\ workLists' = [workLists EXCEPT !.flying[f] = @ - 1, !.held[f] = FALSE]
  /\ UNCHANGED <<workDisk, workOpeners, workPreview, workReads, workAsked>>

ListReturns(f) ==
  /\ resolveTarget(f, "directory")
  /\ ListEnds(f, "ready", IF f = "root" THEN workDisk ELSE workFolders.entry)

\* Faulty: the folder that could not be listed is left as it was.
ListFailsUnseen(f) == ListEnds(f, workFolders.status[f], workFolders.entry)

ListFails(f) == ListEnds(f, "error", workFolders.entry)

-----------------------------------------------------------------------------
(* Files                                                                   *)

loadFile(path) ==
  /\ workPreview' = [id |-> workPreview.id + 1, selected |-> path, status |-> "loading", path |-> path]
  /\ workReads' = workReads \cup {[id |-> workPreview.id + 1, path |-> path]}

SelectFile(path) ==
  /\ workPreview.id < MaxFiles
  /\ loadFile(path)
  /\ UNCHANGED <<workDisk, workFolders, workLists, workOpeners, workAsked>>

\* Faulty: an answer that was overtaken is shown.
IsLatestAny(read) == TRUE

IsLatest(read) == read.id = workPreview.id

ReadReturns ==
  /\ \E read \in workReads :
       /\ workReads' = workReads \ {read}
       /\ workPreview' =
            IF IsLatest(read)
            THEN [workPreview EXCEPT !.path = read.path,
                                     !.status = IF resolveTarget(read.path, "file") THEN "ready" ELSE "error"]
            ELSE workPreview
  /\ UNCHANGED <<workDisk, workFolders, workLists, workOpeners, workAsked>>

-----------------------------------------------------------------------------
(* openRequestedPath: each step starts a listing or finds one, and the     *)
(* next comes when that is over                                            *)

Steps(o, at) == workOpeners' = [workOpeners EXCEPT ![o].at = at]
Over(f) == workLists.flying[f] = 0 \/ workFolders.status[f] = "ready"

openRequestedPath(o, target, kind) ==
  /\ workOpeners[o].at = "new"
  /\ \A p \in Openers : p < o => workOpeners[p].at # "new"
  /\ workOpeners' = [workOpeners EXCEPT ![o] = [at |-> IF target = "root" THEN "chainRoot" ELSE "root",
                                                target |-> target, kind |-> kind]]
  /\ ensureDirectory("root")
  /\ UNCHANGED <<workDisk, workPreview, workReads>>

RootListed(o) ==
  /\ workOpeners[o].at = "root" /\ Over("root")
  /\ IF workOpeners[o].kind = "file"
     THEN /\ Steps(o, "done") /\ loadFile(workOpeners[o].target)
          /\ UNCHANGED <<workFolders, workLists, workAsked>>
     ELSE /\ Steps(o, "parent") /\ ensureDirectory("root")
          /\ UNCHANGED <<workPreview, workReads>>
  /\ UNCHANGED workDisk

Entry(target) ==
  CASE target = "g" -> IF workFolders.entry = "unlisted" THEN "unlisted" ELSE "file"
    [] target # "g" /\ workFolders.entry \in {"unlisted", "gone"} -> "unlisted"
    [] OTHER -> IF workFolders.entry = "directory" THEN "directory" ELSE "file"

\* The entry says what the target is; without one the bridge is asked.
resolveRequestedTargetKind(o) ==
  /\ workOpeners[o].at = "parent" /\ Over("root")
  /\ LET entry == Entry(workOpeners[o].target)
     IN  CASE entry = "unlisted" -> /\ Steps(o, "probe")
                                    /\ UNCHANGED <<workFolders, workLists, workAsked, workPreview, workReads>>
           [] entry = "directory" -> /\ Steps(o, "chainRoot") /\ ensureDirectory("root")
                                     /\ UNCHANGED <<workPreview, workReads>>
           [] OTHER -> /\ Steps(o, "done") /\ loadFile(workOpeners[o].target)
                       /\ UNCHANGED <<workFolders, workLists, workAsked>>
  /\ UNCHANGED workDisk

probeDirectory(o) ==
  /\ workOpeners[o].at = "probe"
  /\ \/ /\ resolveTarget(workOpeners[o].target, "directory")
        /\ Steps(o, "chainRoot") /\ ensureDirectory("root")
        /\ UNCHANGED <<workPreview, workReads>>
     \/ /\ Steps(o, "done") /\ loadFile(workOpeners[o].target)
        /\ UNCHANGED <<workFolders, workLists, workAsked>>
  /\ UNCHANGED workDisk

expandDirectoryChain(o) ==
  /\ workOpeners[o].at = "chainRoot" /\ Over("root") /\ workOpeners[o].target = "t"
  /\ Steps(o, "chain") /\ ensureDirectory("t")
  /\ UNCHANGED <<workDisk, workPreview, workReads>>

openDirectory(o) ==
  /\ \/ workOpeners[o].at = "chain" /\ Over("t")
     \/ workOpeners[o].at = "chainRoot" /\ workOpeners[o].target = "root" /\ Over("root")
  /\ Steps(o, "done")
  /\ workPreview' = [id |-> workPreview.id + 1, selected |-> "none", status |-> "idle", path |-> "none"]
  /\ UNCHANGED <<workDisk, workFolders, workLists, workReads, workAsked>>

WorkNext ==
  \/ DiskChanges \/ ReadReturns
  \/ \E f \in Folders : \/ handleRetryDirectory(f) \/ handleToggleDirectory(f)
                        \/ ListReturns(f) \/ ListFails(f)
  \/ \E path \in Files : SelectFile(path)
  \/ \E o \in Openers : \/ RootListed(o) \/ resolveRequestedTargetKind(o) \/ probeDirectory(o)
                        \/ expandDirectoryChain(o) \/ openDirectory(o)
                        \/ \E target \in Files \cup {"root"}, kind \in {"auto", "file"} :
                             openRequestedPath(o, target, kind)

-----------------------------------------------------------------------------
(* Properties                                                              *)

\* Listings that are shared, forced and answered in any order never leave a
\* folder loading for good (ensureDirectory).
LoadingIsUnderWay ==
  \A f \in Folders : workFolders.status[f] = "loading" => workLists.flying[f] > 0

\* Reads that overtake each other, and directories opened meanwhile: the
\* preview is that of the file selected last, and one that is loading is still
\* being read (loadFile, openDirectory).
PreviewIsOfSelection ==
  /\ workPreview.selected # "none" => workPreview.path = workPreview.selected
  /\ workPreview.status = "loading" => \E read \in workReads : read.id = workPreview.id
=============================================================================
