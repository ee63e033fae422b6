-------------------------------- MODULE DepStore ------------------------------
(***************************************************************************)
(* The storage side of dep_manager.DepManager (dep_manager/dev.go):        *)
(* NewDep, Lint, Installed, Install and Uninstall over the file system.    *)
(*                                                                         *)
(* The manager serves one call at a time, in steps of which each may be    *)
(* the last before the program is killed: the file system survives, the    *)
(* call does not.  Users edit their own files at any time.                 *)
(*                                                                         *)
(* A path under the manager's directories is the name urlToFileName makes  *)
(* of a url.  What Lint finds out of a user's path, whether its directory  *)
(* begins with the manager's, is a constant.                               *)
(***************************************************************************)
CONSTANTS
  Urls,       \* remote urls of dependencies
  Branches,   \* branches of their repositories
  Names,      \* file names in the manager's directories
  FileName,   \* [Urls -> Names], urlToFileName
  LocalSrcs,  \* source directories given by users
  LocalBins,  \* binaries given by users
  OwnedSrcs,  \* those whose directory begins with manager.Src
  OwnedBins,  \* those whose directory begins with manager.Bin
  None        \* "", nil, or no file

\* What a source directory holds, and what a binary was built from: all or a part
\* of a revision.  A user's own source is of no url.
Code == [of : Urls \cup {None}, branch : Branches \cup {None}, whole : BOOLEAN]

UserCode == [of |-> None, branch |-> None, whole |-> TRUE]

\* The parameters of a *Dep.
Deps == [url : Urls, localSrc : LocalSrcs \cup {None}, localBin : LocalBins \cup {None},
         branch : Branches \cup {None}]

ASSUME PathsAssumption ==
  /\ FileName \in [Urls -> Names]
  /\ OwnedSrcs \subseteq LocalSrcs /\ OwnedBins \subseteq LocalBins
  /\ Names \cap (LocalSrcs \cup LocalBins) = {}
  /\ None \notin Names \cup LocalSrcs \cup LocalBins \cup Branches \cup Urls
  /\ None \notin Code \cup Deps

SrcPaths == Names \cup LocalSrcs
BinPaths == Names \cup LocalBins

VARIABLES
  src,     \* [SrcPaths -> Code or None]
  bin,     \* [BinPaths -> Code or None]
  phase,   \* where the manager is in its call
  dep,     \* the *Dep of the call, or None
  reply,   \* what the last call returned
  torn     \* history: names whose clone or deletion was broken off, and which were
           \* not deleted since

fileVars == <<src, bin>>
callVars == <<phase, dep, reply>>
vars == <<fileVars, callVars, torn>>

Phases == {"idle", "install", "uninstall", "download", "cloning", "tidy", "build",
           "delete source", "deleting", "delete binary"}
Replies == {"none", "bad dep", "not manageable", "no source", "check failed",
            "download failed", "build failed", "delete failed", "installed", "uninstalled"}

TypeOK ==
  /\ src \in [SrcPaths -> Code \cup {None}]
  /\ bin \in [BinPaths -> Code \cup {None}]
  /\ phase \in Phases
  /\ dep \in Deps \cup {None}
  /\ (phase # "idle") => (dep # None)
  /\ reply \in Replies
  /\ torn \subseteq Names

-----------------------------------------------------------------------------
(***************************************************************************)
(* What Lint sets in a *Dep.                                               *)
(***************************************************************************)
\* (A faulty variant of SrcPath: every url gets the directory of one.)
OneSrcPath(d) ==
  IF d.localSrc # None THEN d.localSrc ELSE FileName[CHOOSE u \in Urls : TRUE]

SrcPath(d) == IF d.localSrc # None THEN d.localSrc ELSE FileName[d.url]
BinPath(d) == IF d.localBin # None THEN d.localBin ELSE FileName[d.url]

ManageableSrc(d) == d.localSrc = None \/ d.localSrc \in OwnedSrcs
ManageableBin(d) == d.localBin = None \/ d.localBin \in OwnedBins

Installed(d) == bin[BinPath(d)] # None
SrcExist(d)  == src[SrcPath(d)] # None

\* NewDep refuses a local binary that does not exist and a local source
\* without a go.mod, which an incomplete one may lack.
LocalsExist(d) ==
  /\ d.localBin # None => bin[d.localBin] # None
  /\ d.localSrc # None => src[d.localSrc] # None
LocalsComplete(d) ==
  LocalsExist(d) /\ (d.localSrc # None => src[d.localSrc].whole)

Init ==
  /\ src = [p \in SrcPaths |-> None]
  /\ bin = [p \in BinPaths |-> None]
  /\ phase = "idle" /\ dep = None /\ reply = "none" /\ torn = {}

\* (A faulty variant of Return: the call goes on without its *Dep.)
ReturnKeepsPhase(outcome) == dep' = None /\ reply' = outcome /\ UNCHANGED phase

Return(outcome) == phase' = "idle" /\ dep' = None /\ reply' = outcome
Continue(next)  == phase' = next /\ UNCHANGED <<dep, reply>>

Torn   == IF dep.localSrc = None THEN torn \cup {SrcPath(dep)} ELSE torn
Mended == IF dep.localSrc = None THEN torn \ {SrcPath(dep)} ELSE torn

-----------------------------------------------------------------------------
(***************************************************************************)
(* Faulty variants of definitions below, to show that the properties of    *)
(* this module notice them (they are not part of the specification).       *)
(***************************************************************************)
\* deleteBin does not ask whether the binary is manageable.
DeleteAnyBin ==
  /\ phase = "delete binary"
  /\ bin' = [bin EXCEPT ![BinPath(dep)] = None]
  /\ Return("uninstalled")
  /\ UNCHANGED <<src, torn>>

\* Uninstall goes on when the deletion of the source has failed.
DeleteSrcFailsUnheeded ==
  /\ phase = "deleting"
  /\ Continue("delete binary")
  /\ UNCHANGED <<fileVars, torn>>

\* Uninstall takes a missing source for a missing dependency.
UninstallIfSource ==
  /\ phase = "uninstall"
  /\ \/ ManageableSrc(dep) /\ SrcExist(dep) /\ Continue("delete source")
     \/ ~(ManageableSrc(dep) /\ SrcExist(dep)) /\ Return("uninstalled")
  /\ UNCHANGED <<fileVars, torn>>

-----------------------------------------------------------------------------
(***************************************************************************)
(* A call makes its *Dep with NewDep and Lint, then installs or uninstalls.*)
(***************************************************************************)
NewDep(d, operation) ==
  /\ phase = "idle"
  /\ LocalsExist(d)
  /\ dep' = d /\ phase' = operation /\ reply' = "none"
  /\ UNCHANGED <<fileVars, torn>>

NewDepFails(d) ==
  /\ phase = "idle"
  /\ ~LocalsComplete(d)
  /\ Return("bad dep")
  /\ UNCHANGED <<fileVars, torn>>

-----------------------------------------------------------------------------
(***************************************************************************)
(* Install.                                                                *)
(***************************************************************************)
InstallCheck ==
  /\ phase = "install"
  /\ \/ ~ManageableBin(dep) /\ Return("not manageable")
     \/ ManageableBin(dep) /\ Return("check failed")
     \/ ManageableBin(dep) /\ SrcExist(dep) /\ Continue("tidy")
     \/ /\ ManageableBin(dep) /\ ~SrcExist(dep)
        /\ IF ManageableSrc(dep) THEN Continue("download") ELSE Return("no source")
  /\ UNCHANGED <<fileVars, torn>>

\* What is cloned, all of it or what is written so far.
Cloned(all) == [of |-> dep.url, branch |-> dep.branch, whole |-> all]

\* git.PlainClone creates the directory first.
CloneBegin ==
  /\ phase = "download"
  /\ src' = [src EXCEPT ![SrcPath(dep)] = Cloned(FALSE)]
  /\ Continue("cloning")
  /\ UNCHANGED <<bin, torn>>

CloneEnd ==
  /\ phase = "cloning"
  /\ src' = [src EXCEPT ![SrcPath(dep)] = Cloned(TRUE)]
  /\ Continue("tidy")
  /\ UNCHANGED <<bin, torn>>

\* A clone that fails cleans its directory up.
CloneFails ==
  /\ phase = "cloning"
  /\ src' = [src EXCEPT ![SrcPath(dep)] = None]
  /\ Return("download failed")
  /\ UNCHANGED <<bin, torn>>

\* cleanBuild: `go mod tidy` runs in the directory.  It may do so, and the build
\* succeed, when the go.mod and a main package are there and other files are not.
Tidy ==
  /\ phase = "tidy"
  /\ SrcExist(dep)
  /\ Continue("build")
  /\ UNCHANGED <<fileVars, torn>>

Build ==
  /\ phase = "build"
  /\ SrcExist(dep)
  /\ bin' = [bin EXCEPT ![BinPath(dep)] = src[SrcPath(dep)]]
  /\ Return("installed")
  /\ UNCHANGED <<src, torn>>

\* Neither a failed tidy nor a failed build touches the binary.
BuildFails ==
  /\ phase \in {"tidy", "build"}
  /\ Return("build failed")
  /\ UNCHANGED <<fileVars, torn>>

-----------------------------------------------------------------------------
(***************************************************************************)
(* Uninstall.                                                              *)
(***************************************************************************)
UninstallCheck ==
  /\ phase = "uninstall"
  /\ \/ ~ManageableBin(dep) /\ ~ManageableSrc(dep) /\ Return("uninstalled")
     \/ ManageableSrc(dep) /\ Return("check failed")
     \/ ManageableSrc(dep) /\ SrcExist(dep) /\ Continue("delete source")
     \/ /\ ManageableBin(dep) \/ ManageableSrc(dep)
        /\ ~(ManageableSrc(dep) /\ SrcExist(dep))
        /\ Continue("delete binary")
  /\ UNCHANGED <<fileVars, torn>>

\* os.RemoveAll deletes file by file.
DeleteSrcBegin ==
  /\ phase = "delete source"
  /\ src' = IF SrcExist(dep) THEN [src EXCEPT ![SrcPath(dep)].whole = FALSE] ELSE src
  /\ Continue("deleting")
  /\ UNCHANGED <<bin, torn>>

DeleteSrcEnd ==
  /\ phase = "deleting"
  /\ src' = [src EXCEPT ![SrcPath(dep)] = None]
  /\ Continue("delete binary")
  /\ torn' = Mended
  /\ UNCHANGED bin

DeleteSrcFails ==
  /\ phase = "deleting"
  /\ Return("delete failed")
  /\ torn' = Torn
  /\ UNCHANGED fileVars

DeleteBin ==
  /\ phase = "delete binary"
  /\ bin' = IF ManageableBin(dep) THEN [bin EXCEPT ![BinPath(dep)] = None] ELSE bin
  /\ Return("uninstalled")
  /\ UNCHANGED <<src, torn>>

DeleteBinFails ==
  /\ phase = "delete binary"
  /\ ManageableBin(dep) /\ Installed(dep)
  /\ Return("delete failed")
  /\ UNCHANGED <<fileVars, torn>>

-----------------------------------------------------------------------------
(***************************************************************************)
(* The environment: users, and the end of the program.                     *)
(***************************************************************************)
UserEditsSource(p) ==
  /\ src' = [src EXCEPT ![p] = UserCode]
  /\ UNCHANGED <<bin, callVars, torn>>

UserRemovesSource(p) ==
  /\ src' = [src EXCEPT ![p] = None]
  /\ UNCHANGED <<bin, callVars, torn>>

UserMakesBinary(p) ==
  /\ bin' = [bin EXCEPT ![p] = UserCode]
  /\ UNCHANGED <<src, callVars, torn>>

\* The program is killed in a call and started again.
Crash ==
  /\ phase # "idle"
  /\ Return("none")
  /\ torn' = IF phase \in {"cloning", "deleting"} THEN Torn ELSE torn
  /\ UNCHANGED fileVars

Install == \/ \E d \in Deps : NewDep(d, "install")
           \/ InstallCheck
           \/ CloneBegin \/ CloneEnd \/ CloneFails \/ Tidy \/ Build \/ BuildFails

Uninstall == \/ \E d \in Deps : NewDep(d, "uninstall")
             \/ UninstallCheck
             \/ DeleteSrcBegin \/ DeleteSrcEnd \/ DeleteSrcFails
             \/ DeleteBin \/ DeleteBinFails

Manager == Install \/ Uninstall \/ \E d \in Deps : NewDepFails(d)

User == \/ \E p \in LocalSrcs : UserEditsSource(p) \/ UserRemovesSource(p)
        \/ \E p \in LocalBins : UserMakesBinary(p)

Next == Manager \/ User \/ Crash

Spec == Init /\ [][Next]_vars
-----------------------------------------------------------------------------
(***************************************************************************)
(* Properties.                                                             *)
(***************************************************************************)
\* The manager replaces and deletes only under its own directories: no sequence
\* of calls, failures and kills makes it do so with a user's source or binary
\* elsewhere (dev.go:115-143, 229-263, 497-535).  What `go mod tidy` writes into
\* the go.mod of a source before the build is not modelled.
UserFilesKept ==
  [][Manager =>
       /\ \A p \in LocalSrcs \ OwnedSrcs : src'[p] = src[p]
       /\ \A p \in LocalBins \ OwnedBins : bin'[p] = bin[p]]_vars

\* The source directory of a url holds code of that url, all or a part of it, and
\* of no other dependency, if no two urls have the same file name (dev.go:242-255, 564-567).
NamesAreUnique == \A u, v \in Urls : FileName[u] = FileName[v] => u = v
OwnCode(content, u) == content # None => content.of = u

StoreHoldsOwnCode ==
  NamesAreUnique =>
    \A u \in Urls : OwnCode(src[FileName[u]], u)

\* A successful Install without a local source leaves a binary of the url that was
\* asked for, also when it was built from what an earlier call left that failed or
\* was killed in the midst of a clone or a deletion (dev.go:229-263, 311-326).
InstalledIsRequested ==
  [][phase # "idle" /\ reply' = "installed" /\ dep.localSrc = None /\ NamesAreUnique =>
       bin'[BinPath(dep)].of = dep.url]_vars

\* It leaves a binary of all of that source, unless a clone was killed, or a deletion
\* killed or broken off by an error, and no Uninstall has succeeded since.  No check
\* but that of the go tool keeps such a rest from being built: Install takes any
\* directory for the source (dev.go:247, 311-326, 451-455, 463-466, 517-525).
InstalledIsWhole ==
  [][phase # "idle" /\ reply' = "installed" /\ dep.localSrc = None
       /\ SrcPath(dep) \notin torn =>
       bin'[BinPath(dep)].whole]_vars

\* After a successful Uninstall nothing manageable is left, also when an
\* earlier Uninstall or Install of it failed half way or was killed, so that
\* the next Install downloads and builds anew (dev.go:497-535).
UninstallRemovesAll ==
  [][phase # "idle" /\ reply' = "uninstalled" =>
       /\ ManageableSrc(dep) /\ dep.localSrc = None => src'[SrcPath(dep)] = None
       /\ ManageableBin(dep) => bin'[BinPath(dep)] = None]_vars
-----------------------------------------------------------------------------
(***************************************************************************)
(* What a comment of the repository says of this code, and the code does   *)
(* not do: the subject of a run that refutes it.                           *)
(***************************************************************************)
\* "When the Branch is set, then the dependency manager will check out that
\* from remote" (source/dep.go:14).
BranchIsCheckedOut ==
  [][phase # "idle" /\ reply' = "installed" /\ dep.localSrc = None /\ dep.branch # None =>
       bin'[BinPath(dep)].branch = dep.branch]_vars
=============================================================================
