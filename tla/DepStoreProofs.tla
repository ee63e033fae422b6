---------------------------- MODULE DepStoreProofs ----------------------------
(***************************************************************************)
(* Proofs about DepStore, for all urls, branches and users' paths.         *)
(***************************************************************************)
EXTENDS DepStore, TLAPS

\* What the phase of a call tells of its *Dep.
PhaseInv ==
  /\ phase # "idle" => dep \in Deps /\ reply = "none"
  /\ phase \in {"download", "cloning", "delete source", "deleting"} => ManageableSrc(dep)
  /\ phase \in {"download", "cloning", "tidy", "build"} => ManageableBin(dep)
  /\ phase = "delete binary" /\ dep.localSrc = None => src[SrcPath(dep)] = None

\* A part of a source lies only where a clone or a deletion was broken off, or is
\* at work.
AtWork(n) == phase \in {"cloning", "deleting"} /\ dep.localSrc = None /\ SrcPath(dep) = n
WholeInv == \A n \in Names : src[n] # None /\ n \notin torn => src[n].whole \/ AtWork(n)

IInv == TypeOK /\ PhaseInv /\ StoreHoldsOwnCode /\ WholeInv

-----------------------------------------------------------------------------
LEMMA DepIsKnown == ASSUME TypeOK, phase # "idle" PROVE dep \in Deps
BY PathsAssumption DEF TypeOK

\* The paths of a *Dep: names are never users' paths.
LEMMA SrcPathOf ==
  ASSUME NEW d \in Deps
  PROVE  /\ SrcPath(d) \in SrcPaths
         /\ d.localSrc = None => SrcPath(d) = FileName[d.url] /\ SrcPath(d) \in Names
         /\ d.localSrc # None => SrcPath(d) = d.localSrc /\ SrcPath(d) \in LocalSrcs
BY PathsAssumption DEF Deps, SrcPath, SrcPaths

LEMMA BinPathOf ==
  ASSUME NEW d \in Deps
  PROVE  /\ BinPath(d) \in BinPaths
         /\ d.localBin = None => BinPath(d) = FileName[d.url] /\ BinPath(d) \in Names
         /\ d.localBin # None => BinPath(d) = d.localBin /\ BinPath(d) \in LocalBins
BY PathsAssumption DEF Deps, BinPath, BinPaths

\* A source that is written where dep says leaves the directories of other
\* urls alone.
LEMMA WritesOwnSource ==
  ASSUME TypeOK, StoreHoldsOwnCode, dep \in Deps,
         NEW c, src' = [src EXCEPT ![SrcPath(dep)] = c],
         NamesAreUnique /\ dep.localSrc = None => OwnCode(c, dep.url)
  PROVE  StoreHoldsOwnCode'
<1> SUFFICES ASSUME NamesAreUnique, NEW u \in Urls
             PROVE  OwnCode(src'[FileName[u]], u)
  BY DEF StoreHoldsOwnCode, NamesAreUnique, OwnCode
<1>1. FileName[u] \in Names /\ FileName[u] \in SrcPaths /\ dep.url \in Urls
  BY PathsAssumption DEF SrcPaths, Deps
<1>2. OwnCode(src[FileName[u]], u)
  BY DEF StoreHoldsOwnCode
<1>3. CASE FileName[u] # SrcPath(dep)
  BY <1>1, <1>2, <1>3 DEF TypeOK
<1>4. CASE FileName[u] = SrcPath(dep)
  <2>1. dep.url = u /\ dep.localSrc = None
    BY <1>1, <1>4, SrcPathOf, PathsAssumption DEF NamesAreUnique
  <2> QED BY <1>1, <1>4, <2>1 DEF TypeOK
<1> QED BY <1>3, <1>4

\* The paths and flags of a *Dep do not depend on the state; what StoreHoldsOwnCode
\* says depends on the sources only.
LEMMA KeepsSources ==
  ASSUME StoreHoldsOwnCode, UNCHANGED src PROVE StoreHoldsOwnCode'
BY DEF StoreHoldsOwnCode, NamesAreUnique, OwnCode

\* A step between the writes of sources, after which the same names are torn.
LEMMA KeepsWholes ==
  ASSUME WholeInv, phase \notin {"cloning", "deleting"}, UNCHANGED <<src, torn>>
  PROVE  WholeInv'
BY DEF WholeInv, AtWork

\* What a broken clone or deletion leaves is torn.
LEMMA BrokenIsTorn ==
  ASSUME IInv, UNCHANGED src, phase' = "idle", phase # "idle",
         torn' = IF phase \in {"cloning", "deleting"} THEN Torn ELSE torn
  PROVE  WholeInv' /\ torn' \subseteq Names
<1>1. dep \in Deps BY DepIsKnown DEF IInv
<1>2. torn' \subseteq Names
  BY <1>1, SrcPathOf DEF Torn, IInv, TypeOK
<1>3. \A n \in Names : AtWork(n) => n \in torn'
  BY DEF AtWork, Torn
<1>4. torn \subseteq torn' BY DEF Torn
<1> QED BY <1>2, <1>3, <1>4 DEF IInv, WholeInv

-----------------------------------------------------------------------------
(***************************************************************************)
(* Every step keeps the invariant.                                         *)
(***************************************************************************)
LEMMA ChecksKeepInvariant ==
  ASSUME IInv,
         \/ \E d \in Deps : NewDep(d, "install") \/ NewDep(d, "uninstall") \/ NewDepFails(d)
         \/ InstallCheck \/ Tidy \/ BuildFails \/ UninstallCheck
         \/ DeleteSrcFails \/ DeleteBinFails
         \/ Crash
  PROVE  IInv'
<1>1. StoreHoldsOwnCode' /\ UNCHANGED <<src, bin>>
  BY KeepsSources
  DEF IInv, NewDep, NewDepFails, InstallCheck, Tidy, BuildFails, UninstallCheck,
      DeleteSrcFails, DeleteBinFails, Crash, fileVars
<1>w. WholeInv' /\ torn' \subseteq Names
  <2>1. CASE Crash \/ DeleteSrcFails
    <3>1. /\ phase # "idle" /\ phase' = "idle"
          /\ torn' = IF phase \in {"cloning", "deleting"} THEN Torn ELSE torn
      BY <2>1 DEF Crash, DeleteSrcFails, Return
    <3> QED BY <1>1, <3>1, BrokenIsTorn
  <2>2. CASE ~(Crash \/ DeleteSrcFails)
    <3>1. phase \notin {"cloning", "deleting"} /\ UNCHANGED torn
      BY <2>2 DEF NewDep, NewDepFails, InstallCheck, Tidy, BuildFails, UninstallCheck,
                  DeleteBinFails
    <3> QED BY <1>1, <3>1, KeepsWholes DEF IInv, TypeOK
  <2> QED BY <2>1, <2>2
<1>2. ASSUME NEW d \in Deps, NewDep(d, "install") \/ NewDep(d, "uninstall") PROVE IInv'
  <2>1. /\ dep' = d /\ dep' # None /\ phase' \in {"install", "uninstall"} /\ reply' = "none"
    BY <1>2, PathsAssumption DEF NewDep, Deps
  <2>2. TypeOK'
    BY <1>1, <1>w, <2>1 DEF IInv, TypeOK, Phases, Replies
  <2>3. PhaseInv'
    BY <2>1 DEF PhaseInv
  <2> QED BY <1>1, <1>w, <2>2, <2>3 DEF IInv
<1>3. CASE \E d \in Deps : NewDepFails(d)
  <2>1. TypeOK'
    BY <1>1, <1>w, <1>3, PathsAssumption
    DEF IInv, TypeOK, Phases, Replies, Continue, Return, NewDepFails
  <2>2. PhaseInv'
    BY <1>1, <1>3, PathsAssumption
    DEF IInv, PhaseInv, Continue, Return, ManageableSrc, ManageableBin, SrcPath, NewDepFails
  <2> QED BY <1>1, <1>w, <2>1, <2>2 DEF IInv
<1>4. CASE InstallCheck
  <2>1. TypeOK'
    BY <1>1, <1>w, <1>4, PathsAssumption
    DEF IInv, TypeOK, Phases, Replies, Continue, Return, InstallCheck
  <2>2. PhaseInv'
    BY <1>1, <1>4, PathsAssumption
    DEF IInv, PhaseInv, Continue, Return, ManageableSrc, ManageableBin, SrcPath, InstallCheck
  <2> QED BY <1>1, <1>w, <2>1, <2>2 DEF IInv
<1>5. CASE Tidy
  <2>1. TypeOK'
    BY <1>1, <1>w, <1>5, PathsAssumption
    DEF IInv, TypeOK, Phases, Replies, Continue, Return, Tidy
  <2>2. PhaseInv'
    BY <1>1, <1>5, PathsAssumption
    DEF IInv, PhaseInv, Continue, Return, ManageableSrc, ManageableBin, SrcPath, Tidy
  <2> QED BY <1>1, <1>w, <2>1, <2>2 DEF IInv
<1>6. CASE BuildFails
  <2>1. TypeOK'
    BY <1>1, <1>w, <1>6, PathsAssumption
    DEF IInv, TypeOK, Phases, Replies, Continue, Return, BuildFails
  <2>2. PhaseInv'
    BY <1>1, <1>6, PathsAssumption
    DEF IInv, PhaseInv, Continue, Return, ManageableSrc, ManageableBin, SrcPath, BuildFails
  <2> QED BY <1>1, <1>w, <2>1, <2>2 DEF IInv
<1>7. CASE UninstallCheck
  <2>0. dep \in Deps /\ phase = "uninstall" /\ reply = "none"
    BY <1>7, DepIsKnown DEF IInv, PhaseInv, UninstallCheck
  <2>1. \/ phase' = "idle" /\ dep' = None /\ reply' \in {"uninstalled", "check failed"}
        \/ UNCHANGED <<dep, reply>> /\ phase' = "delete source" /\ ManageableSrc(dep)
        \/ UNCHANGED <<dep, reply>> /\ phase' = "delete binary"
             /\ ~(ManageableSrc(dep) /\ SrcExist(dep))
    BY <1>7 DEF UninstallCheck, Return, Continue
  <2>2. TypeOK'
    BY <1>1, <1>w, <2>0, <2>1 DEF IInv, TypeOK, Phases, Replies
  <2>3. ASSUME phase' = "idle" PROVE PhaseInv'
    BY <2>3 DEF PhaseInv
  <2>4. ASSUME phase' = "delete source" PROVE PhaseInv'
    BY <1>1, <2>0, <2>1, <2>4 DEF PhaseInv, ManageableSrc
  <2>5. ASSUME phase' = "delete binary" PROVE PhaseInv'
    <3>1. dep' = dep /\ (dep.localSrc = None => src[SrcPath(dep)] = None)
      BY <2>1, <2>5 DEF ManageableSrc, SrcExist
    <3> QED BY <1>1, <2>0, <2>1, <2>5, <3>1 DEF PhaseInv, SrcPath
  <2> QED BY <1>1, <1>w, <2>1, <2>2, <2>3, <2>4, <2>5 DEF IInv
<1>8. CASE DeleteSrcFails
  <2>1. TypeOK'
    BY <1>1, <1>w, <1>8, PathsAssumption
    DEF IInv, TypeOK, Phases, Replies, Continue, Return, DeleteSrcFails
  <2>2. PhaseInv'
    BY <1>1, <1>8, PathsAssumption
    DEF IInv, PhaseInv, Continue, Return, ManageableSrc, ManageableBin, SrcPath, DeleteSrcFails
  <2> QED BY <1>1, <1>w, <2>1, <2>2 DEF IInv
<1>9. CASE DeleteBinFails
  <2>1. TypeOK'
    BY <1>1, <1>w, <1>9, PathsAssumption
    DEF IInv, TypeOK, Phases, Replies, Continue, Return, DeleteBinFails
  <2>2. PhaseInv'
    BY <1>1, <1>9, PathsAssumption
    DEF IInv, PhaseInv, Continue, Return, ManageableSrc, ManageableBin, SrcPath, DeleteBinFails
  <2> QED BY <1>1, <1>w, <2>1, <2>2 DEF IInv
<1>10. CASE Crash
  <2>1. TypeOK'
    BY <1>1, <1>w, <1>10, PathsAssumption
    DEF IInv, TypeOK, Phases, Replies, Continue, Return, Crash
  <2>2. PhaseInv'
    BY <1>1, <1>10, PathsAssumption
    DEF IInv, PhaseInv, Continue, Return, ManageableSrc, ManageableBin, SrcPath, Crash
  <2> QED BY <1>1, <1>w, <2>1, <2>2 DEF IInv
<1> QED BY <1>2, <1>3, <1>4, <1>5, <1>6, <1>7, <1>8, <1>9, <1>10

\* The steps that write a source do so where the *Dep says.
LEMMA SourceWritesKeepInvariant ==
  ASSUME IInv, CloneBegin \/ CloneEnd \/ CloneFails \/ DeleteSrcBegin \/ DeleteSrcEnd
  PROVE  IInv'
<1>1. dep \in Deps /\ phase # "idle" /\ reply = "none"
  BY DepIsKnown
  DEF IInv, PhaseInv, CloneBegin, CloneEnd, CloneFails, DeleteSrcBegin, DeleteSrcEnd
<1>p. dep.url \in Urls /\ dep.branch \in Branches \cup {None} /\ SrcPath(dep) \in SrcPaths
  BY <1>1, SrcPathOf DEF Deps
<1>2. PICK c \in Code \cup {None} :
        /\ src' = [src EXCEPT ![SrcPath(dep)] = c]
        /\ NamesAreUnique /\ dep.localSrc = None => OwnCode(c, dep.url)
        /\ c # None => c.whole \/ phase' \in {"cloning", "deleting"}
        /\ phase' \in {"delete binary", "idle"} => c = None
  <2>1. CASE CloneBegin \/ CloneEnd
    <3>1. PICK all \in BOOLEAN :
            /\ src' = [src EXCEPT ![SrcPath(dep)] = Cloned(all)]
            /\ phase' = IF all THEN "tidy" ELSE "cloning"
      BY <2>1 DEF CloneBegin, CloneEnd, Continue
    <3>2. Cloned(all) \in Code /\ Cloned(all).of = dep.url /\ Cloned(all).whole = all
      BY <1>p DEF Cloned, Code
    <3> QED BY <3>1, <3>2 DEF OwnCode
  <2>2. CASE CloneFails \/ DeleteSrcEnd
    BY <2>2 DEF CloneFails, DeleteSrcEnd, OwnCode
  <2>3. CASE DeleteSrcBegin
    <3>1. src \in [SrcPaths -> Code \cup {None}] /\ phase' = "deleting"
      BY <2>3 DEF IInv, TypeOK, DeleteSrcBegin, Continue
    <3>2. CASE ~SrcExist(dep)
      <4>1. src' = [src EXCEPT ![SrcPath(dep)] = None]
        BY <1>p, <2>3, <3>1, <3>2 DEF DeleteSrcBegin, SrcExist
      <4> QED BY <3>1, <4>1 DEF OwnCode
    <3>3. CASE SrcExist(dep)
      <4> DEFINE old == src[SrcPath(dep)]
                 rest == [old EXCEPT !.whole = FALSE]
      <4>1. old \in Code BY <1>p, <3>1, <3>3 DEF SrcExist
      <4>2. rest \in Code /\ rest.of = old.of BY <4>1 DEF Code
      <4>3. src' = [src EXCEPT ![SrcPath(dep)] = rest]
        BY <2>3, <3>3 DEF DeleteSrcBegin
      <4>4. ASSUME NamesAreUnique, dep.localSrc = None PROVE OwnCode(rest, dep.url)
        <5>1. OwnCode(old, dep.url)
          BY <1>1, <1>p, <4>4, SrcPathOf DEF IInv, StoreHoldsOwnCode
        <5> QED BY <3>3, <4>2, <5>1 DEF OwnCode, SrcExist
      <4> HIDE DEF rest
      <4> QED BY <3>1, <4>2, <4>3, <4>4
    <3> QED BY <3>2, <3>3
  <2> QED BY <2>1, <2>2, <2>3
<1>3. StoreHoldsOwnCode'
  BY <1>1, <1>2, WritesOwnSource DEF IInv
<1>s. /\ phase \in {"download", "cloning", "delete source", "deleting"}
      /\ \/ UNCHANGED <<dep, reply>> /\ phase' \in {"cloning", "tidy", "deleting", "delete binary"}
         \/ phase' = "idle" /\ dep' = None /\ reply' = "download failed"
      /\ phase \in {"download", "cloning"} <=> phase' \in {"cloning", "tidy", "idle"}
      /\ torn' \in {torn, Mended} /\ bin' = bin
  BY DEF CloneBegin, CloneEnd, CloneFails, DeleteSrcBegin, DeleteSrcEnd, Continue, Return
<1>4. TypeOK'
  <2>1. src' \in [SrcPaths -> Code \cup {None}] BY <1>2 DEF IInv, TypeOK
  <2>2. torn' \subseteq Names BY <1>s DEF IInv, TypeOK, Mended
  <2>3. /\ phase' \in Phases /\ dep' \in Deps \cup {None} /\ reply' \in Replies
        /\ phase' # "idle" => dep' # None
    BY <1>1, <1>s DEF IInv, TypeOK, Phases, Replies
  <2> QED BY <1>s, <2>1, <2>2, <2>3 DEF IInv, TypeOK
<1>5. PhaseInv'
  <2>1. phase' = "delete binary" => src'[SrcPath(dep)] = None
    BY <1>2, <1>p DEF IInv, TypeOK
  <2> QED BY <1>1, <1>s, <2>1 DEF IInv, PhaseInv, ManageableSrc, ManageableBin, SrcPath
<1>6. WholeInv'
  <2> SUFFICES ASSUME NEW n \in Names, src'[n] # None, n \notin torn', ~AtWork(n)'
               PROVE  src'[n].whole
    BY DEF WholeInv
  <2>1. src \in [SrcPaths -> Code \cup {None}] /\ n \in SrcPaths
    BY DEF IInv, TypeOK, SrcPaths
  <2>2. CASE n = SrcPath(dep)
    <3>1. dep.localSrc = None /\ src'[n] = c
      BY <1>1, <1>2, <2>1, <2>2, SrcPathOf, PathsAssumption
    <3>2. ASSUME phase' \in {"cloning", "deleting"} PROVE FALSE
      <4>1. dep' = dep BY <1>s, <3>2
      <4> QED BY <2>2, <3>1, <3>2, <4>1 DEF AtWork, SrcPath
    <3> QED BY <1>2, <3>1, <3>2
  <2>3. CASE n # SrcPath(dep)
    <3>1. src'[n] = src[n] BY <1>2, <2>1, <2>3
    <3>2. n \notin torn /\ ~AtWork(n) BY <1>s, <2>3 DEF Mended, AtWork
    <3> QED BY <3>1, <3>2 DEF IInv, WholeInv
  <2> QED BY <2>2, <2>3
<1> QED BY <1>3, <1>4, <1>5, <1>6 DEF IInv

\* The steps that write a binary end their call.
LEMMA BinaryWritesKeepInvariant == ASSUME IInv, Build \/ DeleteBin PROVE IInv'
<1>1. /\ UNCHANGED <<src, torn>> /\ phase \in {"build", "delete binary"}
      /\ phase' = "idle" /\ dep' = None /\ reply' \in {"installed", "uninstalled"}
  BY DEF Build, DeleteBin, Return
<1>2. bin' \in [BinPaths -> Code \cup {None}]
  <2>1. dep \in Deps BY <1>1, DepIsKnown DEF IInv
  <2>2. SrcPath(dep) \in SrcPaths BY <2>1, SrcPathOf
  <2> QED BY <2>2 DEF Build, DeleteBin, SrcExist, IInv, TypeOK
<1>3. TypeOK'
  BY <1>1, <1>2 DEF IInv, TypeOK, Phases, Replies
<1>4. PhaseInv'
  BY <1>1 DEF PhaseInv
<1>5. WholeInv' BY <1>1, KeepsWholes DEF IInv
<1> QED BY <1>1, <1>3, <1>4, <1>5, KeepsSources DEF IInv

\* Users do not write at the names of urls.
LEMMA UsersKeepInvariant == ASSUME IInv, User PROVE IInv'
<1>c. UserCode \in Code
  BY DEF UserCode, Code
<1>1. ASSUME NEW p \in LocalSrcs, UserEditsSource(p) \/ UserRemovesSource(p) PROVE IInv'
  <2>1. PICK c \in Code \cup {None} : src' = [src EXCEPT ![p] = c]
    BY <1>1, <1>c DEF UserEditsSource, UserRemovesSource
  <2>2. UNCHANGED <<bin, phase, dep, reply, torn>>
    BY <1>1 DEF UserEditsSource, UserRemovesSource, callVars
  <2>3. p \in SrcPaths /\ src \in [SrcPaths -> Code \cup {None}]
    BY DEF SrcPaths, IInv, TypeOK
  <2>4. \A n \in Names : src'[n] = src[n]
    BY <2>1, <2>3, PathsAssumption DEF SrcPaths
  <2>5. StoreHoldsOwnCode'
    BY <2>4, PathsAssumption DEF IInv, StoreHoldsOwnCode, NamesAreUnique, OwnCode
  <2>6. TypeOK'
    BY <2>1, <2>2, <2>3 DEF IInv, TypeOK
  <2>7. PhaseInv'
    BY <2>2, <2>4, SrcPathOf DEF IInv, PhaseInv, ManageableSrc, ManageableBin, SrcPath
  <2>8. WholeInv' BY <2>2, <2>4 DEF IInv, WholeInv, AtWork, SrcPath
  <2> QED BY <2>5, <2>6, <2>7, <2>8 DEF IInv
<1>2. ASSUME NEW p \in LocalBins, UserMakesBinary(p) PROVE IInv'
  <2>1. bin' \in [BinPaths -> Code \cup {None}] /\ UNCHANGED <<src, phase, dep, reply, torn>>
    BY <1>2, <1>c DEF UserMakesBinary, callVars, IInv, TypeOK
  <2>2. TypeOK' /\ StoreHoldsOwnCode'
    BY <2>1, KeepsSources DEF IInv, TypeOK
  <2>3. PhaseInv'
    BY <2>1 DEF IInv, PhaseInv, ManageableSrc, ManageableBin, SrcPath
  <2>4. WholeInv' BY <2>1 DEF IInv, WholeInv, AtWork, SrcPath
  <2> QED BY <2>2, <2>3, <2>4 DEF IInv
<1> QED BY <1>1, <1>2 DEF User

LEMMA Initialization == Init => IInv
BY PathsAssumption
DEF Init, IInv, TypeOK, Phases, Replies, PhaseInv, StoreHoldsOwnCode, OwnCode, WholeInv, SrcPaths

LEMMA Consecution == IInv /\ [Next]_vars => IInv'
<1> SUFFICES ASSUME IInv, [Next]_vars PROVE IInv'
  OBVIOUS
<1>1. CASE UNCHANGED vars
  <2>1. StoreHoldsOwnCode'
    BY <1>1, KeepsSources DEF IInv, vars, fileVars
  <2>2. WholeInv'
    BY <1>1 DEF IInv, WholeInv, AtWork, SrcPath, vars, fileVars, callVars
  <2> QED
    BY <1>1, <2>1, <2>2
    DEF vars, fileVars, callVars, IInv, TypeOK, PhaseInv, ManageableSrc, ManageableBin, SrcPath
<1>2. CASE Next
  BY <1>2, ChecksKeepInvariant, SourceWritesKeepInvariant, BinaryWritesKeepInvariant,
     UsersKeepInvariant
  DEF Next, Manager, Install, Uninstall
<1> QED BY <1>1, <1>2

\* What an install or uninstall will still do agrees with the files it has checked,
\* whatever the users and crashes do to them (dev.go:208-263, 497-535).
THEOREM Invariance == Spec => []IInv
BY Initialization, Consecution, PTL DEF Spec

-----------------------------------------------------------------------------
\* Files and calls stay well formed (dev.go:27-36, 208-263, 497-535).
THEOREM TypeCorrect == Spec => []TypeOK
<1>1. IInv => TypeOK
  BY DEF IInv
<1> QED BY <1>1, Invariance, PTL

\* The source directory of a url never holds another dependency's code, if no
\* two urls have the same file name (dev.go:242-255, 564-567).
THEOREM StoreIsOwn == Spec => []StoreHoldsOwnCode
<1>1. IInv => StoreHoldsOwnCode
  BY DEF IInv
<1> QED BY <1>1, Invariance, PTL

\* A step that keeps what the manager does not own.
Kept == /\ \A p \in LocalSrcs \ OwnedSrcs : src'[p] = src[p]
        /\ \A p \in LocalBins \ OwnedBins : bin'[p] = bin[p]

\* The manager never replaces or deletes a user's file outside its directories
\* (dev.go:115-143, 229-263, 497-535).
THEOREM FilesAreSafe == Spec => UserFilesKept
<1>1. ASSUME IInv, Manager PROVE Kept
  <2>1. CASE UNCHANGED <<src, bin>>
    BY <2>1 DEF Kept
  <2>2. CASE CloneBegin \/ CloneEnd \/ CloneFails \/ DeleteSrcBegin \/ DeleteSrcEnd
    <3>1. dep \in Deps /\ ManageableSrc(dep)
      BY <1>1, <2>2, DepIsKnown
      DEF IInv, PhaseInv, CloneBegin, CloneEnd, CloneFails, DeleteSrcBegin, DeleteSrcEnd
    <3>2. \/ \E c : src' = [src EXCEPT ![SrcPath(dep)] = c]
          \/ src' = src
      BY <2>2 DEF CloneBegin, CloneEnd, CloneFails, DeleteSrcBegin, DeleteSrcEnd
    <3>3. UNCHANGED bin
      BY <2>2 DEF CloneBegin, CloneEnd, CloneFails, DeleteSrcBegin, DeleteSrcEnd
    <3>4. \A p \in LocalSrcs \ OwnedSrcs : p # SrcPath(dep)
      BY <3>1, SrcPathOf, PathsAssumption DEF ManageableSrc
    <3>5. src \in [SrcPaths -> Code \cup {None}] /\ LocalSrcs \subseteq SrcPaths
      BY <1>1 DEF IInv, TypeOK, SrcPaths
    <3> QED BY <3>2, <3>3, <3>4, <3>5 DEF Kept
  <2>3. CASE Build \/ (DeleteBin /\ ManageableBin(dep))
    <3>1. dep \in Deps /\ ManageableBin(dep)
      BY <1>1, <2>3, DepIsKnown DEF IInv, PhaseInv, Build, DeleteBin
    <3>2. PICK c : bin' = [bin EXCEPT ![BinPath(dep)] = c]
      BY <2>3 DEF Build, DeleteBin
    <3>3. UNCHANGED src
      BY <2>3 DEF Build, DeleteBin
    <3>4. \A p \in LocalBins \ OwnedBins : p # BinPath(dep)
      BY <3>1, BinPathOf, PathsAssumption DEF ManageableBin
    <3>5. bin \in [BinPaths -> Code \cup {None}] /\ LocalBins \subseteq BinPaths
      BY <1>1 DEF IInv, TypeOK, BinPaths
    <3> QED BY <3>2, <3>3, <3>4, <3>5 DEF Kept
  <2>4. CASE DeleteBin /\ ~ManageableBin(dep)
    BY <2>1, <2>4 DEF DeleteBin
  <2>5. CASE \/ InstallCheck \/ Tidy \/ BuildFails \/ UninstallCheck \/ DeleteSrcFails
             \/ DeleteBinFails
    BY <2>1, <2>5
    DEF InstallCheck, Tidy, BuildFails, UninstallCheck, DeleteSrcFails, DeleteBinFails, fileVars
  <2>6. CASE \E d \in Deps : NewDep(d, "install") \/ NewDep(d, "uninstall") \/ NewDepFails(d)
    BY <2>1, <2>6 DEF NewDep, NewDepFails, fileVars
  <2>7. \/ CloneBegin \/ CloneEnd \/ CloneFails \/ DeleteSrcBegin \/ DeleteSrcEnd
        \/ Build \/ DeleteBin
        \/ InstallCheck \/ Tidy \/ BuildFails \/ UninstallCheck \/ DeleteSrcFails
        \/ DeleteBinFails
        \/ \E d \in Deps : NewDep(d, "install") \/ NewDep(d, "uninstall") \/ NewDepFails(d)
    BY <1>1 DEF Manager, Install, Uninstall
  <2> QED BY <2>2, <2>3, <2>4, <2>5, <2>6, <2>7
<1>2. IInv /\ [Next]_vars => [Manager => Kept]_vars
  BY <1>1
<1> QED BY <1>2, Invariance, PTL DEF Spec, UserFilesKept, Kept

\* Only the build ends an Install without an error.
LEMMA OnlyBuildInstalls ==
  ASSUME IInv, Next, phase # "idle", reply' = "installed" PROVE Build
<1>1. reply # "installed"
  BY DEF IInv, PhaseInv
<1>2. ~User /\ ~Crash
  BY <1>1
  DEF User, UserEditsSource, UserRemovesSource, UserMakesBinary, Crash, Return, callVars
<1>3. ~\E d \in Deps : NewDep(d, "install") \/ NewDep(d, "uninstall") \/ NewDepFails(d)
  BY DEF NewDep, NewDepFails
<1>4. ~(InstallCheck \/ CloneBegin \/ CloneEnd \/ CloneFails \/ Tidy \/ BuildFails)
  BY <1>1
  DEF InstallCheck, CloneBegin, CloneEnd, CloneFails, Tidy, BuildFails, Return, Continue
<1>5. ~(UninstallCheck \/ DeleteSrcBegin \/ DeleteSrcEnd \/ DeleteSrcFails \/ DeleteBin
          \/ DeleteBinFails)
  BY <1>1
  DEF UninstallCheck, DeleteSrcBegin, DeleteSrcEnd, DeleteSrcFails, DeleteBin,
      DeleteBinFails, Return, Continue
<1> QED BY <1>2, <1>3, <1>4, <1>5 DEF Next, Manager, Install, Uninstall

\* What Install builds without a local source is code of the url that was asked
\* for, if no two urls have the same file name, and be it a part of it that an
\* interrupted clone or deletion left (dev.go:229-263, 311-326).
THEOREM InstallsWhatIsAsked == Spec => InstalledIsRequested
<1> DEFINE Requested ==
      phase # "idle" /\ reply' = "installed" /\ dep.localSrc = None /\ NamesAreUnique =>
        bin'[BinPath(dep)].of = dep.url
<1>1. ASSUME IInv, Build, dep.localSrc = None, NamesAreUnique PROVE Requested
  <2>1. dep \in Deps /\ src[SrcPath(dep)] \in Code
    BY <1>1, DepIsKnown, SrcPathOf DEF IInv, TypeOK, Build, SrcExist
  <2>2. SrcPath(dep) = FileName[dep.url] /\ dep.url \in Urls /\ BinPath(dep) \in BinPaths
    BY <1>1, <2>1, SrcPathOf, BinPathOf DEF Deps
  <2>3. src[SrcPath(dep)].of = dep.url
    BY <1>1, <2>1, <2>2 DEF IInv, StoreHoldsOwnCode, OwnCode, Build, SrcExist
  <2>4. bin'[BinPath(dep)] = src[SrcPath(dep)]
    BY <1>1, <2>2 DEF IInv, TypeOK, Build
  <2> QED BY <2>3, <2>4
<1>2. ASSUME IInv, Next, phase # "idle", reply' = "installed" PROVE Build
  BY <1>2, OnlyBuildInstalls
<1>3. IInv /\ [Next]_vars => [Requested]_vars
  BY <1>1, <1>2
<1> QED BY <1>3, Invariance, PTL DEF Spec, InstalledIsRequested

\* What Install builds without a local source is all of it, unless a clone or a
\* deletion of that source was broken off and no Uninstall has succeeded since
\* (dev.go:247, 311-326, 451-455, 463-466, 517-525).
THEOREM InstallsAllOfIt == Spec => InstalledIsWhole
<1> DEFINE Whole ==
      phase # "idle" /\ reply' = "installed" /\ dep.localSrc = None
        /\ SrcPath(dep) \notin torn => bin'[BinPath(dep)].whole
<1>1. ASSUME IInv, Build, dep.localSrc = None, SrcPath(dep) \notin torn
      PROVE  bin'[BinPath(dep)].whole
  <2>1. dep \in Deps BY <1>1, DepIsKnown DEF IInv, Build
  <2>2. SrcPath(dep) \in Names /\ BinPath(dep) \in BinPaths
    BY <1>1, <2>1, SrcPathOf, BinPathOf
  <2>3. src[SrcPath(dep)].whole
    BY <1>1, <2>2 DEF IInv, WholeInv, AtWork, Build, SrcExist
  <2>4. bin'[BinPath(dep)] = src[SrcPath(dep)]
    BY <1>1, <2>2 DEF IInv, TypeOK, Build
  <2> QED BY <2>3, <2>4
<1>2. IInv /\ [Next]_vars => [Whole]_vars
  BY <1>1, OnlyBuildInstalls
<1> QED BY <1>2, Invariance, PTL DEF Spec, InstalledIsWhole

\* A successful Uninstall leaves nothing manageable behind, whatever earlier
\* calls left (dev.go:497-535).
THEOREM UninstallIsComplete == Spec => UninstallRemovesAll
<1> DEFINE Removed ==
      phase # "idle" /\ reply' = "uninstalled" =>
        /\ ManageableSrc(dep) /\ dep.localSrc = None => src'[SrcPath(dep)] = None
        /\ ManageableBin(dep) => bin'[BinPath(dep)] = None
<1>1. ASSUME IInv, Next PROVE Removed
  <2> SUFFICES ASSUME phase # "idle", reply' = "uninstalled"
               PROVE  /\ ManageableSrc(dep) /\ dep.localSrc = None => src'[SrcPath(dep)] = None
                      /\ ManageableBin(dep) => bin'[BinPath(dep)] = None
    OBVIOUS
  <2>1. dep \in Deps
    BY <1>1, DepIsKnown DEF IInv
  <2>2. CASE UninstallCheck /\ ~ManageableBin(dep) /\ ~ManageableSrc(dep)
    BY <2>2
  <2>3. CASE DeleteBin
    BY <1>1, <2>1, <2>3, BinPathOf DEF IInv, PhaseInv, TypeOK, DeleteBin
  <2>r. reply # "uninstalled"
    BY <1>1 DEF IInv, PhaseInv
  <2>4. ~User /\ ~Crash
    BY <1>1, <2>r
    DEF User, UserEditsSource, UserRemovesSource, UserMakesBinary, Crash, Return, callVars
  <2>5. ~\E d \in Deps : NewDep(d, "install") \/ NewDep(d, "uninstall") \/ NewDepFails(d)
    BY DEF NewDep, NewDepFails
  <2>6. ~(InstallCheck \/ CloneBegin \/ CloneEnd \/ CloneFails \/ Tidy \/ Build \/ BuildFails)
    BY <2>r
    DEF InstallCheck, CloneBegin, CloneEnd, CloneFails, Tidy, Build, BuildFails, Return,
        Continue
  <2>7. ~(DeleteSrcBegin \/ DeleteSrcEnd \/ DeleteSrcFails \/ DeleteBinFails)
    BY <2>r DEF DeleteSrcBegin, DeleteSrcEnd, DeleteSrcFails, DeleteBinFails, Return, Continue
  <2>8. UninstallCheck => ~ManageableBin(dep) /\ ~ManageableSrc(dep)
    BY <2>r DEF UninstallCheck, Return, Continue
  <2> QED BY <1>1, <2>2, <2>3, <2>4, <2>5, <2>6, <2>7, <2>8 DEF Next, Manager, Install, Uninstall
<1>2. IInv /\ [Next]_vars => [Removed]_vars
  BY <1>1
<1> QED BY <1>2, Invariance, PTL DEF Spec, UninstallRemovesAll
=============================================================================
