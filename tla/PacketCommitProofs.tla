------------------------- MODULE PacketCommitProofs -------------------------
(***************************************************************************)
(* What PacketCommit promises, for any set of runs, any packet and any     *)
(* number of crashes.                                                      *)
(***************************************************************************)
EXTENDS PacketCommit, FiniteSetTheorems, TLAPS

(***************************************************************************)
(* The inductive invariant.  OnlyCompletePackets alone is not inductive: a *)
(* crash may bring back any survivor and undo whatever was not synced, so  *)
(* what has to be kept is that every entry a crash may leave is a packet   *)
(* which is exact AND beyond the reach of a crash.                         *)
(***************************************************************************)
Durable(w) == PacketExact(w) /\ synced[w] = Names /\ dirSynced[w] = TRUE

StatusMatches == \A w \in Writers : status[w] = "running" <=> pc[w] # "exited"
VerifiedExact ==
    \A w \in Writers : pc[w] \in {"sync", "rename", "sync_parent", "receipt"} => PacketExact(w)
SyncedDurable ==
    \A w \in Writers : pc[w] \in {"rename", "sync_parent", "receipt"} => Durable(w)
EntrySurvives == entry \in survivors /\ survivors \subseteq {entry, "absent", "empty"}
SurvivorsDurable ==
    \A w \in Writers : w \in survivors =>
        /\ Durable(w)
        /\ pc[w] \in {"sync_parent", "receipt", "exited"}
        /\ status[w] \notin Refused \cup Uncaught
CommittedShown == \A w \in Writers : pc[w] = "sync_parent" => entry = w
ReportedForever ==
    \A w \in Writers : pc[w] = "receipt" \/ status[w] = "complete" => survivors = {w}

IInv ==
    /\ TypeOK
    /\ StatusMatches
    /\ VerifiedExact
    /\ SyncedDurable
    /\ EntrySurvives
    /\ SurvivorsDurable
    /\ CommittedShown
    /\ ReportedForever

-----------------------------------------------------------------------------
(* Moving on and ending keep the types of pc and status.                   *)
LEMMA GotoType ==
    ASSUME TypeOK, NEW w \in Writers, NEW l \in PCs, Goto(w, l)
    PROVE  pc' \in [Writers -> PCs] /\ status' \in [Writers -> Statuses]
BY DEF TypeOK, Goto

(* Ending keeps the types too.                                             *)
LEMMA ExitType ==
    ASSUME TypeOK, NEW w \in Writers, NEW s \in Statuses, Exit(w, s)
    PROVE  pc' \in [Writers -> PCs] /\ status' \in [Writers -> Statuses]
BY DEF TypeOK, Exit, PCs

(* The labels and status texts that steps name are among those declared.   *)
LEMMA Labels ==
    /\ {"idle", "probe", "stage", "write", "sync", "rename", "sync_parent",
        "receipt", "exited"} \subseteq PCs
    /\ Refused \subseteq Statuses
    /\ Uncaught \subseteq Statuses
    /\ {"running", "complete", "output_commit_durability_uncertain",
        "receipt_error", "cancelled", "killed"} \subseteq Statuses
BY DEF PCs, Statuses

(* Every variable keeps its type: the statuses are the ones entrypoint     *)
(* knows, the path shows a packet, an operator entry or nothing.           *)
THEOREM TypeCorrect == Spec => []TypeOK
<1>1. Init => TypeOK
  BY CrashAssumption DEF Init, TypeOK, PCs, Statuses, Contents, Entries
<1>2. TypeOK /\ [Next]_vars => TypeOK'
  <2> SUFFICES ASSUME TypeOK, [Next]_vars PROVE TypeOK'
    OBVIOUS
  <2>1. ASSUME NEW w \in Writers, RunStep(w) PROVE TypeOK'
    <3>1. CASE Compute(w)
      BY <3>1, Labels, GotoType, ExitType DEF TypeOK, Compute, packetVars, Refused, Uncaught
    <3>2. CASE ProbeDestination(w)
      BY <3>2, Labels, GotoType, ExitType DEF TypeOK, ProbeDestination, packetVars, Refused, Uncaught
    <3>3. CASE MakeStaging(w)
      BY <3>3, Labels, GotoType, ExitType DEF TypeOK, MakeStaging, packetVars, Refused
    <3>4. CASE WriteFile(w)
      BY <3>4 DEF TypeOK, WriteFile, Contents
    <3>5. CASE WriteFails(w)
      BY <3>5, Labels, ExitType DEF TypeOK, WriteFails, Contents, Refused
    <3>6. CASE VerifyStaged(w)
      BY <3>6, Labels, GotoType, ExitType DEF TypeOK, VerifyStaged, packetVars, Refused
    <3>7. CASE SyncFile(w)
      BY <3>7 DEF TypeOK, SyncFile
    <3>8. CASE SyncDirectory(w)
      BY <3>8, Labels, GotoType DEF TypeOK, SyncDirectory, packetVars
    <3>9. CASE SyncFails(w)
      BY <3>9, Labels, ExitType DEF TypeOK, SyncFails, packetVars, Refused
    <3>10. CASE Rename(w)
      BY <3>10, Labels, GotoType DEF TypeOK, Rename, packetVars, Entries
    <3>11. CASE RenameFails(w)
      BY <3>11, Labels, ExitType DEF TypeOK, RenameFails, packetVars, Refused
    <3>12. CASE SyncParent(w)
      BY <3>12, Labels, GotoType DEF TypeOK, SyncParent, packetVars
    <3>13. CASE SyncParentFails(w)
      BY <3>13, Labels, ExitType DEF TypeOK, SyncParentFails, packetVars
    <3>14. CASE Receipt(w)
      BY <3>14, Labels, ExitType DEF TypeOK, Receipt, packetVars
    <3> QED
      BY <2>1, <3>1, <3>2, <3>3, <3>4, <3>5, <3>6, <3>7, <3>8, <3>9, <3>10, <3>11, <3>12, <3>13, <3>14 DEF RunStep
  <2>2. ASSUME NEW w \in Writers, Interrupt(w) PROVE TypeOK'
    BY <2>2, Labels, ExitType DEF TypeOK, Interrupt, packetVars
  <2>3. CASE OperatorEntry
    BY <2>3 DEF TypeOK, OperatorEntry, OperatorEntries, Entries, packetVars
  <2>4. CASE Crash
    BY <2>4, CrashAssumption, Labels DEF TypeOK, Crash, Contents
  <2>5. CASE UNCHANGED vars
    BY <2>5 DEF TypeOK, vars
  <2> QED
    BY <2>1, <2>2, <2>3, <2>4, <2>5 DEF Next
<1> QED
  BY <1>1, <1>2, PTL DEF Spec

-----------------------------------------------------------------------------
(* A run that ends keeps the invariant if it does not deny a packet that a *)
(* crash may show, and claims success only of one a crash cannot take back.*)
LEMMA ExitStep ==
    ASSUME IInv, TypeOK', NEW w \in Writers, NEW s \in Statuses \ {"running"},
           Exit(w, s), UNCHANGED <<packetVars, entry, survivors>>,
           s \in Refused \cup Uncaught => w \notin survivors,
           s = "complete" => survivors = {w}
    PROVE  IInv'
<1> USE DEF IInv, TypeOK, Exit, packetVars
<1>1. StatusMatches'
  BY DEF StatusMatches
<1>2. VerifiedExact'
  BY DEF VerifiedExact, PacketExact
<1>3. SyncedDurable'
  BY DEF SyncedDurable, Durable, PacketExact
<1>4. EntrySurvives'
  BY DEF EntrySurvives
<1>5. SurvivorsDurable'
  BY DEF SurvivorsDurable, Durable, PacketExact
<1>6. CommittedShown'
  BY DEF CommittedShown
<1>7. ReportedForever'
  BY DEF ReportedForever
<1> QED
  BY <1>1, <1>2, <1>3, <1>4, <1>5, <1>6, <1>7

(* So does a run that moves on, up to the rename.                          *)
LEMMA GotoStep ==
    ASSUME IInv, TypeOK', NEW w \in Writers, NEW l \in {"probe", "stage", "write", "sync"},
           pc[w] \notin {"sync_parent", "receipt", "exited"},
           Goto(w, l), UNCHANGED <<packetVars, entry, survivors>>,
           l = "sync" => PacketExact(w)
    PROVE  IInv'
<1> USE DEF IInv, TypeOK, Goto, packetVars
<1>1. StatusMatches'
  BY DEF StatusMatches
<1>2. VerifiedExact'
  BY DEF VerifiedExact, PacketExact
<1>3. SyncedDurable'
  BY DEF SyncedDurable, Durable, PacketExact
<1>4. EntrySurvives'
  BY DEF EntrySurvives
<1>5. SurvivorsDurable'
  BY DEF SurvivorsDurable, Durable, PacketExact
<1>6. CommittedShown'
  BY DEF CommittedShown
<1>7. ReportedForever'
  BY DEF ReportedForever
<1> QED
  BY <1>1, <1>2, <1>3, <1>4, <1>5, <1>6, <1>7

(* A run that is still staging shows in no entry a crash may leave.        *)
LEMMA StagingUnseen ==
    ASSUME IInv, NEW w \in Writers, pc[w] \notin {"sync_parent", "receipt", "exited"}
    PROVE  w \notin survivors
BY DEF IInv, SurvivorsDurable

(* Writing into the staging directory concerns nobody else.                *)
LEMMA WriteStep ==
    ASSUME IInv, TypeOK', NEW w \in Writers, WriteFile(w) \/ WriteFails(w)
    PROVE  IInv'
<1>1. /\ pc[w] = "write"
      /\ w \notin survivors
      /\ \/ pc' = pc /\ status' = status
         \/ Exit(w, "output_persistence_failed")
      /\ \A v \in Writers \ {w} : content'[v] = content[v]
      /\ UNCHANGED <<synced, dirSynced, entry, survivors>>
  BY StagingUnseen DEF IInv, TypeOK, WriteFile, WriteFails
<1>2. \A v \in Writers \ {w} : PacketExact(v)' <=> PacketExact(v)
  BY <1>1 DEF PacketExact
<1>3. \A v \in Writers \ {w} : pc'[v] = pc[v] /\ status'[v] = status[v]
  BY <1>1 DEF IInv, TypeOK, Exit
<1>4. \/ pc'[w] = "write" /\ status'[w] = status[w]
      \/ pc'[w] = "exited" /\ status'[w] = "output_persistence_failed"
  BY <1>1 DEF IInv, TypeOK, Exit
<1>5. StatusMatches'
  BY <1>1, <1>3, <1>4 DEF IInv, StatusMatches
<1>6. VerifiedExact' /\ SyncedDurable'
  BY <1>1, <1>2, <1>3, <1>4 DEF IInv, VerifiedExact, SyncedDurable, Durable
<1>7. EntrySurvives' /\ SurvivorsDurable'
  BY <1>1, <1>2, <1>3 DEF IInv, EntrySurvives, SurvivorsDurable, Durable
<1>8. CommittedShown' /\ ReportedForever'
  BY <1>1, <1>3, <1>4 DEF IInv, CommittedShown, ReportedForever
<1> QED
  BY <1>5, <1>6, <1>7, <1>8 DEF IInv

(* Syncing adds to what is durable and takes nothing away.                 *)
LEMMA SyncStep ==
    ASSUME IInv, TypeOK', NEW w \in Writers, SyncFile(w) \/ SyncDirectory(w)
    PROVE  IInv'
<1>1. CASE SyncFile(w)
  <2>1. /\ pc[w] = "sync"
        /\ w \notin survivors
        /\ \A v \in Writers \ {w} : synced'[v] = synced[v]
        /\ UNCHANGED <<pc, status, content, dirSynced, entry, survivors>>
    BY <1>1, StagingUnseen DEF IInv, TypeOK, SyncFile
  <2>2. \A v \in Writers \ {w} : Durable(v)' <=> Durable(v)
    BY <2>1 DEF Durable, PacketExact
  <2> QED
    BY <2>1, <2>2 DEF IInv, StatusMatches, VerifiedExact, PacketExact, SyncedDurable,
       EntrySurvives, SurvivorsDurable, CommittedShown, ReportedForever
<1>2. CASE SyncDirectory(w)
  <2>1. /\ pc[w] = "sync" /\ synced[w] = Names /\ w \notin survivors
        /\ pc' = [pc EXCEPT ![w] = "rename"]
        /\ dirSynced' = [dirSynced EXCEPT ![w] = TRUE]
        /\ UNCHANGED <<status, content, synced, entry, survivors>>
    BY <1>2, StagingUnseen DEF IInv, SyncDirectory, Goto
  <2>2. Durable(w)'
    BY <2>1 DEF IInv, TypeOK, VerifiedExact, Durable, PacketExact
  <2>3. \A v \in Writers \ {w} : pc'[v] = pc[v] /\ (Durable(v)' <=> Durable(v))
    BY <2>1 DEF IInv, TypeOK, Durable, PacketExact
  <2>4. pc'[w] = "rename"
    BY <2>1 DEF IInv, TypeOK
  <2>5. VerifiedExact' /\ SyncedDurable' /\ SurvivorsDurable'
    BY <2>1, <2>2, <2>3, <2>4
    DEF IInv, VerifiedExact, SyncedDurable, SurvivorsDurable, Durable, PacketExact
  <2>6. StatusMatches' /\ EntrySurvives' /\ CommittedShown' /\ ReportedForever'
    BY <2>1, <2>3, <2>4
    DEF IInv, StatusMatches, EntrySurvives, CommittedShown, ReportedForever
  <2> QED
    BY <2>5, <2>6 DEF IInv
<1> QED
  BY <1>1, <1>2

(* Nothing that is committed is at the path when a rename or an operator   *)
(* finds it vacant: no run has yet reported success.                       *)
LEMMA VacantMeansUnclaimed ==
    ASSUME IInv, entry \notin Writers, NEW w \in Writers
    PROVE  /\ pc[w] # "sync_parent"
           /\ pc[w] # "receipt" /\ status[w] # "complete"
BY DEF IInv, EntrySurvives, CommittedShown, ReportedForever

(* The rename exposes a packet that is already durable.                    *)
LEMMA RenameStep ==
    ASSUME IInv, TypeOK', NEW w \in Writers, Rename(w)
    PROVE  IInv'
<1>1. /\ pc[w] = "rename" /\ pc' = [pc EXCEPT ![w] = "sync_parent"]
      /\ entry' = w /\ survivors' = survivors \cup {w}
      /\ UNCHANGED <<status, content, synced, dirSynced>>
  BY DEF Rename, Goto, packetVars
<1>2. /\ pc'[w] = "sync_parent"
      /\ \A v \in Writers \ {w} : pc'[v] = pc[v]
      /\ \A v \in Writers : Durable(v)' <=> Durable(v)
  BY <1>1 DEF IInv, TypeOK, Durable, PacketExact
<1>3. Durable(w) /\ status[w] = "running"
  BY <1>1 DEF IInv, SyncedDurable, StatusMatches
<1>4. entry \notin Writers
  BY WritersAssumption DEF Rename
<1>5. StatusMatches' /\ VerifiedExact' /\ SyncedDurable'
  BY <1>1, <1>2, <1>3 DEF IInv, StatusMatches, VerifiedExact, SyncedDurable, Durable, PacketExact
<1>6. EntrySurvives' /\ SurvivorsDurable'
  BY <1>1, <1>2, <1>3 DEF IInv, EntrySurvives, SurvivorsDurable, Rename, Refused, Uncaught
<1>7. CommittedShown' /\ ReportedForever'
  BY <1>1, <1>2, <1>3, <1>4, VacantMeansUnclaimed DEF CommittedShown, ReportedForever
<1> QED
  BY <1>5, <1>6, <1>7 DEF IInv

(* The sync of the parent leaves a crash nothing but the entry shown.      *)
LEMMA SyncParentStep ==
    ASSUME IInv, TypeOK', NEW w \in Writers, SyncParent(w)
    PROVE  IInv'
<1>1. /\ pc[w] = "sync_parent" /\ pc' = [pc EXCEPT ![w] = "receipt"]
      /\ entry = w /\ survivors' = {w} /\ w \in survivors
      /\ UNCHANGED <<status, content, synced, dirSynced, entry>>
  BY DEF SyncParent, Goto, packetVars, IInv, CommittedShown, EntrySurvives
<1>2. /\ pc'[w] = "receipt"
      /\ \A v \in Writers \ {w} : pc'[v] = pc[v]
      /\ \A v \in Writers : Durable(v)' <=> Durable(v)
  BY <1>1 DEF IInv, TypeOK, Durable, PacketExact
<1>3. StatusMatches' /\ VerifiedExact' /\ SyncedDurable'
  BY <1>1, <1>2 DEF IInv, StatusMatches, VerifiedExact, SyncedDurable, Durable, PacketExact
<1>4. EntrySurvives' /\ SurvivorsDurable'
  BY <1>1, <1>2 DEF IInv, EntrySurvives, SurvivorsDurable
<1>5. CommittedShown' /\ ReportedForever'
  BY <1>1, <1>2 DEF IInv, CommittedShown, ReportedForever
<1> QED
  BY <1>3, <1>4, <1>5 DEF IInv

(* A crash shows a survivor, and every survivor is beyond its reach.       *)
LEMMA CrashStep ==
    ASSUME IInv, TypeOK', Crash
    PROVE  IInv'
<1>1. \A w \in Writers : Durable(w) => Durable(w)'
  <2> SUFFICES ASSUME NEW w \in Writers, Durable(w) PROVE PacketExact(w)'
    BY DEF Crash, Durable
  <2>1. \A n \in Names : content[w][n] = "exact" /\ ~MayLose(w, n)
    BY DEF Durable, PacketExact, MayLose
  <2> QED
    BY <2>1 DEF Crash, PacketExact
<1>2. /\ entry' \in survivors /\ survivors' = {entry'}
      /\ \A w \in Writers :
           /\ pc'[w] = IF pc[w] = "idle" THEN "idle" ELSE "exited"
           /\ status'[w] = IF pc[w] \in {"idle", "exited"} THEN status[w] ELSE "killed"
  BY DEF Crash
<1>3. StatusMatches'
  BY <1>2 DEF IInv, StatusMatches
<1>4. VerifiedExact' /\ SyncedDurable' /\ CommittedShown'
  BY <1>2 DEF VerifiedExact, SyncedDurable, CommittedShown
<1>5. EntrySurvives'
  BY <1>2 DEF EntrySurvives
<1>6. SurvivorsDurable'
  BY <1>1, <1>2 DEF IInv, SurvivorsDurable, Refused, Uncaught
<1>7. ReportedForever'
  BY <1>2 DEF IInv, ReportedForever
<1> QED
  BY <1>3, <1>4, <1>5, <1>6, <1>7 DEF IInv

(* What the operator puts at a vacant path disturbs no run's claim.        *)
LEMMA OperatorStep ==
    ASSUME IInv, TypeOK', OperatorEntry
    PROVE  IInv'
<1>1. /\ entry \notin Writers /\ entry' \notin Writers
      /\ survivors' = survivors \cup {entry'}
      /\ UNCHANGED <<pc, status, content, synced, dirSynced>>
  BY WritersAssumption DEF OperatorEntry, OperatorEntries, packetVars
<1>2. StatusMatches' /\ VerifiedExact' /\ SyncedDurable'
  BY <1>1 DEF IInv, StatusMatches, VerifiedExact, SyncedDurable, Durable, PacketExact
<1>3. EntrySurvives' /\ SurvivorsDurable'
  BY <1>1 DEF IInv, EntrySurvives, SurvivorsDurable, Durable, PacketExact, OperatorEntry
<1>4. CommittedShown' /\ ReportedForever'
  BY <1>1, VacantMeansUnclaimed DEF CommittedShown, ReportedForever
<1> QED
  BY <1>2, <1>3, <1>4 DEF IInv

-----------------------------------------------------------------------------
(* No step of a run or of its environment breaks the invariant.            *)
LEMMA InvariantKept == IInv /\ [Next]_vars /\ TypeOK' => IInv'
<1> SUFFICES ASSUME IInv, [Next]_vars, TypeOK' PROVE IInv'
  OBVIOUS
<1>1. ASSUME NEW w \in Writers, RunStep(w) PROVE IInv'
  <2> USE Labels, StagingUnseen, ExitStep, GotoStep
  <2>1. CASE Compute(w)
    BY <2>1 DEF Compute, Refused, Uncaught
  <2>2. CASE ProbeDestination(w)
    BY <2>2 DEF ProbeDestination, Refused, Uncaught
  <2>3. CASE MakeStaging(w)
    BY <2>3 DEF MakeStaging, Refused, Uncaught
  <2>4. CASE WriteFile(w) \/ WriteFails(w)
    BY <2>4, WriteStep
  <2>5. CASE VerifyStaged(w)
    BY <2>5 DEF VerifyStaged, Refused, Uncaught
  <2>6. CASE SyncFile(w) \/ SyncDirectory(w)
    BY <2>6, SyncStep
  <2>7. CASE SyncFails(w)
    BY <2>7 DEF SyncFails, Refused, Uncaught
  <2>8. CASE Rename(w)
    BY <2>8, RenameStep
  <2>9. CASE RenameFails(w)
    BY <2>9 DEF RenameFails, Refused, Uncaught
  <2>10. CASE SyncParent(w)
    BY <2>10, SyncParentStep
  <2>11. CASE SyncParentFails(w)
    BY <2>11 DEF SyncParentFails, Refused, Uncaught
  <2>12. CASE Receipt(w)
    <3>1. survivors = {w}
      BY <2>12 DEF Receipt, IInv, ReportedForever
    <3> QED
      BY <2>12, <3>1 DEF Receipt, Refused, Uncaught
  <2> QED
    BY <1>1, <2>1, <2>2, <2>3, <2>4, <2>5, <2>6, <2>7, <2>8, <2>9, <2>10, <2>11, <2>12
    DEF RunStep
<1>2. ASSUME NEW w \in Writers, Interrupt(w) PROVE IInv'
  BY <1>2, Labels, ExitStep DEF Interrupt, Refused, Uncaught
<1>3. CASE OperatorEntry
  BY <1>3, OperatorStep
<1>4. CASE Crash
  BY <1>4, CrashStep
<1>5. CASE UNCHANGED vars
  BY <1>5 DEF vars, IInv, StatusMatches, VerifiedExact, SyncedDurable, EntrySurvives,
     SurvivorsDurable, CommittedShown, ReportedForever, Durable, PacketExact
<1> QED
  BY <1>1, <1>2, <1>3, <1>4, <1>5 DEF Next

(* The strengthened invariant holds in every reachable state.              *)
THEOREM Invariance == Spec => []IInv
<1>1. Init /\ TypeOK => IInv
  BY WritersAssumption DEF Init, IInv, StatusMatches, VerifiedExact, SyncedDurable,
     EntrySurvives, SurvivorsDurable, CommittedShown, ReportedForever
<1> QED
  BY <1>1, TypeCorrect, InvariantKept, PTL DEF Spec

(* A packet found at the output path is whole, whatever has crashed.       *)
THEOREM CompletePackets == Spec => []OnlyCompletePackets
<1>1. IInv => OnlyCompletePackets
  BY DEF IInv, EntrySurvives, SurvivorsDurable, Durable, OnlyCompletePackets
<1> QED
  BY <1>1, Invariance, PTL

(* The exit code of a run is true when it is returned and stays true.      *)
THEOREM TruthfulExitCodes == Spec => []ExitCodeTruthful
<1>1. IInv => ExitCodeTruthful
  <2> SUFFICES ASSUME IInv, NEW w \in Writers, pc[w] = "exited"
               PROVE  /\ ExitCode(status[w]) = 0 => survivors = {w}
                      /\ ExitCode(status[w]) = 2 /\ status[w] # "output_commit_durability_uncertain"
                           => w \notin survivors
    BY DEF ExitCodeTruthful
  <2>1. ExitCode(status[w]) = 0 => status[w] = "complete"
    BY DEF ExitCode
  <2>2. ExitCode(status[w]) = 2 =>
          status[w] \in Refused \cup {"output_commit_durability_uncertain"}
    BY DEF ExitCode
  <2> QED
    BY <2>1, <2>2 DEF IInv, ReportedForever, SurvivorsDurable
<1> QED
  BY <1>1, Invariance, PTL

(* No run replaces a packet or what the operator owns, in any step.        *)
THEOREM NothingReplaced == Spec => NeverReplaced
<1>1. IInv /\ [Next]_vars =>
        [(entry \in Writers \cup {"foreign"}) => entry' = entry \/ crashes' # crashes]_vars
  <2> SUFFICES ASSUME IInv, Next, entry \in Writers \cup {"foreign"}
               PROVE  entry' = entry \/ crashes' # crashes
    OBVIOUS
  <2>1. entry \notin {"absent", "empty"}
    BY WritersAssumption
  <2>2. ASSUME NEW w \in Writers, RunStep(w) \/ Interrupt(w) PROVE entry' = entry
    BY <2>1, <2>2 DEF RunStep, Interrupt, Compute, ProbeDestination, MakeStaging, WriteFile,
       WriteFails, VerifyStaged, SyncFile, SyncDirectory, SyncFails, Rename, RenameFails,
       SyncParent, SyncParentFails, Receipt
  <2>3. ~OperatorEntry
    BY <2>1 DEF OperatorEntry
  <2>4. Crash => crashes' # crashes
    BY DEF Crash, IInv, TypeOK
  <2> QED
    BY <2>2, <2>3, <2>4 DEF Next
<1> QED
  BY <1>1, Invariance, PTL DEF Spec, NeverReplaced

-----------------------------------------------------------------------------
(* The refinement.                                                         *)
Said == [w \in Writers |-> VerdictOf(status[w])]

(* The path never shows a torn packet.                                     *)
LEMMA ShownIsEntry == (IInv => Shown = entry) /\ (IInv' => Shown' = entry')
BY DEF IInv, EntrySurvives, SurvivorsDurable, Durable, Shown

(* A run that has not ended has reported nothing.                          *)
LEMMA Pending == ASSUME IInv, NEW w \in Writers
                 PROVE  Said[w] = "pending" <=> pc[w] # "exited"
BY DEF IInv, StatusMatches, TypeOK, Statuses, Refused, Uncaught, Said, VerdictOf

(* A run that ends reports what its status stands for.                     *)
LEMMA ExitReports ==
    ASSUME IInv, IInv', NEW w \in Writers, NEW s \in Statuses \ {"running"},
           pc[w] # "exited", Exit(w, s), UNCHANGED entry,
           s \in {"complete", "output_commit_durability_uncertain"} => entry = w,
           s \in Refused \cup Uncaught => entry # w
    PROVE  Abstract!Next
<1>1. Said' = [Said EXCEPT ![w] = VerdictOf(s)] /\ Said[w] = "pending"
  BY Pending DEF IInv, TypeOK, Exit, Said
<1>2. VerdictOf(s) \in Abstract!Verdicts \ {"pending"}
  BY DEF VerdictOf, Abstract!Verdicts, Statuses, Refused, Uncaught
<1>3. VerdictOf(s) \in {"published", "unconfirmed"} => entry = w
  BY DEF VerdictOf, Statuses, Refused, Uncaught
<1>4. VerdictOf(s) = "not_published" => entry # w
  BY DEF VerdictOf, Statuses, Refused, Uncaught
<1>5. Shown = entry /\ Shown' = entry'
  BY ShownIsEntry
<1>6. Abstract!Report(w, VerdictOf(s))
  BY <1>1, <1>2, <1>3, <1>4, <1>5 DEF Abstract!Report, Said
<1> QED
  BY <1>2, <1>6 DEF Abstract!Next

(* A step that changes no status and no entry is invisible.                *)
LEMMA Invisible ==
    ASSUME IInv, IInv', UNCHANGED <<status, entry>>
    PROVE  UNCHANGED Abstract!vars
<1>1. Shown = entry /\ Shown' = entry'
  BY ShownIsEntry
<1>2. Said' = Said
  BY DEF Said
<1> QED
  BY <1>1, <1>2 DEF Abstract!vars, Said

(* A run that moves on, with the entry as it was.                          *)
LEMMA GotoInvisible ==
    ASSUME IInv, IInv', NEW w \in Writers, NEW l, Goto(w, l), UNCHANGED entry
    PROVE  UNCHANGED Abstract!vars
BY Invisible DEF Goto

(* Every step of the staged commit is a step of AtomicPublish or invisible.*)
LEMMA StepImplements == IInv /\ IInv' /\ [Next]_vars => [Abstract!Next]_Abstract!vars
<1> SUFFICES ASSUME IInv, IInv', [Next]_vars
             PROVE  Abstract!Next \/ UNCHANGED Abstract!vars
  OBVIOUS
<1>0. Shown = entry /\ Shown' = entry'
  BY ShownIsEntry
<1>1. ASSUME NEW w \in Writers, RunStep(w) PROVE Abstract!Next \/ UNCHANGED Abstract!vars
  <2>0. pc[w] \notin {"sync_parent", "receipt", "exited"} => entry # w
    BY StagingUnseen DEF IInv, EntrySurvives
  <2> USE <2>0, Labels, ExitReports, GotoInvisible
  <2>1. CASE Compute(w)
    BY <2>1 DEF Compute, Refused, Uncaught
  <2>2. CASE ProbeDestination(w)
    BY <2>2 DEF ProbeDestination, Refused, Uncaught
  <2>3. CASE MakeStaging(w)
    BY <2>3 DEF MakeStaging, Refused, Uncaught
  <2>4. CASE WriteFile(w) \/ SyncFile(w)
    BY <2>4, Invisible DEF WriteFile, SyncFile
  <2>5. CASE WriteFails(w)
    BY <2>5 DEF WriteFails, Refused, Uncaught
  <2>6. CASE VerifyStaged(w)
    BY <2>6 DEF VerifyStaged, Refused, Uncaught
  <2>7. CASE SyncDirectory(w)
    BY <2>7 DEF SyncDirectory
  <2>8. CASE SyncFails(w)
    BY <2>8 DEF SyncFails, Refused, Uncaught
  <2>9. CASE Rename(w)
    <3>1. Said' = Said /\ Said[w] = "pending"
      BY <2>9, Pending DEF Rename, Goto, Said
    <3>2. Abstract!Publish(w)
      BY <1>0, <2>9, <3>1 DEF Abstract!Publish, Rename, Said
    <3> QED
      BY <3>2 DEF Abstract!Next
  <2>10. CASE RenameFails(w)
    BY <2>10 DEF RenameFails, Refused, Uncaught
  <2>11. CASE SyncParent(w)
    BY <2>11 DEF SyncParent
  <2>12. CASE SyncParentFails(w)
    <3>1. entry = w
      BY <2>12 DEF SyncParentFails, IInv, CommittedShown
    <3> QED
      BY <2>12, <3>1 DEF SyncParentFails, Refused, Uncaught
  <2>13. CASE Receipt(w)
    <3>1. entry = w
      BY <2>13 DEF Receipt, IInv, ReportedForever, EntrySurvives
    <3> QED
      BY <2>13, <3>1 DEF Receipt, Refused, Uncaught
  <2> QED
    BY <1>1, <2>1, <2>2, <2>3, <2>4, <2>5, <2>6, <2>7, <2>8, <2>9, <2>10, <2>11, <2>12,
       <2>13 DEF RunStep
<1>2. ASSUME NEW w \in Writers, Interrupt(w) PROVE Abstract!Next
  BY <1>2, Labels, ExitReports DEF Interrupt, Refused, Uncaught
<1>3. CASE OperatorEntry
  <2>1. Said' = Said
    BY <1>3 DEF OperatorEntry, Said
  <2>2. Abstract!OperatorEntry
    BY <1>0, <1>3, <2>1 DEF Abstract!OperatorEntry, OperatorEntry, OperatorEntries, Said
  <2> QED
    BY <2>2 DEF Abstract!Next
<1>4. CASE Crash
  <2> DEFINE dead == {w \in Writers : pc[w] \notin {"idle", "exited"}}
  <2>1. dead \in SUBSET {w \in Writers : Said[w] = "pending"}
    BY Pending
  <2>2. Said' = [w \in Writers |-> IF w \in dead THEN "unknown" ELSE Said[w]]
    <3>1. VerdictOf("killed") = "unknown"
      BY DEF VerdictOf, Refused, Uncaught
    <3>2. status' = [w \in Writers |-> IF w \in dead THEN "killed" ELSE status[w]]
      BY <1>4 DEF Crash
    <3> QED
      BY <3>1, <3>2 DEF Said
  <2>3. ASSUME NEW w \in Writers, Said[w] = "published" PROVE entry' = w
    <3>1. status[w] = "complete"
      BY <2>3 DEF Said, VerdictOf, IInv, TypeOK, Statuses, Refused, Uncaught
    <3> QED
      BY <1>4, <3>1 DEF IInv, ReportedForever, Crash
  <2>4. Abstract!Crash
    <3>1. entry' \in {entry, "absent", "empty"}
      BY <1>4 DEF Crash, IInv, EntrySurvives
    <3> HIDE DEF dead
    <3> QED
      BY <1>0, <2>1, <2>2, <2>3, <3>1 DEF Abstract!Crash, Said
  <2> QED
    BY <2>4 DEF Abstract!Next
<1>5. CASE UNCHANGED vars
  BY <1>5, Invisible DEF vars
<1> QED
  BY <1>1, <1>2, <1>3, <1>4, <1>5 DEF Next

(* The staged commit implements AtomicPublish.                             *)
THEOREM Refinement == Spec => ImplementsAtomicPublish
<1>1. Init => Abstract!Init
  <2>1. VerdictOf("running") = "pending"
    BY DEF VerdictOf, Refused, Uncaught
  <2>2. Init => Shown = "absent"
    BY WritersAssumption DEF Init, Shown
  <2> QED
    BY <2>1, <2>2 DEF Init, Abstract!Init
<1> QED
  BY <1>1, StepImplements, Invariance, PTL DEF Spec, ImplementsAtomicPublish, Abstract!Spec

-----------------------------------------------------------------------------
(* Why a run ends, as far as steps tell.  What it has left to do: places   *)
(* to go through, files to write, files to sync.                           *)
PlacesLeft ==
    [idle |-> 8, probe |-> 7, stage |-> 6, write |-> 5, sync |-> 4, rename |-> 3,
     sync_parent |-> 2, receipt |-> 1, exited |-> 0]
Unwritten(w) == {n \in Names : content[w][n] = "absent"}
Unsynced(w) == Names \ synced[w]
WorkLeft(w) == PlacesLeft[pc[w]] + Cardinality(Unwritten(w)) + Cardinality(Unsynced(w))

(* The parts of it are numbers.                                            *)
LEMMA WorkIs ==
    ASSUME TypeOK, NEW w \in Writers
    PROVE  /\ PlacesLeft[pc[w]] \in 0..8
           /\ Cardinality(Names) \in Nat
           /\ IsFiniteSet(Unwritten(w)) /\ Cardinality(Unwritten(w)) \in 0..Cardinality(Names)
           /\ IsFiniteSet(Unsynced(w)) /\ Cardinality(Unsynced(w)) \in 0..Cardinality(Names)
<1>1. pc[w] \in PCs
  BY DEF TypeOK
<1>2. PlacesLeft[pc[w]] \in 0..8
  BY <1>1 DEF PCs, PlacesLeft
<1>3. Unwritten(w) \in SUBSET Names /\ Unsynced(w) \in SUBSET Names
  BY DEF Unwritten, Unsynced
<1>4. \A s \in SUBSET Names : IsFiniteSet(s) /\ Cardinality(s) \in 0..Cardinality(Names)
  BY NamesAssumption, FS_Subset, FS_CardinalityType
<1> QED
  BY <1>2, <1>3, <1>4, NamesAssumption, FS_CardinalityType

(* Nothing is undone of what a run has done.                               *)
NothingUndone(w) ==
    /\ PlacesLeft[pc'[w]] <= PlacesLeft[pc[w]]
    /\ Unwritten(w)' \subseteq Unwritten(w) /\ Unsynced(w)' \subseteq Unsynced(w)

(* A step of its own does something.                                       *)
SomethingDone(w) ==
    \/ PlacesLeft[pc'[w]] < PlacesLeft[pc[w]]
    \/ Unwritten(w)' # Unwritten(w)
    \/ Unsynced(w)' # Unsynced(w)

(* What is done counts.                                                    *)
LEMMA WorkShrinks ==
    ASSUME TypeOK, TypeOK', NEW w \in Writers,
           NothingUndone(w)
    PROVE  /\ WorkLeft(w)' <= WorkLeft(w)
           /\ SomethingDone(w) => WorkLeft(w)' < WorkLeft(w)
<1> DEFINE p == PlacesLeft[pc[w]]   q == PlacesLeft[pc'[w]]
           a == Unwritten(w)        b == Unwritten(w)'
           c == Unsynced(w)         d == Unsynced(w)'
<1>1. /\ p \in Nat /\ IsFiniteSet(a) /\ Cardinality(a) \in Nat
      /\ IsFiniteSet(c) /\ Cardinality(c) \in Nat
  BY WorkIs
<1>2. /\ pc'[w] \in PCs
  BY DEF TypeOK
<1>3. q \in Nat
  BY <1>2 DEF PCs, PlacesLeft
<1>4. WorkLeft(w) = p + Cardinality(a) + Cardinality(c)
  BY DEF WorkLeft
<1>5. WorkLeft(w)' = q + Cardinality(b) + Cardinality(d)
  BY DEF WorkLeft
<1>6. b \in SUBSET a /\ d \in SUBSET c /\ q <= p
  BY DEF NothingUndone
<1>0. SomethingDone(w) => q < p \/ b # a \/ d # c
  BY DEF SomethingDone
<1> HIDE DEF p, q, a, b, c, d
<1>7. /\ Cardinality(b) \in Nat /\ Cardinality(b) <= Cardinality(a)
      /\ Cardinality(a) = Cardinality(b) => a = b
  BY <1>1, <1>6, FS_Subset, FS_CardinalityType
<1>8. /\ Cardinality(d) \in Nat /\ Cardinality(d) <= Cardinality(c)
      /\ Cardinality(c) = Cardinality(d) => c = d
  BY <1>1, <1>6, FS_Subset, FS_CardinalityType
<1>9. q + Cardinality(b) + Cardinality(d) <= p + Cardinality(a) + Cardinality(c)
  BY <1>1, <1>3, <1>6, <1>7, <1>8
<1>10. q < p \/ b # a \/ d # c
         => q + Cardinality(b) + Cardinality(d) < p + Cardinality(a) + Cardinality(c)
  BY <1>1, <1>3, <1>6, <1>7, <1>8
<1> QED
  BY <1>0, <1>4, <1>5, <1>9, <1>10

(* And leaves the other runs alone.                                       *)
OthersLeft(w) ==
    \A v \in Writers \ {w} :
        pc'[v] = pc[v] /\ content'[v] = content[v] /\ synced'[v] = synced[v]
Works(w) == NothingUndone(w) /\ SomethingDone(w) /\ OthersLeft(w)

(* Places only go down.                                                    *)
LEMMA PlaceWorks ==
    ASSUME TypeOK, NEW w \in Writers, NEW l \in PCs,
           Goto(w, l) \/ pc' = [pc EXCEPT ![w] = l],
           UNCHANGED <<content, synced>>, PlacesLeft[l] < PlacesLeft[pc[w]]
    PROVE  Works(w)
<1>1. /\ pc'[w] = l /\ \A v \in Writers \ {w} : pc'[v] = pc[v]
      /\ content' = content /\ synced' = synced
  BY DEF Goto, TypeOK
<1>2. Unwritten(w)' = Unwritten(w) /\ Unsynced(w)' = Unsynced(w)
  BY <1>1 DEF Unwritten, Unsynced
<1>3. PlacesLeft[l] \in Nat /\ PlacesLeft[pc[w]] \in Nat
  BY WorkIs DEF PCs, PlacesLeft
<1> QED
  BY <1>1, <1>2, <1>3 DEF Works, NothingUndone, SomethingDone, OthersLeft

(* A run's own step leaves it less to do, and the others what they had.    *)
LEMMA StepWorks ==
    ASSUME TypeOK, NEW w \in Writers, RunStep(w) \/ Interrupt(w)
    PROVE  Works(w)
<1>1. CASE WriteFile(w)
  <2>1. PICK n \in Names, c \in {"exact", "damaged"} :
          content[w][n] = "absent" /\ content' = [content EXCEPT ![w][n] = c]
    BY <1>1 DEF WriteFile
  <2>2. /\ \A m \in Names : content'[w][m] = IF m = n THEN c ELSE content[w][m]
        /\ \A v \in Writers \ {w} : content'[v] = content[v]
    BY <2>1 DEF TypeOK
  <2>3. Unwritten(w)' \subseteq Unwritten(w) /\ n \in Unwritten(w) /\ n \notin Unwritten(w)'
    BY <2>1, <2>2 DEF Unwritten
  <2>4. UNCHANGED <<pc, synced>> /\ PlacesLeft[pc[w]] <= PlacesLeft[pc[w]]
    BY <1>1, WorkIs DEF WriteFile
  <2> QED
    BY <2>2, <2>3, <2>4 DEF Unsynced, Works, NothingUndone, SomethingDone, OthersLeft
<1>2. CASE WriteFails(w)
  <2>1. PICK n \in Names :
          content[w][n] = "absent" /\ content' = [content EXCEPT ![w][n] = "damaged"]
    BY <1>2 DEF WriteFails
  <2>2. /\ \A m \in Names : content'[w][m] = IF m = n THEN "damaged" ELSE content[w][m]
        /\ \A v \in Writers \ {w} : content'[v] = content[v]
    BY <2>1 DEF TypeOK
  <2>3. Unwritten(w)' \subseteq Unwritten(w)
    BY <2>1, <2>2 DEF Unwritten
  <2>4. /\ pc[w] = "write" /\ pc'[w] = "exited" /\ synced' = synced
        /\ \A v \in Writers \ {w} : pc'[v] = pc[v]
    BY <1>2 DEF WriteFails, Exit, TypeOK
  <2> QED
    BY <2>2, <2>3, <2>4
    DEF Unsynced, PlacesLeft, Works, NothingUndone, SomethingDone, OthersLeft
<1>3. CASE SyncFile(w)
  <2>1. PICK n \in Names \ synced[w] : synced' = [synced EXCEPT ![w] = @ \cup {n}]
    BY <1>3 DEF SyncFile
  <2>2. /\ synced'[w] = synced[w] \cup {n}
        /\ \A v \in Writers \ {w} : synced'[v] = synced[v]
    BY <2>1 DEF TypeOK
  <2>3. Unsynced(w)' \subseteq Unsynced(w) /\ n \in Unsynced(w) /\ n \notin Unsynced(w)'
    BY <2>1, <2>2 DEF Unsynced
  <2>4. UNCHANGED <<pc, content>> /\ PlacesLeft[pc[w]] <= PlacesLeft[pc[w]]
    BY <1>3, WorkIs DEF SyncFile
  <2> QED
    BY <2>2, <2>3, <2>4 DEF Unwritten, Works, NothingUndone, SomethingDone, OthersLeft
<1>4. CASE \/ Compute(w) \/ ProbeDestination(w) \/ MakeStaging(w) \/ VerifyStaged(w)
           \/ SyncDirectory(w) \/ SyncFails(w) \/ Rename(w) \/ RenameFails(w)
           \/ SyncParent(w) \/ SyncParentFails(w) \/ Receipt(w) \/ Interrupt(w)
  <2>1. UNCHANGED <<content, synced>>
    BY <1>4 DEF Compute, ProbeDestination, MakeStaging, VerifyStaged, SyncDirectory, SyncFails,
                Rename, RenameFails, SyncParent, SyncParentFails, Receipt, Interrupt, packetVars
  <2>2. pc[w] \in PCs
    BY DEF TypeOK
  <2>3. \E l \in PCs : pc' = [pc EXCEPT ![w] = l] /\ PlacesLeft[l] < PlacesLeft[pc[w]]
    BY <1>4, <2>2
    DEF Compute, ProbeDestination, MakeStaging, VerifyStaged, SyncDirectory, SyncFails,
        Rename, RenameFails, SyncParent, SyncParentFails, Receipt, Interrupt,
        Goto, Exit, PCs, PlacesLeft
  <2> QED
    BY <2>1, <2>3, PlaceWorks
<1> QED
  BY <1>1, <1>2, <1>3, <1>4 DEF RunStep

(* What is not touched is not undone.                                      *)
LEMMA UntouchedWorks ==
    ASSUME TypeOK, NEW w \in Writers,
           pc'[w] = pc[w], content'[w] = content[w], synced'[w] = synced[w]
    PROVE  NothingUndone(w)
<1>1. PlacesLeft[pc[w]] <= PlacesLeft[pc[w]]
  BY WorkIs
<1>2. Unwritten(w)' \subseteq Unwritten(w)
  BY DEF Unwritten
<1>3. Unsynced(w)' \subseteq Unsynced(w)
  BY DEF Unsynced
<1> QED
  BY <1>1, <1>2, <1>3 DEF NothingUndone

(* The environment undoes nothing either: what a crash damages was there,  *)
(* and the run is over.                                                    *)
LEMMA EnvironmentWorks ==
    ASSUME TypeOK, OperatorEntry \/ Crash, NEW w \in Writers
    PROVE  NothingUndone(w)
<1>1. CASE OperatorEntry
  BY <1>1, UntouchedWorks DEF OperatorEntry, packetVars
<1>2. CASE Crash
  <2>1. pc[w] \in PCs /\ pc'[w] = (IF pc[w] = "idle" THEN "idle" ELSE "exited")
        /\ synced' = synced
    BY <1>2 DEF Crash, TypeOK
  <2>2. PlacesLeft[pc'[w]] <= PlacesLeft[pc[w]]
    BY <2>1 DEF PCs, PlacesLeft
  <2>3. \A n \in Names : content'[w][n] \in {"damaged", content[w][n]}
    BY <1>2 DEF Crash
  <2>4. Unwritten(w)' \subseteq Unwritten(w)
    BY <2>3 DEF Unwritten
  <2> QED
    BY <2>1, <2>2, <2>4 DEF NothingUndone, Unsynced
<1> QED
  BY <1>1, <1>2

(* What a step may do to the work left of each run.                        *)
RunsWork ==
    \A w \in Writers :
        /\ WorkLeft(w)' <= WorkLeft(w)
        /\ RunStep(w) \/ Interrupt(w) => WorkLeft(w)' < WorkLeft(w)

(* A run takes at most 8 + 2 * Cardinality(Names) steps of its own, each   *)
(* of which leaves it less to do, and nothing that other runs, the         *)
(* operator or a crash do gives it more: the part of Terminates that is no *)
(* matter of fairness (cli.py:184-223, 298-317).                           *)
THEOREM RunsAreBounded ==
    Spec => /\ [](\A w \in Writers : WorkLeft(w) \in 0..(8 + 2 * Cardinality(Names)))
            /\ [][RunsWork]_vars
<1>1. TypeOK => \A w \in Writers : WorkLeft(w) \in 0..(8 + 2 * Cardinality(Names))
  BY WorkIs DEF WorkLeft
<1>2. TypeOK /\ TypeOK' /\ [Next]_vars => [RunsWork]_vars
  <2> SUFFICES ASSUME TypeOK, TypeOK', Next, NEW w \in Writers
               PROVE  /\ WorkLeft(w)' <= WorkLeft(w)
                      /\ RunStep(w) \/ Interrupt(w) => WorkLeft(w)' < WorkLeft(w)
    BY DEF RunsWork
  <2>1. CASE RunStep(w) \/ Interrupt(w)
    <3>1. NothingUndone(w) /\ SomethingDone(w)
      BY <2>1, StepWorks DEF Works
    <3> QED
      BY <3>1, WorkShrinks
  <2>2. CASE ~(RunStep(w) \/ Interrupt(w))
    <3>1. NothingUndone(w)
      <4>1. CASE OperatorEntry \/ Crash
        BY <4>1, EnvironmentWorks
      <4>2. CASE \E v \in Writers : RunStep(v) \/ Interrupt(v)
        <5>1. PICK v \in Writers : RunStep(v) \/ Interrupt(v)
          BY <4>2
        <5>2. pc'[w] = pc[w] /\ content'[w] = content[w] /\ synced'[w] = synced[w]
          BY <2>2, <5>1, StepWorks DEF Works, OthersLeft
        <5> QED
          BY <5>2, UntouchedWorks
      <4> QED
        BY <4>1, <4>2 DEF Next
    <3> QED
      BY <2>2, <3>1, WorkShrinks
  <2> QED
    BY <2>1, <2>2
<1> QED
  BY <1>1, <1>2, TypeCorrect, PTL DEF Spec
=============================================================================
