---------------------------- MODULE PacketCommit ----------------------------
(***************************************************************************)
(* The persistence half of one run of the command (cli.run_fixture from    *)
(* the destination check on, then main and entrypoint): stage the packet   *)
(* beside the destination, read it back, fsync it, commit it with one      *)
(* rename, fsync the parent.  Several runs may name the same output path;  *)
(* the operator may create something there meanwhile; any file operation   *)
(* may fail; Ctrl-C may arrive anywhere; the machine may crash and lose    *)
(* whatever was not synced.                                                *)
(***************************************************************************)
EXTENDS Naturals, FiniteSets

CONSTANTS
    Writers,          \* the runs that name the same output path
    Names,            \* the files of a packet (the keys of "expected")
    Ledger,           \* ledger.jsonl, the one written first
    MaxCrashes        \* bound: crashes of the machine in one behaviour

ASSUME LedgerAssumption == Ledger \in Names
ASSUME NamesAssumption == IsFiniteSet(Names)
ASSUME CrashAssumption == MaxCrashes \in Nat
ASSUME WritersAssumption == Writers \cap {"absent", "empty", "foreign", "torn"} = {}

VARIABLES
    pc,               \* where each run is
    status,           \* how it ended: the text after "failed_closed=", or the exception
    content,          \* per run and file: is it there, and are its bytes the expected ones
    synced,           \* per run: the files whose fsync returned
    dirSynced,        \* per run: the fsync of the packet directory returned
    entry,            \* the directory entry "output" names
    survivors,        \* the entries a crash may leave under that name
    crashes

packetVars == <<content, synced, dirSynced>>
vars == <<pc, status, content, synced, dirSynced, entry, survivors, crashes>>

PCs == {"idle", "probe", "stage", "write", "sync", "rename", "sync_parent",
        "receipt", "exited"}

(* ValidationError texts, and the other ways a run ends.                   *)
Refused == {"input_rejected", "output_directory_unavailable",
            "staged_packet_rejected", "output_persistence_failed"}
Uncaught == {"uncaught_error", "destination_probe_error"}
Statuses == Refused \cup Uncaught \cup
            {"running", "complete", "output_commit_durability_uncertain",
             "receipt_error", "cancelled", "killed"}

Contents == {"absent", "damaged", "exact"}

(* Nothing, an empty directory, or anything else that is not a packet.     *)
OperatorEntries == {"empty", "foreign"}
Entries == Writers \cup {"absent"} \cup OperatorEntries

(* The places and endings of run_fixture, and what is on the disk.         *)
TypeOK ==
    /\ pc \in [Writers -> PCs]
    /\ status \in [Writers -> Statuses]
    /\ content \in [Writers -> [Names -> Contents]]
    /\ synced \in [Writers -> SUBSET Names]
    /\ dirSynced \in [Writers -> BOOLEAN]
    /\ entry \in Entries
    /\ survivors \in SUBSET Entries
    /\ crashes \in 0..MaxCrashes

Init ==
    /\ pc = [w \in Writers |-> "idle"]
    /\ status = [w \in Writers |-> "running"]
    /\ content = [w \in Writers |-> [n \in Names |-> "absent"]]
    /\ synced = [w \in Writers |-> {}]
    /\ dirSynced = [w \in Writers |-> FALSE]
    /\ entry = "absent"
    /\ survivors = {"absent"}
    /\ crashes = 0

-----------------------------------------------------------------------------
Goto(w, l) == pc' = [pc EXCEPT ![w] = l] /\ UNCHANGED status

(* Mutant: every ending but success is recorded under one wrong name. *)
ExitForgetsReason(w, s) ==
    /\ pc' = [pc EXCEPT ![w] = "exited"]
    /\ status' = [status EXCEPT ![w] = IF s = "complete" THEN s ELSE "failed"]

Exit(w, s) ==
    /\ pc' = [pc EXCEPT ![w] = "exited"]
    /\ status' = [status EXCEPT ![w] = s]

(* The process status entrypoint turns an ending into: 2 for a             *)
(* ValidationError, 130 for Ctrl-C; any other exception is a traceback (1).*)
ExitCode(s) ==
    CASE s = "complete" -> 0
      [] s \in Refused \cup {"output_commit_durability_uncertain"} -> 2
      [] s = "cancelled" -> 130
      [] OTHER -> 1

(* Ingestion, analysis, replay and rendering happen in memory: they touch  *)
(* no file at the destination and either give the packet or an exception.  *)
Compute(w) ==
    /\ pc[w] = "idle"
    /\ \/ Goto(w, "probe")
       \/ Exit(w, "input_rejected")
       \/ Exit(w, "uncaught_error")
    /\ UNCHANGED <<packetVars, entry, survivors, crashes>>

(* Mutant: wait for the destination to become free. *)
ProbeWaits(w) ==
    /\ pc[w] = "probe"
    /\ entry = "absent"
    /\ Goto(w, "stage")
    /\ UNCHANGED <<packetVars, entry, survivors, crashes>>

(* output.exists() or output.is_symlink(): an OSError of the first (a name *)
(* too long, a parent that cannot be searched) is outside every try.       *)
ProbeDestination(w) ==
    /\ pc[w] = "probe"
    /\ \/ entry = "absent" /\ Goto(w, "stage")
       \/ entry # "absent" /\ Exit(w, "output_directory_unavailable")
       \/ Exit(w, "destination_probe_error")
    /\ UNCHANGED <<packetVars, entry, survivors, crashes>>

MakeStaging(w) ==
    /\ pc[w] = "stage"
    /\ Goto(w, "write") \/ Exit(w, "output_directory_unavailable")
    /\ UNCHANGED <<packetVars, entry, survivors, crashes>>

(* write_ledger, then _write_ascii of each artifact; the bytes that reach  *)
(* the file may silently not be the ones handed over.                      *)
WriteFile(w) ==
    /\ pc[w] = "write"
    /\ \E n \in Names, c \in {"exact", "damaged"} :
         /\ content[w][n] = "absent"
         /\ n = Ledger \/ content[w][Ledger] # "absent"
         /\ content' = [content EXCEPT ![w][n] = c]
    /\ UNCHANGED <<pc, status, synced, dirSynced, entry, survivors, crashes>>

(* A full disk, an I/O error: the file at hand stays, partly written.      *)
WriteFails(w) ==
    /\ pc[w] = "write"
    /\ \E n \in Names :
         /\ content[w][n] = "absent"
         /\ n = Ledger \/ content[w][Ledger] # "absent"
         /\ content' = [content EXCEPT ![w][n] = "damaged"]
    /\ Exit(w, "output_persistence_failed")
    /\ UNCHANGED <<synced, dirSynced, entry, survivors, crashes>>

PacketExact(w) == \A n \in Names : content[w][n] = "exact"

(* Mutant: only the file names are compared. *)
VerifyNamesOnly(w) ==
    /\ pc[w] = "write"
    /\ \A n \in Names : content[w][n] # "absent"
    /\ Goto(w, "sync") \/ Exit(w, "staged_packet_rejected")
    /\ UNCHANGED <<packetVars, entry, survivors, crashes>>

(* _verify_staged_packet: the exact file set, the exact bytes.  A file     *)
(* that cannot be read back is a ValidationError too.                      *)
VerifyStaged(w) ==
    /\ pc[w] = "write"
    /\ \A n \in Names : content[w][n] # "absent"
    /\ \/ PacketExact(w) /\ Goto(w, "sync")
       \/ Exit(w, "staged_packet_rejected")
    /\ UNCHANGED <<packetVars, entry, survivors, crashes>>

(* _sync_directory_tree: every file, then the directory that holds them.   *)
SyncFile(w) ==
    /\ pc[w] = "sync"
    /\ \E n \in Names \ synced[w] : synced' = [synced EXCEPT ![w] = @ \cup {n}]
    /\ UNCHANGED <<pc, status, content, dirSynced, entry, survivors, crashes>>

(* Mutant: the directory alone is synced. *)
SyncDirectoryOnly(w) ==
    /\ pc[w] = "sync"
    /\ dirSynced' = [dirSynced EXCEPT ![w] = TRUE]
    /\ Goto(w, "rename")
    /\ UNCHANGED <<content, synced, entry, survivors, crashes>>

SyncDirectory(w) ==
    /\ pc[w] = "sync"
    /\ synced[w] = Names
    /\ dirSynced' = [dirSynced EXCEPT ![w] = TRUE]
    /\ Goto(w, "rename")
    /\ UNCHANGED <<content, synced, entry, survivors, crashes>>

SyncFails(w) ==
    /\ pc[w] = "sync"
    /\ Exit(w, "output_persistence_failed")
    /\ UNCHANGED <<packetVars, entry, survivors, crashes>>

(* Mutant: whatever is at the destination is removed first. *)
RenameOver(w) ==
    /\ pc[w] = "rename"
    /\ entry' = w
    /\ survivors' = survivors \cup {w}
    /\ Goto(w, "sync_parent")
    /\ UNCHANGED <<packetVars, crashes>>

(* os.replace(staging, output): rename(2) of a directory replaces nothing  *)
(* or an empty directory, and fails on a file, a link or a full directory. *)
(* Until the parent is synced a crash may undo it.                         *)
Rename(w) ==
    /\ pc[w] = "rename"
    /\ entry \in {"absent", "empty"}
    /\ entry' = w
    /\ survivors' = survivors \cup {w}
    /\ Goto(w, "sync_parent")
    /\ UNCHANGED <<packetVars, crashes>>

RenameFails(w) ==
    /\ pc[w] = "rename"
    /\ Exit(w, "output_persistence_failed")
    /\ UNCHANGED <<packetVars, entry, survivors, crashes>>

(* os.fsync(parent_fd)                                                     *)
SyncParent(w) ==
    /\ pc[w] = "sync_parent"
    /\ survivors' = {entry}
    /\ Goto(w, "receipt")
    /\ UNCHANGED <<packetVars, entry, crashes>>

(* Mutant: the failed sync of the parent is ignored. *)
SyncParentIgnored(w) ==
    /\ pc[w] = "sync_parent"
    /\ Goto(w, "receipt")
    /\ UNCHANGED <<packetVars, entry, survivors, crashes>>

SyncParentFails(w) ==
    /\ pc[w] = "sync_parent"
    /\ Exit(w, "output_commit_durability_uncertain")
    /\ UNCHANGED <<packetVars, entry, survivors, crashes>>

(* main prints the receipt, which reads diagnostic.json back; an exception *)
(* there escapes although the packet is committed.                         *)
Receipt(w) ==
    /\ pc[w] = "receipt"
    /\ Exit(w, "complete") \/ Exit(w, "receipt_error")
    /\ UNCHANGED <<packetVars, entry, survivors, crashes>>

(* KeyboardInterrupt, wherever the run is: nothing is cleaned up, nothing  *)
(* undone.                                                                 *)
Interrupt(w) ==
    /\ pc[w] # "exited"
    /\ Exit(w, "cancelled")
    /\ UNCHANGED <<packetVars, entry, survivors, crashes>>

-----------------------------------------------------------------------------
(* The operator creates a directory, or a file, a link or a directory with *)
(* something in it, at the output path.                                    *)
OperatorEntry ==
    /\ \/ entry = "absent" /\ entry' \in OperatorEntries
       \/ entry = "empty" /\ entry' = "foreign"
    /\ survivors' = survivors \cup {entry'}
    /\ UNCHANGED <<pc, status, packetVars, crashes>>

(* A file survives when it and its directory were synced; otherwise it may *)
(* come back missing or truncated.                                         *)
MayLose(w, n) ==
    /\ content[w][n] # "absent"
    /\ ~(n \in synced[w] /\ dirSynced[w])

Crash ==
    /\ crashes < MaxCrashes
    /\ crashes' = crashes + 1
    /\ entry' \in survivors
    /\ survivors' = {entry'}
    /\ \E lost \in SUBSET {f \in Writers \X Names : MayLose(f[1], f[2])} :
         content' = [w \in Writers |-> [n \in Names |->
                       IF <<w, n>> \in lost THEN "damaged" ELSE content[w][n]]]
    /\ pc' = [w \in Writers |-> IF pc[w] = "idle" THEN "idle" ELSE "exited"]
    /\ status' = [w \in Writers |-> IF pc[w] \in {"idle", "exited"}
                                      THEN status[w] ELSE "killed"]
    /\ UNCHANGED <<synced, dirSynced>>

(* The steps of the run itself, which the operating system schedules.      *)
RunStep(w) ==
    \/ Compute(w) \/ ProbeDestination(w) \/ MakeStaging(w)
    \/ WriteFile(w) \/ WriteFails(w) \/ VerifyStaged(w)
    \/ SyncFile(w) \/ SyncDirectory(w) \/ SyncFails(w)
    \/ Rename(w) \/ RenameFails(w)
    \/ SyncParent(w) \/ SyncParentFails(w) \/ Receipt(w)

Next ==
    \/ \E w \in Writers : RunStep(w) \/ Interrupt(w)
    \/ OperatorEntry
    \/ Crash

Spec == Init /\ [][Next]_vars

(* A run need not be started; once its packet is computed it goes on.      *)
FairSpec == Spec /\ \A w \in Writers : WF_vars(pc[w] # "idle" /\ RunStep(w))

-----------------------------------------------------------------------------
(* PROPERTIES                                                              *)

(* Whoever finds a run's packet at the output path finds all of its files, *)
(* byte for byte as they were computed, also after a crash (cli.py:195-198:*)
(* "never a partial packet").                                              *)
OnlyCompletePackets == entry \in Writers => PacketExact(entry)

(* The exit status tells the truth, then and after any later crash: 0 only *)
(* when the packet is there to stay, 2 only when the path does not show    *)
(* this run's packet and never will, unless the status says "uncertain"    *)
(* (cli.py:199-223 with entrypoint).                                       *)
ExitCodeTruthful ==
    \A w \in Writers : pc[w] = "exited" =>
        /\ ExitCode(status[w]) = 0 => survivors = {w}
        /\ ExitCode(status[w]) = 2 /\ status[w] # "output_commit_durability_uncertain"
              => w \notin survivors

(* No step of a run replaces a packet, or what the operator has put at the *)
(* path unless it is an empty directory (the check up front and os.replace *)
(* together); only a crash may take back what was not yet durable.         *)
NeverReplaced ==
    [][(entry \in Writers \cup {"foreign"}) => entry' = entry \/ crashes' # crashes]_vars

(* Once it has left the in-memory stages a run ends: no fault, no          *)
(* concurrent run and no operator entry can leave it waiting.              *)
Terminates == \A w \in Writers : pc[w] # "idle" ~> pc[w] = "exited"

(* What the detailed state shows of the abstract one: a packet that is not *)
(* whole would show as "torn", which AtomicPublish knows nothing of.       *)
Shown == IF entry \in Writers /\ ~PacketExact(entry) THEN "torn" ELSE entry

VerdictOf(s) ==
    CASE s = "running" -> "pending"
      [] s = "complete" -> "published"
      [] s = "output_commit_durability_uncertain" -> "unconfirmed"
      [] s \in Refused \cup Uncaught -> "not_published"
      [] s \in {"receipt_error", "cancelled", "killed"} -> "unknown"

Abstract == INSTANCE AtomicPublish WITH entry <- Shown,
                                        verdict <- [w \in Writers |-> VerdictOf(status[w])]

(* Every behaviour of the staged commit is one of AtomicPublish.           *)
ImplementsAtomicPublish == Abstract!Spec

(* Said of the code, and not so.  cli.py:185 "refuse an occupied           *)
(* destination up front": no run commits over anything at all.             *)
OccupiedDestinationRefused ==
    [][\A w \in Writers : entry' = w => entry \in {"absent", w} \/ crashes' # crashes]_vars

(* RELEASE_NOTES.md:47-50: an existing or unusable output directory maps to*)
(* output_directory_unavailable, exit status 2.                            *)
UnusableDestinationAbstains ==
    \A w \in Writers :
        status[w] \in {"output_directory_unavailable", "destination_probe_error"}
            => ExitCode(status[w]) = 2
=============================================================================
