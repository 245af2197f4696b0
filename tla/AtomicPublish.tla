---------------------------- MODULE AtomicPublish ----------------------------
(***************************************************************************)
(* What an operator may assume of a run's output path, whatever happens    *)
(* inside the runs: the path shows either nothing of a run or its whole    *)
(* packet, packets and operator data are never replaced, and the verdict a *)
(* run reports is true, also after a crash of the machine.  PacketCommit   *)
(* is the detailed specification, and is shown to implement this one.      *)
(***************************************************************************)
CONSTANT Writers      \* the runs of the command that name the same output path

VARIABLES
    entry,            \* what the output path shows
    verdict           \* what each run has told its caller

vars == <<entry, verdict>>

Verdicts == {"pending", "published", "unconfirmed", "not_published", "unknown"}

Init ==
    /\ entry = "absent"
    /\ verdict = [w \in Writers |-> "pending"]

(* A run's packet appears whole, in one step, where nothing was to lose.   *)
Publish(w) ==
    /\ verdict[w] = "pending"
    /\ entry \in {"absent", "empty"}
    /\ entry' = w
    /\ UNCHANGED verdict

(* A run ends.  It claims publication only of a packet that is there, and  *)
(* failure only of one that is not; "unknown" claims nothing (the run was  *)
(* cancelled, or died).                                                    *)
Report(w, v) ==
    /\ verdict[w] = "pending"
    /\ v \in {"published", "unconfirmed"} => entry = w
    /\ v = "not_published" => entry # w
    /\ verdict' = [verdict EXCEPT ![w] = v]
    /\ UNCHANGED entry

(* The operator puts something of his own at the path.                     *)
OperatorEntry ==
    /\ \/ entry = "absent" /\ entry' \in {"empty", "foreign"}
       \/ entry = "empty" /\ entry' = "foreign"
    /\ UNCHANGED verdict

(* The machine stops.  What was at the path may be gone, unless a run has  *)
(* reported it as published; the runs that were under way report nothing.  *)
Crash ==
    /\ entry' \in {entry, "absent", "empty"}
    /\ \A w \in Writers : verdict[w] = "published" => entry' = w
    /\ \E dead \in SUBSET {w \in Writers : verdict[w] = "pending"} :
         verdict' = [w \in Writers |-> IF w \in dead THEN "unknown" ELSE verdict[w]]

Next ==
    \/ \E w \in Writers : Publish(w)
    \/ \E w \in Writers, v \in Verdicts \ {"pending"} : Report(w, v)
    \/ OperatorEntry
    \/ Crash

Spec == Init /\ [][Next]_vars
=============================================================================
