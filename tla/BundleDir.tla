----------------------------- MODULE BundleDir -----------------------------
(***************************************************************************)
(* What the bundle tool promises of a bundle directory, whatever files it  *)
(* consists of (docs/concepts.md, "Bundle lifecycle"): a version is absent,*)
(* whole or, while a command works on it and after one was interrupted,    *)
(* torn.  A whole version is frozen: only a removal of the oldest version, *)
(* or an addition that was told to overwrite it, gives it up.              *)
(***************************************************************************)
EXTENDS Integers

CONSTANTS
    Versions,   \* contract versions; their order is the lexical one
    Docs,       \* OpenAPI documents, each of one version
    Rules,      \* contents of resolution.yaml
    Absent,     \* no such layer, no such file
    Torn        \* a layer or file caught half-written

VARIABLES
    ver,    \* version |-> Absent, Torn or the document it was generated from
    rules,  \* Absent, Torn or the contents of resolution.yaml
    job     \* the command being carried out

vars == <<ver, rules, job>>

NoJob == [op |-> "none", version |-> Absent, force |-> FALSE]

Jobs == [op : {"add", "remove", "retire"}, version : Versions, force : BOOLEAN]

Kept == {v \in Versions : ver[v] # Absent}

Oldest(v) == v \in Kept /\ \A w \in Kept : v <= w

Init ==
    /\ ver \in [Versions -> Docs \cup {Absent}]
    /\ \A v \in Versions : ver[v] # Absent => ver[v].version = v
    /\ rules = Absent
    /\ job = NoJob

Ask ==
    /\ job = NoJob
    /\ job' \in Jobs
    /\ UNCHANGED <<ver, rules>>

\* Also how an interrupted command ends.
Finish ==
    /\ job # NoJob
    /\ job' = NoJob
    /\ UNCHANGED <<ver, rules>>

Change(v, to) ==
    /\ v = job.version
    /\ ver' = [ver EXCEPT ![v] = to]
    /\ UNCHANGED rules

Begin(v) ==
    /\ job.op = "add" /\ ver[v] = Absent
    /\ Change(v, Torn)
    /\ UNCHANGED job

Publish(v) ==
    /\ job.op = "add" /\ ver[v] = Torn
    /\ \E d \in Docs : d.version = v /\ Change(v, d)
    /\ job' = NoJob

\* What may be given up, and in whose name.
Expendable(v) ==
    \/ job.op = "remove" /\ Oldest(v) /\ Kept # {v}
    \/ job.op = "add" /\ job.force

GiveUp(v) ==
    /\ ver[v] \in Docs /\ Expendable(v)
    /\ Change(v, Torn)
    /\ UNCHANGED job

Vanish(v) ==
    /\ ver[v] = Torn /\ Expendable(v)
    /\ Change(v, Absent)
    /\ job' \in {job, NoJob}

\* A command rewrites resolution.yaml only to retire a version.
Rewrite ==
    /\ job.op = "retire"
    /\ rules' \in Rules \cup {Torn}
    /\ job' \in {job, NoJob}
    /\ UNCHANGED ver

\* The operator's own edits, between commands.
Save ==
    /\ job = NoJob
    /\ rules' \in Rules
    /\ UNCHANGED <<ver, job>>

Next ==
    \/ Ask \/ Finish \/ Rewrite \/ Save
    \/ \E v \in Versions : Begin(v) \/ Publish(v) \/ GiveUp(v) \/ Vanish(v)

Spec == Init /\ [][Next]_vars
=============================================================================
