------------------------------ MODULE Scaffold ------------------------------
(***************************************************************************)
(* `tfperms catalog scaffold' commands on one catalog file, each a process *)
(* of its own: internal/catalog/scaffold.go, Scaffold and writeOrMerge.    *)
(* Scaffold reads the file twice, once to look for a duplicate and once to *)
(* merge, and writes it back with os.WriteFile, which truncates first; it  *)
(* takes no lock.  A command may be killed, and reading, creating a        *)
(* directory, opening or writing may fail.                                 *)
(*                                                                         *)
(* Abstractions.  One write call writes a whole text or nothing, but on    *)
(* top of what is there: unless it is the same text, a longer one shows    *)
(* beyond its end, and the outcome is taken to be unreadable.              *)
(***************************************************************************)
EXTENDS CatalogEntries, FiniteSets

CONSTANTS
    Job,        \* commands
    Requests,   \* what may be asked for: [section, type]
    NoType,     \* a blank resource type
    Texts,      \* what the file may hold at the start
    MaxFaults,  \* bound on the commands killed or failing in I/O
    Nothing

ASSUME RequestsAssumption ==
    /\ Requests \subseteq [section: Section, type: Type \union {NoType}]
    /\ NoType \notin Type
    /\ \A c \in Texts : IsContents(c)
    /\ MaxFaults \in Nat

VARIABLES
    request,    \* what each command was asked for
    file,
    pc,         \* "idle", "check", "read", "open", "write", "ok", "failed" or "killed"
    text,       \* what each command is about to write
    created,    \* the Created each command returns
    faults,
    overlaps,   \* history: pairs of commands that ran at one time
    halfway,    \* history: commands that ended between truncating and writing
    original,   \* history: the file at the start
    before      \* history: the file before it was truncated last

history == <<overlaps, halfway, original>>
vars == <<request, file, pc, text, created, faults, history, before>>

-----------------------------------------------------------------------------
Running(j) == pc[j] \in {"check", "read", "open", "write"}

Init ==
    /\ request \in [Job -> Requests]
    /\ file \in Texts
    /\ pc = [j \in Job |-> "idle"]
    /\ text = [j \in Job |-> Nothing]
    /\ created = [j \in Job |-> FALSE]
    /\ faults = 0
    /\ overlaps = {} /\ halfway = {}
    /\ original = file /\ before = file

Goto(j, label) == pc' = [pc EXCEPT ![j] = label]

(* A command is run, whatever others do.                                    *)
Start(j) ==
    /\ pc[j] = "idle"
    /\ Goto(j, "check")
    /\ overlaps' = overlaps \union {{j, k} : k \in {i \in Job : Running(i)}}
    /\ UNCHANGED <<request, file, text, created, faults, halfway, original, before>>

(* Mutant: only the resources section is searched.                          *)
IsDuplicate_Resources(q) == q.section = "resources" /\ q \in Entries(file)

IsDuplicate(q) == q \in Entries(file)

(* The argument is not blank and CheckDuplicate finds nothing.              *)
Accepts(q) ==
    /\ q.type # NoType
    /\ IsEmpty(file) \/ (Decodes(file) /\ ~IsDuplicate(q))

Check(j) ==
    /\ pc[j] = "check"
    /\ Goto(j, IF Accepts(request[j]) THEN "read" ELSE "failed")
    /\ UNCHANGED <<request, file, text, created, faults, history, before>>

(* writeOrMerge reads the file again; the check is not repeated.            *)
ReadEmpty(j) ==
    /\ pc[j] = "read" /\ IsEmpty(file)
    /\ text' = [text EXCEPT ![j] = Stub(request[j])]
    /\ created' = [created EXCEPT ![j] = TRUE]
    /\ Goto(j, "open")
    /\ UNCHANGED <<request, file, faults, history, before>>

ReadMerge(j) ==
    /\ pc[j] = "read" /\ ~IsEmpty(file)
    /\ IF CanMerge(file, request[j])
       THEN text' = [text EXCEPT ![j] = Merged(file, request[j])] /\ Goto(j, "open")
       ELSE UNCHANGED text /\ Goto(j, "failed")
    /\ UNCHANGED <<request, file, created, faults, history, before>>

(* os.WriteFile, first half: open with O_CREATE and O_TRUNC.                *)
Open(j) ==
    /\ pc[j] = "open"
    /\ before' = file
    /\ file' = Blank
    /\ Goto(j, "write")
    /\ UNCHANGED <<request, text, created, faults, history>>

(* Second half, at the start of a file someone else may have written since. *)
Outcomes(t) == IF file \in {Blank, t} THEN {t} ELSE {t, Garbled}

Write(j) ==
    /\ pc[j] = "write"
    /\ file' \in Outcomes(text[j])
    /\ Goto(j, "ok")
    /\ UNCHANGED <<request, text, created, faults, history, before>>

(* A system call fails and the command says so, or the command is killed;   *)
(* of a write that fails, part may have been done.                          *)
Fault(j) ==
    /\ Running(j)
    /\ faults < MaxFaults
    /\ \E end \in {"failed", "killed"} : Goto(j, end)
    /\ faults' = faults + 1
    /\ IF pc[j] = "write"
       THEN halfway' = halfway \union {j} /\ file' \in {file, Garbled}
       ELSE UNCHANGED <<halfway, file>>
    /\ UNCHANGED <<request, text, created, overlaps, original, before>>

Step(j) == Check(j) \/ ReadEmpty(j) \/ ReadMerge(j) \/ Open(j) \/ Write(j)

Next == \E j \in Job : Start(j) \/ Step(j) \/ Fault(j)

(* A running process keeps running; nobody has to start one.                *)
Spec == Init /\ [][Next]_vars /\ \A j \in Job : WF_vars(Step(j))
-----------------------------------------------------------------------------
Quiet == \A j \in Job : ~Running(j)
Succeeded == {j \in Job : pc[j] = "ok"}

(* Type of every variable; past the check a command asks for a type, and a  *)
(* text is there from the second read on.                                   *)
TypeOK ==
    /\ request \in [Job -> Requests]
    /\ IsContents(file) /\ IsContents(original) /\ IsContents(before)
    /\ pc \in [Job -> {"idle", "check", "read", "open", "write", "ok", "failed", "killed"}]
    /\ \A j \in Job : pc[j] \in {"read", "open", "write", "ok"} => request[j].type \in Type
    /\ DOMAIN text = Job
    /\ \A j \in Job : pc[j] \in {"open", "write", "ok"} =>
          IsDocument(text[j]) /\ IsContents(text[j])
    /\ created \in [Job -> BOOLEAN]
    /\ faults \in 0 .. MaxFaults
    /\ IsFiniteSet(halfway) /\ Cardinality(halfway) <= faults
    /\ halfway \subseteq {j \in Job : pc[j] \in {"failed", "killed"}}

(***************************************************************************)
(* An entry declared twice makes the file useless to the loader and to     *)
(* every later command.  That takes a race: a command that added the entry *)
(* ran at one time with another.                                           *)
(***************************************************************************)
Twice(h, t) ==
    /\ IsDocument(file) /\ h \in DOMAIN file
    /\ \E i, k \in DOMAIN file[h].entries : i # k /\ file[h].entries[i] = t /\ file[h].entries[k] = t

DoublingNeedsOverlap ==
    IsEmpty(original) \/ Decodes(original) =>
        \A h \in Section, t \in Type : Twice(h, t) =>
            \E j \in Succeeded : request[j] = [section |-> h, type |-> t] /\ j \in UNION overlaps

(***************************************************************************)
(* What the file had and what commands reported as added is there, unless  *)
(* commands overlapped or one ended between truncating and writing.        *)
(***************************************************************************)
LossNeedsCause ==
    Quiet /\ overlaps = {} /\ halfway = {} =>
        Entries(original) \union {request[j] : j \in Succeeded} \subseteq Entries(file)

(***************************************************************************)
(* Races and faults elsewhere leave the file as it was, torn, or with the  *)
(* entry of a command that reported success: never emptied, and never with *)
(* the success of every command that reported it lost.                     *)
(***************************************************************************)
LastWriteStands ==
    Quiet /\ halfway = {} =>
        \/ Succeeded = {} /\ file = original
        \/ file = Garbled
        \/ \E j \in Succeeded : request[j] \in Entries(file)

-----------------------------------------------------------------------------
(* As long as commands do not overlap, and none is killed or fails in I/O,  *)
(* they are the atomic additions CatalogFile describes: each takes effect   *)
(* when its text is written, and what is between truncation and writing is  *)
(* nobody's to see.                                                         *)
Disturbed == overlaps # {} \/ faults > 0

Promised == INSTANCE CatalogFile WITH
    file <- IF \E j \in Job : pc[j] = "write" THEN before ELSE file,
    answer <- [j \in Job |-> IF pc[j] = "idle" THEN "none"
                             ELSE IF Running(j) THEN "pending"
                             ELSE IF pc[j] # "ok" THEN pc[j]
                             ELSE IF created[j] THEN "created" ELSE "updated"],
    disturbed <- Disturbed

(* Commands implement the promise, and every one ends, disturbed or not.    *)
ImplementsCatalogFile == Promised!Spec

(***************************************************************************)
(* "Created is true when the target file did not exist before the call,    *)
(* false when the call appended to an existing file" (ScaffoldResult), of  *)
(* a command that nothing disturbs.                                        *)
(***************************************************************************)
CreatedMeansNew ==
    [][\A j \in Job : pc[j] = "write" /\ pc'[j] = "ok" /\ ~Disturbed => (created[j] <=> before = Absent)]_vars

=============================================================================
