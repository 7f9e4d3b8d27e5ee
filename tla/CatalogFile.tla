----------------------------- MODULE CatalogFile -----------------------------
(***************************************************************************)
(* What `tfperms catalog scaffold' promises about the file it extends: a   *)
(* command either adds its entry, in one step, to a file that then still   *)
(* decodes and has everything it had in the order it had it, or it refuses *)
(* and leaves the file as it is.  Two commands at one time, or one that is *)
(* killed or whose I/O fails, disturb this: from then on nothing is        *)
(* promised but that commands end.                                         *)
(***************************************************************************)
EXTENDS CatalogEntries

CONSTANTS Job, Requests, Texts

VARIABLES
    request,    \* what each command was asked for
    file,
    answer,     \* "none", "pending", "created", "updated" or "failed"
    disturbed

vars == <<request, file, answer, disturbed>>

Init ==
    /\ request \in [Job -> Requests]
    /\ file \in Texts
    /\ answer = [j \in Job |-> "none"]
    /\ disturbed = FALSE

Start(j) ==
    /\ answer[j] = "none"
    /\ answer' = [answer EXCEPT ![j] = "pending"]
    /\ UNCHANGED <<request, file, disturbed>>

(* Every heading keeps its entries, in order, at its front.                 *)
Extends(c, d) ==
    \/ IsEmpty(c)
    \/ /\ DOMAIN c \subseteq DOMAIN d
       /\ \A h \in DOMAIN c : IsPrefix(c[h].entries, d[h].entries)

(* What a command that added its entry says of the file it found.  Of one   *)
(* that was there but blank the comment on Created says "did not exist" as  *)
(* little as "appended to".                                                 *)
Answer(c) == IF c = Absent THEN {"created"} ELSE IF IsEmpty(c) THEN {"created", "updated"} ELSE {"updated"}

(* There is one more entry, the one asked for, and it was not there.        *)
Add(j) ==
    /\ answer[j] = "pending"
    /\ request[j].type \in Type
    /\ request[j] \notin Entries(file)
    /\ IsEmpty(file) \/ Decodes(file)
    /\ Decodes(file') /\ Extends(file, file')
    /\ Entries(file') = Entries(file) \union {request[j]}
    /\ \E a \in Answer(file) : answer' = [answer EXCEPT ![j] = a]
    /\ UNCHANGED <<request, disturbed>>

(* What mergeIntoDocument's comment calls "the section heading exists but   *)
(* its value is not a mapping".                                             *)
NoMapping(c, q) == IsDocument(c) /\ q.section \in DOMAIN c /\ c[q.section].kind # "map"

(* A command is refused for a reason.                                       *)
Refuse(j) ==
    /\ answer[j] = "pending"
    /\ \/ request[j].type \notin Type
       \/ request[j] \in Entries(file)
       \/ ~IsEmpty(file) /\ ~Decodes(file)
       \/ NoMapping(file, request[j])
    /\ answer' = [answer EXCEPT ![j] = "failed"]
    /\ UNCHANGED <<request, file, disturbed>>

(* The step that disturbs, and any step after it.                           *)
Disturb == disturbed' = TRUE /\ UNCHANGED request

Next == Disturb \/ \E j \in Job : Start(j) \/ Add(j) \/ Refuse(j)

(* A command that was started ends.                                         *)
Answers == \A j \in Job : answer[j] = "pending" ~> answer[j] # "pending"

Spec == Init /\ [][Next]_vars /\ Answers
=============================================================================
