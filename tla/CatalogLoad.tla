----------------------------- MODULE CatalogLoad -----------------------------
(***************************************************************************)
(* internal/catalog/loader.go and validator.go: LoadFS reads the yaml      *)
(* files of a directory in order, mergeFile adds the entries of each to    *)
(* the catalog, and validate looks at the merged catalog entry by entry.   *)
(* All three stop at the first error, and then there is no catalog.        *)
(*                                                                         *)
(* Abstractions.  Names of files and types are their ranks in lexical      *)
(* order.  Entries are those of CatalogSchema; of a file that the strict   *)
(* decoder refuses (an unknown section, a type twice, nothing at all) we   *)
(* keep only that it is garbled.                                           *)
(***************************************************************************)
EXTENDS CatalogSchema, SortedKeys

CONSTANTS
    Name,           \* names of directory entries, numbers
    Unreadable,     \* a directory that cannot be read
    Directories,    \* what the directory may hold
    Nothing

IsFile(f) ==
    /\ f.kind \in {"yaml", "other"}        \* a directory or .yml file is "other"
    /\ f.status \in {"ok", "unreadable", "garbled"}
    /\ \A s \in Section :
         /\ DOMAIN f.entries[s] \subseteq Type /\ IsFiniteSet(DOMAIN f.entries[s])
         /\ \A t \in DOMAIN f.entries[s] : IsEntry(s, f.entries[s][t])

ASSUME DirectoriesAssumption ==
    /\ Name \subseteq Nat
    /\ \A d \in Directories \ {Unreadable} :
         DOMAIN d \subseteq Name /\ IsFiniteSet(DOMAIN d) /\ \A n \in DOMAIN d : IsFile(d[n])

VARIABLES
    dir,        \* the directory
    pc,         \* "list", "read", "merge", "validate" or "done"
    files,      \* names of files still to read, the one at hand first
    todo,       \* entries of the file or the catalog still to do: [section, type]
    cat,        \* map: [section, type] -> entry, the three maps of Catalog
    firstSeen,  \* map: [section, type] -> the file that defined it
    result      \* [ok, ...] or Nothing

vars == <<dir, pc, files, todo, cat, firstSeen, result>>

-----------------------------------------------------------------------------
Put(m, k, v) == [x \in DOMAIN m \union {k} |-> IF x = k THEN v ELSE m[x]]

(* What is to be done about one section, by type.                           *)
Part(s, types) ==
    LET keys == Sorted(types)
    IN  [i \in DOMAIN keys |-> [section |-> s, type |-> keys[i]]]

(* Section after section, the keys of each in order.                        *)
Agenda(keysOf) ==
    Part("resources", keysOf["resources"])
      \o Part("data_sources", keysOf["data_sources"])
      \o Part("iam_bindings", keysOf["iam_bindings"])

Init ==
    /\ dir \in Directories
    /\ pc = "list"
    /\ files = <<>> /\ todo = <<>>
    /\ cat = <<>> /\ firstSeen = <<>>
    /\ result = Nothing

Fail(stage, at) ==
    /\ result' = [ok |-> FALSE, stage |-> stage, at |-> at]
    /\ pc' = "done"
    /\ UNCHANGED <<dir, files, todo, cat>>

(* fs.ReadDir.                                                              *)
ListFails == pc = "list" /\ dir = Unreadable /\ Fail("list", 0) /\ UNCHANGED firstSeen

(* Mutant: files are taken in the order the directory lists them.           *)
Files_Reversed == Reverse(Sorted({n \in DOMAIN dir : dir[n].kind = "yaml"}))

(* The .yaml files, by name.                                                *)
Files == Sorted({n \in DOMAIN dir : dir[n].kind = "yaml"})

List ==
    /\ pc = "list" /\ dir # Unreadable
    /\ files' = Files
    /\ pc' = "read"
    /\ UNCHANGED <<dir, todo, cat, firstSeen, result>>

File == dir[Head(files)]

(* fs.ReadFile fails, or the strict decoder of rawFile does.                *)
ReadFails ==
    /\ pc = "read" /\ files # <<>>
    /\ File.status # "ok"
    /\ Fail("read", Head(files))
    /\ UNCHANGED firstSeen

ReadFile ==
    /\ pc = "read" /\ files # <<>>
    /\ File.status = "ok"
    /\ todo' = Agenda([s \in Section |-> DOMAIN File.entries[s]])
    /\ pc' = "merge"
    /\ UNCHANGED <<dir, files, cat, firstSeen, result>>

Key == Head(todo)
Found == File.entries[Key.section][Key.type]

(* Mutant: a redefinition is looked for in the file at hand only.           *)
SeenBefore_SameFile == Key \in DOMAIN firstSeen /\ firstSeen[Key] = Head(files)

SeenBefore == Key \in DOMAIN firstSeen

Merging == pc = "merge" /\ todo # <<>>

Duplicate ==
    /\ Merging
    /\ SeenBefore
    /\ Fail("duplicate", Head(files))
    /\ UNCHANGED firstSeen

EntryFails ==
    /\ Merging
    /\ ~SeenBefore
    /\ Found = Malformed
    /\ firstSeen' = Put(firstSeen, Key, Head(files))
    /\ Fail("decode", Head(files))

(* Mutant: where an entry was found is not noted.                           *)
Insert_Unseen ==
    /\ Merging
    /\ ~SeenBefore
    /\ Found # Malformed
    /\ cat' = Put(cat, Key, Found)
    /\ todo' = Tail(todo)
    /\ UNCHANGED <<dir, pc, files, firstSeen, result>>

Insert ==
    /\ Merging
    /\ ~SeenBefore
    /\ Found # Malformed
    /\ cat' = Put(cat, Key, Found)
    /\ firstSeen' = Put(firstSeen, Key, Head(files))
    /\ todo' = Tail(todo)
    /\ UNCHANGED <<dir, pc, files, result>>

FileDone ==
    /\ pc = "merge" /\ todo = <<>>
    /\ files' = Tail(files)
    /\ pc' = "read"
    /\ UNCHANGED <<dir, todo, cat, firstSeen, result>>

FilesDone ==
    /\ pc = "read" /\ files = <<>>
    /\ todo' = Agenda([s \in Section |-> {t \in Type : [section |-> s, type |-> t] \in DOMAIN cat}])
    /\ pc' = "validate"
    /\ UNCHANGED <<dir, files, cat, firstSeen, result>>

(* What validate*Entry accept: a binding's parent is a resource of some     *)
(* file, read before or after its own.                                      *)
Passes(k) ==
    /\ SoundAlone(k.section, cat[k])
    /\ k.section = "iam_bindings" => [section |-> "resources", type |-> cat[k].parent_resource] \in DOMAIN cat

Validating == pc = "validate" /\ todo # <<>>

Accept ==
    /\ Validating
    /\ Passes(Key)
    /\ todo' = Tail(todo)
    /\ UNCHANGED <<dir, pc, files, cat, firstSeen, result>>

Reject ==
    /\ Validating
    /\ ~Passes(Key)
    /\ Fail("validate", firstSeen[Key])
    /\ UNCHANGED firstSeen

Return ==
    /\ pc = "validate" /\ todo = <<>>
    /\ result' = [ok |-> TRUE, catalog |-> cat]
    /\ pc' = "done"
    /\ UNCHANGED <<dir, files, todo, cat, firstSeen>>

Next ==
    \/ ListFails \/ List
    \/ ReadFails \/ ReadFile \/ Duplicate \/ EntryFails \/ Insert \/ FileDone
    \/ FilesDone \/ Accept \/ Reject \/ Return

(* One goroutine that nothing blocks.                                       *)
Spec == Init /\ [][Next]_vars /\ WF_vars(Next)

-----------------------------------------------------------------------------
(* Type of every variable; an entry of the catalog is the one its file has, *)
(* and what is still to merge is not there yet unless another file had it.  *)
TypeOK ==
    /\ pc \in {"list", "read", "merge", "validate", "done"}
    /\ pc \in {"read", "merge"} => \A i \in DOMAIN files : dir[files[i]].kind = "yaml"
    /\ pc = "merge" => files # <<>>
    /\ pc # "done" => DOMAIN cat = DOMAIN firstSeen
    /\ \A k \in DOMAIN cat : cat[k] = dir[firstSeen[k]].entries[k.section][k.type]
    /\ pc = "merge" =>
         /\ \A i, j \in DOMAIN todo : todo[i] = todo[j] => i = j
         /\ \A i \in DOMAIN todo : todo[i] \in DOMAIN cat => firstSeen[todo[i]] # Head(files)

-----------------------------------------------------------------------------
(* What the directory says as a whole, in no order.                         *)
YamlFiles == {n \in DOMAIN dir : dir[n].kind = "yaml"}
Declares(n, s, t) == t \in DOMAIN dir[n].entries[s]
Declarations(F) == {d \in F \X Section \X Type : Declares(d[1], d[2], d[3])}

Mergeable(F) ==
    /\ \A n \in F : dir[n].status = "ok"
    /\ \A d \in Declarations(F) : dir[d[1]].entries[d[2]][d[3]] # Malformed
    /\ \A d, e \in Declarations(F) : d[2] = e[2] /\ d[3] = e[3] => d = e

Usable ==
    /\ dir # Unreadable
    /\ Mergeable(YamlFiles)
    /\ \A d \in Declarations(YamlFiles) :
         LET e == dir[d[1]].entries[d[2]][d[3]]
         IN  /\ SoundAlone(d[2], e)
             /\ d[2] = "iam_bindings" => \E n \in YamlFiles : Declares(n, "resources", e.parent_resource)

(***************************************************************************)
(* A catalog is all there or not at all: a usable directory gives every    *)
(* entry of every file and no other, and only a usable one does: no        *)
(* definition silently replaces another, and no IAM binding is left        *)
(* without its parent resource, whichever of their files comes first.      *)
(***************************************************************************)
AllOrNothing ==
    pc = "done" =>
        /\ result.ok = Usable
        /\ result.ok =>
             /\ DOMAIN result.catalog = {[section |-> d[2], type |-> d[3]] : d \in Declarations(YamlFiles)}
             /\ \A d \in Declarations(YamlFiles) :
                  result.catalog[[section |-> d[2], type |-> d[3]]] = dir[d[1]].entries[d[2]][d[3]]

(***************************************************************************)
(* "Any duplicate type error message reports the same first file across    *)
(* runs": an error of the merge names the first file that does not merge   *)
(* with those before it, and one of validation means that all merge.       *)
(***************************************************************************)
UpTo(n) == {m \in YamlFiles : m <= n}

FirstErrorIsStable ==
    pc = "done" /\ ~result.ok /\ dir # Unreadable =>
        IF result.stage = "validate"
        THEN Mergeable(YamlFiles)
        ELSE /\ result.at \in YamlFiles /\ ~Mergeable(UpTo(result.at))
             /\ \A m \in YamlFiles : m < result.at => Mergeable(UpTo(m))

=============================================================================
