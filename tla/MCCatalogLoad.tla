---------------------------- MODULE MCCatalogLoad ----------------------------
(***************************************************************************)
(* CatalogLoad and CatalogStats for TLC: a directory of at most three      *)
(* names, of which two hold up to two entries each, so that a type is      *)
(* defined twice, a parent comes before or after its binding, and anything *)
(* may be wrong anywhere; stubs with any of their fields filled in; and    *)
(* catalogs of several sound entries, with equal dates and constraints.    *)
(***************************************************************************)
EXTENDS CatalogStats

MCName == 1 .. 3
MCType == 1 .. 2
MCIdentifier == {"versioning", "count"}

(* An entry with nothing wrong, for each section and date and constraint.   *)
Sound(s, method, at, constraint) ==
    [f \in Fields(s) \union {"conditionals"} |->
        CASE f = "method" -> method
          [] f = "verified_at" -> at
          [] f = "tested_against_provider" -> constraint
          [] f = "parent_resource" -> 1
          [] f = "conditionals" -> <<>>
          [] f \in Stages(s) -> <<"get">>
          [] f = "source_urls" -> <<"url">>
          [] OTHER -> "6.1"]

Good(s) == Sound(s, "empirical", 3, 1)
Invalid(s) == [Good(s) EXCEPT !.method = Blank]
Binding(parent) == [Good("iam_bindings") EXCEPT !.parent_resource = parent]

Maps(S) == {<<>>} \union {t :> e : t \in MCType, e \in S}
Held(r, d, b) == [s \in Section |-> IF s = "resources" THEN r ELSE IF s = "data_sources" THEN d ELSE b]

Yaml(entries) == [kind |-> "yaml", status |-> "ok", entries |-> entries]
Bad(status) == [kind |-> "yaml", status |-> status, entries |-> Held(<<>>, <<>>, <<>>)]
Other == [kind |-> "other", status |-> "garbled", entries |-> Held(1 :> Good("resources"), <<>>, <<>>)]

-----------------------------------------------------------------------------
(* Several files, with something wrong anywhere.                            *)
Resources ==
    Maps({Malformed, Invalid("resources"), Good("resources")})
      \union {1 :> Good("resources") @@ 2 :> Good("resources")}
DataSources == {<<>>, 1 :> Good("data_sources"), 2 :> Malformed}
Bindings == Maps({Binding(p) : p \in MCType \union {Blank}})

Full == {Yaml(Held(r, d, b)) : r \in Resources, d \in DataSources, b \in Bindings}
Small == {Yaml(Held(r, d, <<>>)) : r \in Resources, d \in {<<>>, 1 :> Good("data_sources")}}
            \union {Yaml(Held(<<>>, <<>>, b)) : b \in Bindings}

Several ==
    {1 :> f @@ 2 :> g : f \in Full, g \in Small \union {Other}}
      \union {1 :> g @@ 2 :> f : f \in Full, g \in Small}
      \union {1 :> f @@ 2 :> g @@ 3 :> h :
                f \in Small, g \in {Bad("unreadable"), Bad("garbled"), Other}, h \in Small}

-----------------------------------------------------------------------------
(* One entry of a section, with the parent that a binding needs.            *)
One(s, e) ==
    1 :> Yaml(Held(IF s = "resources" THEN 2 :> e ELSE 1 :> Good("resources"),
                   IF s = "data_sources" THEN 2 :> e ELSE <<>>,
                   IF s = "iam_bindings" THEN 2 :> e ELSE <<>>))

Conditional(s, when, perms) == [when |-> when, permissions |-> [stage \in Stages(s) |-> IF stage = "plan" THEN perms ELSE <<>>]]
(* A list long enough for places of two digits: TODO at plan[1] and [2],    *)
(* plan[10] and [11].                                                       *)
Twelve == [i \in 1 .. 12 |-> IF i \in {2, 3, 11, 12} THEN Todo ELSE "get"]

(* Each check of the validator, passed and failed.                          *)
Spoiled(s) ==
    {[Good(s) EXCEPT !.source_urls = l] : l \in {<<>>, <<"url", Blank>>, <<"url", Todo>>}}
      \union {[Good(s) EXCEPT !.verified_at = Blank], [Good(s) EXCEPT !.verified_provider_version = Blank]}
      \union {[Good(s) EXCEPT !.tested_against_provider = c] : c \in {Blank, Todo, 2}}
      \union {[Good(s) EXCEPT !.plan = l] : l \in {<<>>, <<"get", Blank>>, <<"get", Todo>>, Twelve}}
      \union {[Good(s) EXCEPT !.conditionals = <<Conditional(s, w, p)>>] :
                w \in {{}, {"versioning"}, {"versioning", "count"}, {"2x"}}, p \in {<<>>, <<"get">>, <<Blank>>, <<Todo>>}}

(* A stub of which any of the fields have been filled in.                   *)
FilledIn(s, F) == [f \in DOMAIN Good(s) |-> IF f \in F THEN Good(s)[f] ELSE GenerateStub(s)[f]]

Single == UNION {{One(s, e) : e \in Spoiled(s) \union {FilledIn(s, F) : F \in SUBSET Fields(s)}} : s \in Section}

-----------------------------------------------------------------------------
(* Four sound entries, with equal and different dates and constraints.      *)
Varied(s) ==
    {Sound(s, "empirical", 3, 1), Sound(s, "docs+source", 3, 1),
     Sound(s, "empirical", 4, 3), Sound(s, "docs+source", 4, 2)}

Complete ==
    {1 :> Yaml(Held(1 :> r, 1 :> d, <<>>)) @@ 2 :> Yaml(Held(2 :> q, <<>>, 2 :> b)) :
        r \in Varied("resources"), q \in Varied("resources"), d \in Varied("data_sources"), b \in Varied("iam_bindings")}

MCDirectories == {Unreadable, <<>>} \union Several \union Single \union Complete
=============================================================================
