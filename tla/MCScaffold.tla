----------------------------- MODULE MCScaffold -----------------------------
(***************************************************************************)
(* Scaffold for TLC: two types under two headings, and every kind of file  *)
(* a command may find.                                                     *)
(***************************************************************************)
EXTENDS Scaffold, TLC

MCSection == {"resources", "data_sources"}
MCType == {"t", "u"}
Q(section, type) == [section |-> section, type |-> type]

MCTexts ==
    {Absent, Blank, Garbled,
     "resources" :> Heading(<<"t">>),
     "resources" :> Heading(<<"u">>) @@ "data_sources" :> Heading(<<"t">>),
     "data_sources" :> Null,
     "resources" :> List,
     Stray :> Heading(<<>>)}

MCRequests == {Q("resources", "t"), Q("data_sources", "t"), Q("resources", NoType)}
=============================================================================
