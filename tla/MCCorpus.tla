------------------------------- MODULE MCCorpus -------------------------------
(***************************************************************************)
(* A small corpus: two units of one book, two source files, and a question *)
(* for each unit.                                                          *)
(***************************************************************************)
EXTENDS BankProvenance

CONSTANTS u1, u2, pa, pb

Line(kind, page, key) == [kind |-> kind, page |-> page, key |-> key]
Title == Line("title", 0, "")
Prose == Line("text", 0, "")
Page(n) == Line("page", n, "")
Numbered(key) == Line("numbered", 0, key)
Summary == Line("summary", 0, "summary")

(* A short text, one with a repeated heading and a summary, one without    *)
(* page markers, one whose pages run backwards.                            *)
Short == <<Title, Page(1), Prose>>
Long == <<Title, Prose, Page(1), Numbered("1.1"), Page(2), Numbered("1.1"), Prose, Summary>>
NoPages == <<Title, Prose>>
Backwards == <<Title, Page(2), Page(1)>>

Texts == {Short, Long, NoPages, Backwards}

OneBook == [u \in Unit |-> "book"]

Opening == {<<"opening", 0>>}
Repeated == {<<"1.1", 3>>}

Listed(u, p, include, exempt) ==
    [unit |-> u, path |-> p, include |-> include, exempt |-> exempt]

Manifests ==
    {<<Listed(u1, pa, TRUE, {})>>,
     <<Listed(u1, pa, FALSE, Opening), Listed(u2, pb, TRUE, {})>>,
     <<Listed(u1, pa, TRUE, {}), Listed(u2, pb, TRUE, Repeated)>>,
     <<Listed(u2, pb, TRUE, {}), Listed(u1, pa, TRUE, {})>>,
     <<Listed(u1, pa, TRUE, {}), Listed(u1, pb, TRUE, {})>>}

Cite(section, first, last, sources) ==
    [section |-> section, start_line |-> first, end_line |-> last, sources |-> sources]

Source(key, first, last, role) ==
    [key |-> key, start_line |-> first, end_line |-> last, role |-> role]

(* The opening, which both texts have at line 3; two sections of the long  *)
(* text, part of the first; a range that runs into its summary; and links  *)
(* that are given and end before the range does.                           *)
Citations ==
    {Cite("opening", 3, 3, {}),
     Cite("1.1", 5, 7, {}),
     Cite("1.1", 7, 8, {}),
     Cite("1.1", 4, 6, {Source(<<"1.1", 0>>, 4, 5, "primary")})}

(* The behaviours that start with two sources that can be indexed.         *)
IndexableInit ==
    /\ ProvenanceInit
    /\ source = [p \in Path |-> IF p = pa THEN Long ELSE Short]

IndexableSpec == IndexableInit /\ [][ProvenanceNext]_<<vars, provenance>>
=============================================================================
