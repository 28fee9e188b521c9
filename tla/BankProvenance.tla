---------------------------- MODULE BankProvenance ----------------------------
(***************************************************************************)
(* Where a bank question comes from: the flat columns of its row and its   *)
(* rows of question_sources, as bank import stores them, bank revise       *)
(* changes them, and bank validate compares them (src/commands_bank.c),    *)
(* over the sections that corpus sync goes on indexing (CorpusSync).       *)
(*                                                                         *)
(* A unit has one question here, and a title stands for its heading.  The  *)
(* page texts, compared by containment, and the justifications are left    *)
(* out; the sources of a concept are checked as those of a question, and   *)
(* never revised.                                                          *)
(***************************************************************************)
EXTENDS CorpusSync

CONSTANTS
    Citation        \* the source fields that imports and revisions give

(* A citation without sources asks for links that are made for its range.  *)
(* The sources of one differ from each other.                              *)
Link == [key : STRING \X Nat, start_line : Nat, end_line : Nat, role : {"primary", "supporting"}]

ASSUME CitationAssumption ==
    Citation \subseteq
        [section : STRING, start_line : Nat, end_line : Nat, sources : SUBSET Link]

VARIABLE provenance     \* the source columns and links of a unit's question

-----------------------------------------------------------------------------
(* The sections a range of lines meets, which must hold all of it and may  *)
(* not be summaries.                                                       *)
SectionsForRange(u, citation) ==
    {s \in db[u].sections :
        s.start_line <= citation.end_line /\ s.end_line >= citation.start_line}

FirstOf(sections) == CHOOSE s \in sections : \A t \in sections : s.start_line <= t.start_line

Covered(u, citation) ==
    /\ 0 < citation.start_line
    /\ citation.start_line <= citation.end_line
    /\ \A line \in citation.start_line .. citation.end_line :
           \E s \in SectionsForRange(u, citation) : line \in s.start_line .. s.end_line
    /\ \A s \in SectionsForRange(u, citation) : ~ s.is_summary

(* insert_source_links: those that are given, or one for each section of   *)
(* the range, the first of them primary.                                   *)
Larger(a, b) == IF a < b THEN b ELSE a
Smaller(a, b) == IF a < b THEN a ELSE b

(* Mutant of AutomaticLinks: the links are whole sections.                 *)
WholeSections(u, citation) ==
    LET sections == SectionsForRange(u, citation)
    IN  {[key        |-> s.key,
          start_line |-> s.start_line,
          end_line   |-> s.end_line,
          role       |-> IF s = FirstOf(sections) THEN "primary" ELSE "supporting"]
         : s \in sections}

AutomaticLinks(u, citation) ==
    LET sections == SectionsForRange(u, citation)
    IN  {[key        |-> s.key,
          start_line |-> Larger(citation.start_line, s.start_line),
          end_line   |-> Smaller(citation.end_line, s.end_line),
          role       |-> IF s = FirstOf(sections) THEN "primary" ELSE "supporting"]
         : s \in sections}

LinkInside(u, link) ==
    \E s \in db[u].sections :
        /\ s.key = link.key
        /\ ~ s.is_summary
        /\ s.start_line <= link.start_line
        /\ 0 < link.start_line
        /\ link.start_line <= link.end_line
        /\ link.end_line <= s.end_line

Storable(u, citation) ==
    /\ Covered(u, citation)
    /\ \A link \in citation.sources : LinkInside(u, link)

LinksFor(u, citation) ==
    IF citation.sources = {} THEN AutomaticLinks(u, citation) ELSE citation.sources

PrimaryKeys(links) == {link.key : link \in {l \in links : l.role = "primary"}}

(* What the columns say of the links, in validate_flat_provenance as in    *)
(* bank validate.                                                          *)
Agrees(section, start_line, end_line, links) ==
    /\ start_line = Min({link.start_line : link \in links})
    /\ end_line = Max({link.end_line : link \in links})
    /\ Cardinality({link \in links : link.role = "primary"}) = 1
    /\ \A key \in PrimaryKeys(links) : key[1] = section

(* Mutant of FlatProvenance: the columns are stored as they come.          *)
AnyProvenance(u, citation) == TRUE

FlatProvenance(u, citation) ==
    LET links == LinksFor(u, citation)
    IN  /\ Agrees(citation.section, citation.start_line, citation.end_line, links)
        /\ PrimaryKeys(links) = {FirstOf(SectionsForRange(u, citation)).key}

Sourced(u, citation, revised) ==
    [section    |-> citation.section,
     start_line |-> citation.start_line,
     end_line   |-> citation.end_line,
     links      |-> LinksFor(u, citation),
     automatic  |-> citation.sources = {},
     revised    |-> revised]

-----------------------------------------------------------------------------
NewlyBanked == {u \in Unit : Banked(db'[u]) /\ ~ Banked(db[u])}

(* A command on the corpus, or the import that brings the question.        *)
CorpusStep ==
    /\ Next
    /\ \/ /\ NewlyBanked = {}
          /\ UNCHANGED provenance
       \/ \E u \in NewlyBanked, citation \in Citation :
              /\ Storable(u, citation)
              /\ FlatProvenance(u, citation)
              /\ provenance' = [provenance EXCEPT ![u] = Sourced(u, citation, FALSE)]

(* bank revise with source fields: the links are replaced, and the columns *)
(* are not compared with them.  A revision of the justification alone does *)
(* so too, and drops the links that were given.  MaxEdits bounds the       *)
(* revisions together with the author's edits.                             *)
ReviseSources ==
    /\ sync.pc \notin Running
    /\ edits < MaxEdits
    /\ edits' = edits + 1
    /\ \E u \in Unit, citation \in Citation :
           /\ provenance[u] # NULL
           /\ Storable(u, citation)
           /\ provenance' = [provenance EXCEPT ![u] = Sourced(u, citation, TRUE)]
    /\ UNCHANGED <<source, manifest, db, sync, status, synced>>

ProvenanceInit ==
    /\ Init
    /\ provenance = [u \in Unit |-> NULL]

ProvenanceNext == CorpusStep \/ ReviseSources

ProvenanceSpec == ProvenanceInit /\ [][ProvenanceNext]_<<vars, provenance>>

-----------------------------------------------------------------------------
Cited == {u \in Unit : provenance[u] # NULL}

(* The questions bank validate counts as invalid_question_sources.         *)
InvalidQuestionSources ==
    {u \in Cited :
        LET q == provenance[u]
        IN  \/ \E link \in q.links : ~ LinkInside(u, link)
            \/ ~ Agrees(q.section, q.start_line, q.end_line, q.links)}

(* However the sources and the manifest are edited and synchronized after  *)
(* an import, every link stays inside a body section the unit has now, and *)
(* bank validate finds fault only with a question whose source fields were *)
(* revised.                                                                *)
SourcesStand ==
    /\ \A u \in Cited : \A link \in provenance[u].links : LinkInside(u, link)
    /\ \A u \in InvalidQuestionSources : provenance[u].revised

(* Links that were made for a range have every line of it once, and one of *)
(* them is primary, also after a revision that compares nothing.           *)
AutomaticLinksTile ==
    \A u \in Cited :
        LET q == provenance[u]
        IN  q.automatic =>
                /\ UNION {l.start_line .. l.end_line : l \in q.links}
                       = q.start_line .. q.end_line
                /\ \A line \in q.start_line .. q.end_line :
                       Cardinality({l \in q.links : line \in l.start_line .. l.end_line}) = 1
                /\ Cardinality({l \in q.links : l.role = "primary"}) = 1
=============================================================================
