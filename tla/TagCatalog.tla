----------------------------- MODULE TagCatalog -----------------------------
(***************************************************************************)
(* The tags beside the bank: rows that bank import and bank revise create, *)
(* the commands tag alias-add, alias-remove, relation-add and              *)
(* relation-remove (src/commands_tag_template.c), and what a tag reference *)
(* resolves to (src/commands_bank.c, lbdb_resolve_tag_id).                 *)
(*                                                                         *)
(* A text stands for all its spellings: names and aliases are compared     *)
(* without case.  A tag, taken as a reference, stands for the texts that   *)
(* are read as its ID or as its kind:name.  Relations have one type.       *)
(* What the commands audit is their entity; the bank's tables are not      *)
(* theirs to change.                                                       *)
(***************************************************************************)
EXTENDS QuestionBank

CONSTANTS
    Text,               \* texts that are neither decimal nor hold a colon
    NameOf,             \* tags.name
    Alias,              \* the aliases given to alias-add
    MaxRelations        \* bound on the rows of tag_relations

Reference == Text \cup Tag

ASSUME CatalogAssumption ==
    /\ Text \cap Tag = {}
    /\ NameOf \in [Tag -> Text]
    /\ \A s, t \in Tag :
           Lower[TagKind[s]] = Lower[TagKind[t]] /\ NameOf[s] = NameOf[t] => s = t
    /\ Alias \subseteq Reference
    /\ MaxRelations \in Nat

VARIABLES
    tags,               \* the rows of tags
    tag_aliases,        \* pairs of a tag and an alias
    tag_relations       \* pairs of a parent and a child

catalog_vars == <<tags, tag_aliases, tag_relations>>

CatalogInit ==
    /\ BankInit
    /\ tags = {}
    /\ tag_aliases = {}
    /\ tag_relations = {}

-----------------------------------------------------------------------------
(* get_or_create_tag, for every tag of the rows a bank command stores: a   *)
(* tag row is never removed, though no question may carry it any longer.   *)
Carried == UNION {question_bank[q].tags : q \in Bank}

BankCommandWithTags ==
    /\ BankNext
    /\ tags' = tags \cup Carried'
    /\ UNCHANGED <<tag_aliases, tag_relations>>

(* Mutant: an alias comes before the names.                                *)
AliasFirst(r) ==
    IF r \in Tag THEN {r} \cap tags
    ELSE IF \E t \in tags : <<t, r>> \in tag_aliases
         THEN {t \in tags : <<t, r>> \in tag_aliases}
         ELSE {t \in tags : NameOf[t] = r}

(* The rows lbdb_resolve_tag_id selects.  A text that reads as an ID or as *)
(* kind:name is never looked up among the names and the aliases.           *)
Matches(r) ==
    IF r \in Tag THEN {r} \cap tags
    ELSE {t \in tags : NameOf[t] = r \/ <<t, r>> \in tag_aliases}

(* The tag a reference resolves to: no row is an unknown tag, several are  *)
(* an ambiguous reference, and both are errors.                            *)
Resolved(r) == {t \in Matches(r) : Matches(r) = {t}}

TagAliasAdd(r, alias) ==
    /\ \A t \in tags : <<t, alias>> \notin tag_aliases
    /\ \E t \in Resolved(r) :
        /\ tag_aliases' = tag_aliases \cup {<<t, alias>>}
        /\ db_operations' = Operation("tag.alias-add", "tag", t)
    /\ UNCHANGED <<tags, tag_relations, question_bank, quiz_templates>>

TagAliasRemove(r, alias) ==
    /\ \E t \in Resolved(r) :
        /\ <<t, alias>> \in tag_aliases
        /\ tag_aliases' = tag_aliases \ {<<t, alias>>}
        /\ db_operations' = Operation("tag.alias-remove", "tag", t)
    /\ UNCHANGED <<tags, tag_relations, question_bank, quiz_templates>>

TagRelationAdd(r, s) ==
    /\ Cardinality(tag_relations) < MaxRelations
    /\ \E parent \in Resolved(r), child \in Resolved(s) :
        /\ parent # child
        /\ <<parent, child>> \notin tag_relations
        /\ tag_relations' = tag_relations \cup {<<parent, child>>}
    /\ db_operations' = Operation("tag.relation-add", "tag_relation", 0)
    /\ UNCHANGED <<tags, tag_aliases, question_bank, quiz_templates>>

TagRelationRemove(r, s) ==
    /\ \E parent \in Resolved(r), child \in Resolved(s) :
        /\ <<parent, child>> \in tag_relations
        /\ tag_relations' = tag_relations \ {<<parent, child>>}
    /\ db_operations' = Operation("tag.relation-remove", "tag_relation", 0)
    /\ UNCHANGED <<tags, tag_aliases, question_bank, quiz_templates>>

CatalogNext ==
    \/ BankCommandWithTags
    \/ \E r \in Reference, alias \in Alias : TagAliasAdd(r, alias)
    \/ \E r \in Reference, alias \in Alias : TagAliasRemove(r, alias)
    \/ \E r, s \in Reference : TagRelationAdd(r, s)
    \/ \E r, s \in Reference : TagRelationRemove(r, s)

CatalogSpec == CatalogInit /\ [][CatalogNext]_<<bank_vars, catalog_vars>>

-----------------------------------------------------------------------------
(* "Ambiguous short references fail" (docs/agent-interface.md): while      *)
(* imports and revisions bring tags, and aliases come and go, a reference  *)
(* that resolved to a tag may stop resolving, but no command makes it name *)
(* another tag.                                                            *)
ReferencesSteady ==
    [][\A r \in Reference :
        \A s \in Resolved(r), t \in Resolved(r)' : s = t]_<<bank_vars, catalog_vars>>
=============================================================================
