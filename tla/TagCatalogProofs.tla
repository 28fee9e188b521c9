-------------------------- MODULE TagCatalogProofs --------------------------
(***************************************************************************)
(* A tag reference is never redirected, for every set of tags, names and   *)
(* aliases.  The rows a reference selects only grow while tags and aliases *)
(* are added and only shrink while aliases are removed, and one of two     *)
(* nested sets of one element each is the other.                           *)
(***************************************************************************)
EXTENDS TagCatalog, TLAPS

(* Selections that are nested resolve to the same tag, if both resolve.    *)
LEMMA NestedResolve ==
    ASSUME NEW r, Matches(r) \subseteq Matches(r)' \/ Matches(r)' \subseteq Matches(r)
    PROVE  \A s \in Resolved(r), t \in Resolved(r)' : s = t
BY DEF Resolved

(* A bank command leaves the aliases and removes no tag.                   *)
LEMMA BankCommandGrows ==
    ASSUME BankCommandWithTags, NEW r
    PROVE  Matches(r) \subseteq Matches(r)'
BY DEF BankCommandWithTags, Matches

(* A new alias adds its tag to the rows of one text.                       *)
LEMMA AliasAddGrows ==
    ASSUME NEW ref, NEW alias, TagAliasAdd(ref, alias), NEW r
    PROVE  Matches(r) \subseteq Matches(r)'
BY DEF TagAliasAdd, Matches

(* An alias that goes takes its tag from the rows of one text.             *)
LEMMA AliasRemoveShrinks ==
    ASSUME NEW ref, NEW alias, TagAliasRemove(ref, alias), NEW r
    PROVE  Matches(r)' \subseteq Matches(r)
BY DEF TagAliasRemove, Matches

(* Relations are not read by the resolution.                               *)
LEMMA RelationsUnread ==
    ASSUME NEW r, UNCHANGED <<tags, tag_aliases>>
    PROVE  Matches(r)' = Matches(r)
BY DEF Matches

(* No command of the bank or of the catalog redirects a reference.         *)
THEOREM Steady == CatalogSpec => ReferencesSteady
<1>1. ASSUME [CatalogNext]_<<bank_vars, catalog_vars>>, NEW r \in Reference
      PROVE  \A s \in Resolved(r), t \in Resolved(r)' : s = t
  <2>1. CASE BankCommandWithTags
    BY <2>1, BankCommandGrows, NestedResolve
  <2>2. CASE \E ref \in Reference, alias \in Alias : TagAliasAdd(ref, alias)
    BY <2>2, AliasAddGrows, NestedResolve
  <2>3. CASE \E ref \in Reference, alias \in Alias : TagAliasRemove(ref, alias)
    BY <2>3, AliasRemoveShrinks, NestedResolve
  <2>4. CASE \E ref, s \in Reference : TagRelationAdd(ref, s)
    <3>1. UNCHANGED <<tags, tag_aliases>>
      BY <2>4 DEF TagRelationAdd
    <3> QED BY <3>1, RelationsUnread, NestedResolve
  <2>5. CASE \E ref, s \in Reference : TagRelationRemove(ref, s)
    <3>1. UNCHANGED <<tags, tag_aliases>>
      BY <2>5 DEF TagRelationRemove
    <3> QED BY <3>1, RelationsUnread, NestedResolve
  <2>6. CASE UNCHANGED <<bank_vars, catalog_vars>>
    <3>1. UNCHANGED <<tags, tag_aliases>>
      BY <2>6 DEF catalog_vars
    <3> QED BY <3>1, RelationsUnread, NestedResolve
  <2> QED
    BY <1>1, <2>1, <2>2, <2>3, <2>4, <2>5, <2>6 DEF CatalogNext
<1>2. [CatalogNext]_<<bank_vars, catalog_vars>> =>
          [\A r \in Reference :
              \A s \in Resolved(r), t \in Resolved(r)' : s = t]_<<bank_vars, catalog_vars>>
  BY <1>1
<1> QED BY <1>2, PTL DEF CatalogSpec, ReferencesSteady
=============================================================================
