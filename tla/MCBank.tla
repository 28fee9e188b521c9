------------------------------- MODULE MCBank -------------------------------
(***************************************************************************)
(* A small instance of QuestionBank, BankValidate and TagCatalog: two      *)
(* units with a question each, the second unit kept out of chapter         *)
(* quizzes, two topics, a theme and a mode.  One bank file brings the      *)
(* second question retired.  An alias is the other topic's name, or the    *)
(* text of its ID.                                                         *)
(***************************************************************************)
EXTENDS BankValidate, TagCatalog

CONSTANTS u1, u2, q1, q2, c1, c2, t1, t2, theme, mode, n1, n2, n3

MCUnitOf == [q \in Bank |-> IF q = q1 THEN u1 ELSE u2]
MCConceptOf == [q \in Bank |-> IF q = q1 THEN c1 ELSE c2]
MCBankPosition == [q \in Bank |-> IF q = q1 THEN 1 ELSE 2]
MCTagKind == [t \in Tag |-> IF t \in {t1, t2} THEN "topic" ELSE IF t = theme THEN "theme" ELSE "mode"]

(* The same tags as a bank file may spell them, and validation accept them. *)
CapitalTagKind ==
    [t \in Tag |-> IF t \in {t1, t2} THEN "Topic" ELSE IF t = theme THEN "Theme" ELSE "Mode"]

(* A topic and the theme share a name; the other topic's is also an alias. *)
MCNameOf == [t \in Tag |-> IF t = t2 THEN n2 ELSE IF t = mode THEN n3 ELSE n1]

File(active) ==
    [q \in Bank |-> [active |-> q = q1 \/ active, revision |-> 1, earliest_checkpoint |-> 2,
                     tags |-> {t1, theme, mode}]]
MCBankFile == {File(TRUE), File(FALSE)}

(* Bound: a revision moves a question to one of the first three quarters.  *)
WithinQuarters ==
    \A q \in Bank : question_bank'[q].imported => question_bank'[q].earliest_checkpoint \in 1..3

(* Bounds: aliases and relations are the topics', and there are some only  *)
(* while no template is built (template rebuild reads neither) and the     *)
(* second question is as imported.                                         *)
TopicsOnly ==
    /\ tag_aliases' \subseteq {t1, t2} \X Alias
    /\ tag_relations' \subseteq {t1, t2} \X {t1, t2}

TidiedInTime ==
    \/ tag_aliases' = {} /\ tag_relations' = {}
    \/ /\ question_bank'[q2].revision <= 1
       /\ \A t \in Template : ~quiz_templates'[t].active

MCNext == CatalogNext /\ WithinQuarters /\ TopicsOnly /\ TidiedInTime

MCSpec == CatalogInit /\ [][MCNext]_<<bank_vars, catalog_vars>>
=============================================================================
