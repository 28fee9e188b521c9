---------------------------- MODULE MCDatabaseFile ----------------------------
(***************************************************************************)
(* Small instances of DatabaseFile.                                        *)
(***************************************************************************)
EXTENDS DatabaseFile

CONSTANTS p1, p2, p3, p4

(* One init at a time, and no restore beside a command that writes. *)
Careful == {{"init"}, {"restore"}, {"restore", "init"}, {"restore", "write"}}

(* As Careful, but for the inits. *)
TwoInits == Careful \ {{"init"}}

OneAtATime == {{k, l} : k, l \in Command}

(* A db init runs first and alone, and succeeds, fails or crashes.  The      *)
(* other processes are alike, so they may as well start in this order: unlike *)
(* a SYMMETRY this leaves liveness checkable.                                 *)
Before(p) ==
    CASE p = p1 -> {}
      [] p = p2 -> {p1}
      [] p = p3 -> {p1, p2}
      [] p = p4 -> {p1, p2, p3}

StartInOrder(p, k) ==
    /\ \A q \in Before(p) : pc[q] # "idle"
    /\ IF p = p1 THEN k = "init" ELSE ~Active(p1)
    /\ Start(p, k)

OrderedNext ==
    \E p \in Proc :
        \/ \E k \in Command : StartInOrder(p, k)
        \/ Work(p)
        \/ Failure(p)
        \/ Crash(p)

OrderedSpec == Init /\ [][OrderedNext]_vars /\ Fairness
=============================================================================
