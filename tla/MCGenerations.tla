--------------------------- MODULE MCGenerations ---------------------------
(* Small instances of Generations for TLC. *)
EXTENDS Generations

CONSTANTS r1, r2

Plan(auths, old_auths, gens, changes, rejected) ==
  [readers |-> auths, joined |-> old_auths, mapped |-> gens, updates |-> changes,
   rejects |-> rejected]

(* Three generations with a mapped segment; from memory of its own to a    *)
(* mapped segment and back; two processes, one of them new; a generation   *)
(* that may be rejected.                                                   *)
Histories == {Plan({r1}, {r1}, <<TRUE, TRUE, TRUE>>, 1, FALSE),
              Plan({r1}, {}, <<FALSE, TRUE>>, 1, FALSE),
              Plan({r1}, {r1}, <<TRUE, FALSE>>, 1, FALSE),
              Plan({r1, r2}, {r1}, <<TRUE, TRUE>>, 0, FALSE),
              Plan({r1}, {r1}, <<TRUE, TRUE>>, 0, TRUE)}

(* One process and two mapped generations. *)
Brief == {Plan({r1}, {r1}, <<TRUE, TRUE>>, 1, FALSE)}
=============================================================================
