------------------------------ MODULE MCLocks ------------------------------
EXTENDS Locks, TLC

CONSTANTS t1, t2, t3

MCUsers ==
  [k \in Plain \cup {"OPTIK_TICKET_DELETE"} |-> {t1, t2, t3}] @@ [k \in Versioned |-> {t1, t2}]
=============================================================================
