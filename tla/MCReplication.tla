--------------------------- MODULE MCReplication ---------------------------
(***************************************************************************)
(* Module Replication for TLC: three nodes.  The task of one goes out on   *)
(* two topics, of which each of the others reads one; the fact of another  *)
(* goes out on one.                                                        *)
(***************************************************************************)
EXTENDS Replication, TLC

CONSTANTS a, b, c, t1, t2, task, fact

MCReads == a :> Topics @@ b :> {t1} @@ c :> {t2}
MCOwner == task :> a @@ fact :> b
MCTTLs == task :> {1} @@ fact :> {1}
MCTopicsOf == task :> Topics @@ fact :> {t1}
=============================================================================
