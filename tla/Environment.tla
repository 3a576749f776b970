---------------------------- MODULE Environment ----------------------------
(***************************************************************************)
(* The class template Env of src/src/environment.h: an environment is a    *)
(* vector `envs' of pointers to binding tables (std::map), searched from   *)
(* the back, plus a table `top' of its own.  Here a chain is the vector, a *)
(* sequence of table identities, and tbl[t][n] is what table t holds under *)
(* the name n: Unbound when the key is absent.                             *)
(***************************************************************************)
EXTENDS Naturals, Sequences

CONSTANTS Unbound,   (* the key is absent from a table                     *)
          None       (* end(): no table of the chain has the key           *)

(* addEnvMap: one more table, searched before all the others. *)
AddEnvMap(chain, t) == Append(chain, t)

(* Fault: the calling environment's tables end up searched last. *)
AddEnvMaps_below(chain, calling) == calling \o chain

(* The loop that pushes every table of a calling environment, in order. *)
AddEnvMaps(chain, calling) == chain \o calling

(* k calls of removeEnv: pop_back drops the table searched first. *)
RemoveEnvs(chain, k) == SubSeq(chain, 1, Len(chain) - k)

(* Positions of the tables of the chain that hold n. *)
Holders(chain, tbl, n) == {i \in 1..Len(chain) : tbl[chain[i]][n] # Unbound}

(* find and operator[]: the table nearest to the back that holds n.  Left  *)
(* out: of an absent name operator[] makes an entry of the innermost table *)
(* that holds the empty pointer.  All calls of it come after a find of the *)
(* name, but for that of comma (special.cpp:201) of a name that is not     *)
(* bound.                                                                  *)
Find(chain, tbl, n) ==
  LET hits == Holders(chain, tbl, n)
  IN  IF hits = {} THEN None
      ELSE chain[CHOOSE i \in hits : \A j \in hits : j <= i]
=============================================================================
