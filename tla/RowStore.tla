------------------------------ MODULE RowStore ------------------------------
(***************************************************************************)
(* What the services rely on in TypeORM's Repository.save().  A service    *)
(* reads an entity with findOne(), changes it in memory and saves it.      *)
(* save() does not write the whole entity: it reads the row again, keeps   *)
(* the columns in which the entity differs from that fresh row, and sends  *)
(* an UPDATE of those columns only.  A property that is `undefined` (a     *)
(* relation that was not loaded, a value merged with `?? undefined`) is    *)
(* never written; a property that is `null` is.                            *)
(*                                                                         *)
(* So an entity read before another request's write carries the old value  *)
(* of every loaded column, and puts it back if the other request's write   *)
(* came before the second read; what was written after the second read     *)
(* survives unless the entity means to change the same column.  The        *)
(* modules that model a save() make the first read, the second read and    *)
(* the UPDATE three steps.  No service opens a transaction around them.    *)
(***************************************************************************)

CONSTANTS
    Null,      \* null: SQL NULL, and a relation whose row is soft-deleted
    Undef      \* undefined: a property the entity or the DTO does not have

ASSUME NullIsNotUndef == Null # Undef

(* The columns of entity e that save() will write, given the row it reread. *)
Dirty(e, row, cols) == {c \in cols : e[c] # Undef /\ e[c] # row[c]}

(* a ?? b *)
Coalesce(a, b) == IF a \in {Null, Undef} THEN b ELSE a

(* The value an INSERT stores for a property that was never set. *)
Inserted(v) == IF v = Undef THEN Null ELSE v
=============================================================================
