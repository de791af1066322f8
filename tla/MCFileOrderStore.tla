--------------------------- MODULE MCFileOrderStore ---------------------------
(* FileOrderStore for TLC: the journals of earlier processes. *)
EXTENDS FileOrderStore

Line(type, n) == <<[type |-> type, id |-> "o1", seq |-> n, whole |-> TRUE], NewLine>>
Part(type, n) == <<[type |-> type, id |-> "o1", seq |-> n, whole |-> FALSE]>>

\* None; an order; an event and the start of a record; a write that failed half-way through its
\* record, the next record glued to it, and one more line.
MCFound == { <<>>, Line("order", 1), Line("event", 1) \o Part("order", 2),
             Part("order", 1) \o Line("event", 2) \o Line("order", 3) }
===============================================================================
