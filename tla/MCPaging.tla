------------------------------ MODULE MCPaging ------------------------------
(* Small instances of Paging for TLC. *)
EXTENDS Paging

MCEvent(id, at, status, source) ==
  [id |-> id, at |-> at, amount |-> 1, currency |-> "BRL", method |-> "pix",
   status |-> status, source |-> source, processor |-> "ProcessorA"]

MCInstants == 1..2
MCRank == [t1 |-> 1, t2 |-> 2]

MCEvents ==
  {MCEvent(id, at, "approved", "processor") : id \in {"t1", "t2"}, at \in MCInstants}
  \cup {MCEvent(id, 1, "approved", "merchant_order_system") : id \in {"t1", "t2"}}
  \cup {MCEvent(id, 1, "pending", "processor") : id \in {"t1", "t2"}}

MCPageWindows == {Everything, [from |-> 1, to |-> 1]}
=============================================================================
