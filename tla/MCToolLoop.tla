----------------------------- MODULE MCToolLoop -----------------------------
(* Two tools, of which a run may offer one, and an answer that asks for    *)
(* both, with two calls that carry the same id.                            *)
EXTENDS ToolLoopWire

Call(id, name) == [id |-> id, name |-> name]

MCBatches == {<<Call("c1", "t1"), Call("c1", "t2")>>}
=============================================================================
