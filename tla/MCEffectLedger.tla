--------------------------- MODULE MCEffectLedger ---------------------------
(* Batches of tools for small instances of EffectLedger. *)
EXTENDS EffectLedger

MCTool(class, approval, fails) ==
    [kind |-> "custom", class |-> class, approval |-> approval, fails |-> fails]
Reader == MCTool("idempotent", FALSE, FALSE)
Writer == MCTool("non_idempotent", FALSE, FALSE)
Asking == MCTool("non_idempotent", TRUE, FALSE)
Strict == MCTool("idempotent", TRUE, TRUE)
Search == [Reader EXCEPT !.kind = "search"]
Propose == [Reader EXCEPT !.kind = "proposal"]

\* a read and a write; a write that must be approved, and a read whose refusal is fatal
MixedBatches == {<<>>, <<Reader, Writer>>, <<Asking, Strict>>}
\* ... and what the built-in memory tools add: searches, proposals, a mixture that is refused
AllBatches == MixedBatches \cup {<<Search>>, <<Propose, Propose>>, <<Search, Reader>>}
WriterBatches == {<<>>, <<Writer, Writer>>}
OneWriter == {<<>>, <<Writer>>}
WriterOrSearch == OneWriter \cup {<<Search>>}
NoTools == {<<>>}
=============================================================================
