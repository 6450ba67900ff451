------------------------------- MODULE MCPlic -------------------------------
(***************************************************************************)
(* TLC instances of Plic, and the scan of context_best_pending written as  *)
(* the loop it is, to be compared with the definition Plic uses.           *)
(***************************************************************************)
EXTENDS Plic

\* Mutant: a later id of equal priority wins.
ScanStep_mut(k, b, id) ==
    IF id \in k.pending /\ id \notin k.claimed
         /\ (b[1] = 0 \/ b[2] <= k.prio[id])
    THEN <<id, k.prio[id]>>
    ELSE b

\* One iteration of the loop over the ids: b is <<best_id, best_id_prio>>.
ScanStep(k, b, id) ==
    IF id \in k.pending /\ id \notin k.claimed
         /\ (b[1] = 0 \/ b[2] < k.prio[id])
    THEN <<id, k.prio[id]>>
    ELSE b

\* <<best_id, best_id_prio>> after the ids up to id.
Scan(k) ==
    LET scan[id \in 0 .. NDev] ==
            IF id = 0 THEN <<0, 0>> ELSE ScanStep(k, scan[id - 1], id)
    IN  scan

\* The loop in id order, then the comparison with the threshold.
best_pending_loop(k) ==
    LET best == Scan(k)[NDev]
    IN  IF best[2] <= k.threshold THEN 0 ELSE best[1]

\* The word-by-word scan with its running maximum computes the context's best
\* pending source: greatest latched priority, smallest id among equals, none
\* at or below the threshold.
ScanFindsBest ==
    \A c \in Ctxs : best_pending_loop(ctx[c]) = context_best_pending(ctx[c])
=============================================================================
