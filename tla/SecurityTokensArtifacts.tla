---------------------- MODULE SecurityTokensArtifacts ----------------------
(***************************************************************************)
(* What a failing token query leaves in the file system.  The handlers     *)
(* fopen(..., "wb") their sinks before the parameters, the nonce, the      *)
(* version and the device have all succeeded, so a later failure leaves    *)
(* truncated files behind (spec 7 and 9 accept this as a surface           *)
(* artifact).  A history variable `before` records the sinks' contents     *)
(* when the current call started, so the damage a failure does can be      *)
(* compared with what was there; no action of the handlers reads it.       *)
(***************************************************************************)
EXTENDS SecurityTokens

VARIABLE before

hvars == << vars, before >>

\* The history: the contents of every sink when the current call started.
TrackBefore ==
    before' = IF pc \in {"idle", "returned"} /\ pc' = "run" THEN disk
              ELSE before

HInit == Init /\ before = disk

HNext == Next /\ TrackBefore

HSpec == HInit /\ [][HNext]_hvars

\* Spec 7 and scenario B of spec 8: a call that fails, or whose process
\* crashes, writes nothing; the only damage it may do is the truncation, by
\* fopen "wb", of a sink it opened before the failure.  Every other sink
\* still holds exactly what it held when the call started.
FailureOnlyTruncates ==
    (pc = "returned" /\ ret # 0) \/ pc = "crashed" =>
        \A s \in Sinks :
            \/ disk[s] = before[s]
            \/ disk[s] = << >> /\ fp[s] \in {"open", "closed"}

=============================================================================
