--------------------- MODULE SecurityTokensRefinement ---------------------
(***************************************************************************)
(* The token handlers of SecurityTokens implement the call life cycle of   *)
(* TokenQuery.  The handlers' state does not say, once a handler is in     *)
(* cleanup, whether it got as far as the dispatcher, so a history variable *)
(* `requested` records it; it is set by the dispatch step and cleared when *)
(* a call starts, and no action of the handlers reads it.                  *)
(***************************************************************************)
EXTENDS SecurityTokens

VARIABLE requested

rvars == << vars, requested >>

\* The history: a request went out in this step, a call started, or
\* neither.
TrackRequest ==
    requested' = IF Len(sent') > Len(sent) THEN TRUE
                 ELSE IF pc \in {"idle", "returned"} /\ pc' = "run" THEN FALSE
                 ELSE requested

RInit == Init /\ requested = FALSE

RNext == Next /\ TrackRequest

RSpec == RInit /\ [][RNext]_rvars

\* The phase of TokenQuery a state of the handlers stands for.
Phase ==
    CASE pc = "idle"                                  -> "idle"
      [] pc = "returned"                              -> "done"
      [] pc = "crashed"                               -> "aborted"
      [] pc \in {"run", "cleanup"} /\ requested       -> "sent"
      [] pc \in {"run", "cleanup"} /\ ~requested      -> "pending"

TQ == INSTANCE TokenQuery WITH
        phase <- Phase, calls <- calls, sent <- sent, ret <- ret

\* The handlers implement the life cycle the spec states for a query: each
\* call either returns -1 before any exchange or sends exactly one request,
\* with a nonce never sent before, before it returns; the nonzero device
\* status and 0 are only returned after that request.
Implements == TQ!Spec

=============================================================================
