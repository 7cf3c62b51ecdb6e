------------------ MODULE SecurityTokensRefinement_proofs ------------------
(***************************************************************************)
(* Proof that the token handlers implement TokenQuery, for every value of  *)
(* the constants allowed by ConstantsAssumption.                           *)
(***************************************************************************)
EXTENDS SecurityTokensRefinement, SecurityTokens_proofs

\* What the history variable says about the handler's state: a running
\* handler has sent its request exactly when it is past the dispatch step,
\* and until then its status is still the initial -1 (only the dispatch
\* result and the final `status = 0` change it).
RequestedInv ==
    /\ requested \in BOOLEAN
    /\ pc = "run" => (requested <=> step > DispatchIdx[op])
    /\ pc \in {"run", "cleanup"} /\ ~requested => status = -1

RInv == NonceInv /\ RequestedInv


\* In each handler the dispatch is the step just before the output step.
LEMMA DispatchLast ==
  ASSUME NEW o \in Ops
  PROVE  DispatchIdx[o] = Len(Program[o]) - 1
<1>1. CASE o = "tokens_in_set"
  <2>1. Program[o] = TokensInSetProgram /\ DispatchIdx[o] = 8
    BY <1>1 DEF Program, DispatchIdx, Ops
  <2>2. QED
    BY <2>1 DEF TokensInSetProgram
<1>2. CASE o = "token_set_count"
  <2>1. Program[o] = TokenSetCountProgram /\ DispatchIdx[o] = 7
    BY <1>2 DEF Program, DispatchIdx, Ops
  <2>2. QED
    BY <2>1 DEF TokenSetCountProgram
<1>3. CASE o = "token_set_info"
  <2>1. Program[o] = TokenSetInfoProgram /\ DispatchIdx[o] = 6
    BY <1>3 DEF Program, DispatchIdx, Ops
  <2>2. QED
    BY <2>1 DEF TokenSetInfoProgram
<1>4. QED
  BY <1>1, <1>2, <1>3 DEF Ops

\* Every behaviour of the handlers with the history variable is one of the
\* handlers alone.
LEMMA RSpecImpliesSpec == RSpec => Spec
<1>1. RInit => Init
  BY DEF RInit
<1>2. [RNext]_rvars => [Next]_vars
  BY DEF RNext, rvars, vars
<1>3. QED
  BY <1>1, <1>2, PTL DEF RSpec, Spec

LEMMA RInvInit == RInit => RInv
<1> SUFFICES ASSUME RInit PROVE RInv
  OBVIOUS
<1>1. NonceInv
  BY NonceInvInit DEF RInit
<1>2. RequestedInv
  BY Zenon DEF RInit, Init, RequestedInv
<1>3. QED
  BY <1>1, <1>2 DEF RInv

\* A step that sends nothing and starts no call leaves the history alone;
\* if it also keeps the status while no request is out, and keeps the
\* handler running only by staying put or moving past a step other than
\* the dispatch, the history still matches the handler's state.
LEMMA RQuiet ==
  ASSUME TypeInv, RequestedInv, TrackRequest,
         UNCHANGED << sent, op >>,
         pc \in {"idle", "returned"} => pc' # "run",
         pc' \in {"run", "cleanup"} => pc \in {"run", "cleanup"},
         status' = status \/ requested \/ pc' \notin {"run", "cleanup"},
         pc' = "run" =>
            /\ pc = "run"
            /\ \/ step' = step
               \/ step' = step + 1 /\ Program[op][step].kind # "dispatch"
  PROVE  RequestedInv' /\ requested' = requested
<1>1. /\ op \in Ops
      /\ step \in 1..Len(Program[op])
  BY DEF TypeInv, TypeOK
<1>2. /\ Program[op][step].kind # "dispatch" => step # DispatchIdx[op]
      /\ DispatchIdx[op] \in Nat
  BY <1>1, ProgramShape
<1>3. requested' = requested
  <2>1. ~(Len(sent') > Len(sent))
    BY DEF TypeInv, TypeOK
  <2>2. ~(pc \in {"idle", "returned"} /\ pc' = "run")
    OBVIOUS
  <2>3. QED
    BY <2>1, <2>2, Zenon DEF TrackRequest
<1>4. QED
  BY <1>1, <1>2, <1>3 DEF RequestedInv

\* The history variable keeps matching the handler's state.
LEMMA RInvStep == RInv /\ [RNext]_rvars => RInv'
<1> SUFFICES ASSUME RInv, [RNext]_rvars PROVE RInv'
  OBVIOUS
<1>0. /\ [Next]_vars
      /\ TypeInv
      /\ op \in Ops
      /\ step \in 1..Len(Program[op])
      /\ sent \in Seq(Int)
  BY DEF RNext, rvars, vars, RInv, NonceInv, TypeInv, TypeOK
<1>1. NonceInv'
  BY <1>0, NonceInvStep DEF RInv
<1>2. RequestedInv'
  <2>1. CASE UNCHANGED rvars
    BY <2>1 DEF rvars, vars, RInv, RequestedInv
  <2>2. CASE RNext
    <3>0. Next /\ TrackRequest
      BY <2>2 DEF RNext
    <3> USE <3>0 DEF RInv
    <3>1. CASE \E o \in Ops : Invoke(o)
      <4>1. PICK o \in Ops : Invoke(o)
        BY <3>1
      <4>2. DispatchIdx[o] \in 1..Len(Program[o])
        BY ProgramShape
      <4>3. requested' = FALSE
        <5>1. ~(Len(sent') > Len(sent)) /\ pc \in {"idle", "returned"} /\ pc' = "run"
          BY <1>0, <4>1 DEF Invoke
        <5>2. QED
          BY <5>1, Zenon DEF TrackRequest
      <4>4. op' = o /\ step' = 1 /\ pc' = "run" /\ status' = -1
        BY <4>1 DEF Invoke
      <4>5. ~(step' > DispatchIdx[op'])
        BY <4>2, <4>4
      <4>6. QED
        BY <4>3, <4>4, <4>5, Zenon DEF RequestedInv
    <3>2. CASE Dispatch
      <4>1. /\ pc = "run"
            /\ step = DispatchIdx[op]
            /\ DispatchIdx[op] \in Nat
        BY <1>0, <3>2, ProgramShape DEF Dispatch, Cur
      <4>2. requested' = TRUE
        <5>1. Len(sent') > Len(sent)
          BY <1>0, <3>2 DEF Dispatch
        <5>2. QED
          BY <5>1, Zenon DEF TrackRequest
      <4>3. pc' = "run" => step' = step + 1 /\ op' = op
        BY <3>2 DEF Dispatch, Advance, ToCleanup
      <4>4. QED
        BY <4>1, <4>2, <4>3 DEF RequestedInv
    <3>3. CASE GetDevice
      BY <1>0, <3>3, RQuiet DEF GetDevice, Cur, Advance, ReturnEarly
    <3>4. CASE OpenSink
      BY <1>0, <3>4, RQuiet DEF OpenSink, FopenFails, Cur, Advance,
                                ReturnEarly, ToCleanup
    <3>5. CASE GetSetIndex
      BY <1>0, <3>5, RQuiet DEF GetSetIndex, Cur, Advance, ToCleanup
    <3>6. CASE GenerateNonce
      BY <1>0, <3>6, RQuiet DEF GenerateNonce, Cur, Advance, ToCleanup
    <3>7. CASE CheckVersion
      BY <1>0, <3>7, RQuiet DEF CheckVersion, Cur, Advance, ReturnEarly
    <3>8. CASE Output
      <4>1. /\ pc = "run"
            /\ step = Len(Program[op])
            /\ DispatchIdx[op] = Len(Program[op]) - 1
        BY <1>0, <3>8, ProgramShape, DispatchLast DEF Output, Cur
      <4>2. requested
        BY <1>0, <4>1 DEF RequestedInv
      <4>3. pc' # "run" /\ UNCHANGED << sent, op >>
        BY <3>8 DEF Output, RejectTokens, ToCleanup
      <4>4. QED
        BY <1>0, <4>1, <4>2, <4>3, RQuiet, Zenon
    <3>9. CASE CloseSink
      <4>1. /\ pc = "cleanup"
            /\ pc' # "run"
            /\ UNCHANGED << sent, op, status >>
        BY <3>9, Zenon DEF CloseSink
      <4>2. QED
        BY <1>0, <4>1, RQuiet
    <3>10. CASE Terminated
      BY <1>0, <3>10, RQuiet DEF Terminated, vars
    <3>11. QED
      BY <3>1, <3>2, <3>3, <3>4, <3>5, <3>6, <3>7, <3>8, <3>9, <3>10
         DEF Next
  <2>3. QED
    BY <2>1, <2>2
<1>3. QED
  BY <1>1, <1>2 DEF RInv

----------------------------------------------------------------------------
(* The steps of the handlers seen through the refinement mapping.          *)

\* A step that sends nothing, from a state that starts no call, leaves the
\* history alone.
LEMMA TrackQuiet ==
  ASSUME TrackRequest, sent \in Seq(Int), sent' = sent,
         ~(pc \in {"idle", "returned"} /\ pc' = "run")
  PROVE  requested' = requested
<1>1. ~(Len(sent') > Len(sent))
  OBVIOUS
<1>2. QED
  BY <1>1, Zenon DEF TrackRequest

\* A handler that has not reached its output step has not sent its request.
LEMMA NotYetSent ==
  ASSUME TypeInv, RequestedInv, pc = "run",
         Program[op][step].kind # "output"
  PROVE  ~requested
<1>1. /\ op \in Ops
      /\ step \in 1..Len(Program[op])
  BY DEF TypeInv, TypeOK
<1>2. /\ step # Len(Program[op])
      /\ DispatchIdx[op] = Len(Program[op]) - 1
      /\ Len(Program[op]) \in Nat
  BY <1>1, ProgramShape, DispatchLast
<1>3. ~(step > DispatchIdx[op])
  BY <1>1, <1>2
<1>4. QED
  BY <1>3 DEF RequestedInv

\* Inside a call, a step that keeps the history, the call count, the
\* requests and the returned value is a stutter of TokenQuery.
LEMMA QuietPhase ==
  ASSUME pc \in {"run", "cleanup"}, pc' \in {"run", "cleanup"},
         requested' = requested, UNCHANGED << calls, sent, ret >>
  PROVE  UNCHANGED TQ!avars
BY DEF Phase, TQ!avars

\* Returning -1 before the request went out is TokenQuery's Refuse.
LEMMA RefuseStep ==
  ASSUME pc \in {"run", "cleanup"}, ~requested,
         pc' = "returned", ret' = -1, UNCHANGED << calls, sent >>
  PROVE  TQ!Next
<1>1. Phase = "pending"
  BY DEF Phase
<1>2. Phase' = "done"
  BY DEF Phase
<1>3. QED
  BY <1>1, <1>2 DEF TQ!Next, TQ!Refuse

\* Undefined behaviour that ends the process inside a call is Abort.
LEMMA AbortStep ==
  ASSUME pc \in {"run", "cleanup"}, pc' = "crashed",
         UNCHANGED << calls, sent, ret >>
  PROVE  TQ!Next
<1>1. Phase \in {"pending", "sent"}
  BY DEF Phase
<1>2. Phase' = "aborted"
  BY DEF Phase
<1>3. QED
  BY <1>1, <1>2 DEF TQ!Next, TQ!Abort

\* Every step of the handlers, with the history, is a step of TokenQuery
\* or leaves the abstract state unchanged.
LEMMA RefineStep == RInv /\ RInv' /\ [RNext]_rvars => [TQ!Next]_TQ!avars
<1> SUFFICES ASSUME RInv, RInv', [RNext]_rvars
             PROVE  [TQ!Next]_TQ!avars
  OBVIOUS
<1>0. /\ TypeInv
      /\ RequestedInv
      /\ op \in Ops
      /\ step \in 1..Len(Program[op])
      /\ sent \in Seq(Int)
      /\ status \in {-1, 0} \cup DeviceErrors
      /\ nonces \in Nat
  BY DEF RInv, NonceInv, TypeInv, TypeOK
<1>1. CASE UNCHANGED rvars
  BY <1>1 DEF rvars, vars, TQ!avars, Phase
<1>2. CASE RNext
  <2>0. Next /\ TrackRequest
    BY <1>2 DEF RNext
  <2> USE <1>0, <2>0
  <2>1. CASE \E o \in Ops : Invoke(o)
    <3>1. PICK o \in Ops : Invoke(o)
      BY <2>1
    <3>2. DispatchIdx[o] \in 1..Len(Program[o])
      BY ProgramShape
    <3>3. ~requested'
      <4>1. op' = o /\ step' = 1 /\ pc' = "run"
        BY <3>1 DEF Invoke
      <4>2. ~(step' > DispatchIdx[op'])
        BY <3>2, <4>1
      <4>3. QED
        BY <4>1, <4>2, Zenon DEF RInv, RequestedInv
    <3>4. Phase \in {"idle", "done"} /\ Phase' = "pending"
      BY <3>1, <3>3 DEF Invoke, Phase
    <3>5. TQ!Start
      BY <3>1, <3>4 DEF Invoke, TQ!Start
    <3>6. QED
      BY <3>5 DEF TQ!Next
  <2>2. CASE Dispatch
    <3>1. /\ pc = "run"
          /\ step = DispatchIdx[op]
          /\ NonceIdx[op] < step
      BY <2>2, ProgramShape DEF Dispatch, Cur
    <3>2. ~requested
      BY <3>1, NotYetSent, ProgramShape
    <3>3. requested' /\ pc' \in {"run", "cleanup"}
      <4>1. Len(sent') > Len(sent)
        BY <2>2 DEF Dispatch
      <4>2. requested'
        BY <4>1, Zenon DEF TrackRequest
      <4>3. QED
        BY <2>2, <4>2 DEF Dispatch, Advance, ToCleanup
    <3>4. Phase = "pending" /\ Phase' = "sent"
      BY <3>1, <3>2, <3>3 DEF Phase
    <3>5. /\ challenge = nonces
          /\ nonces >= 1
          /\ \A i \in DOMAIN sent : sent[i] < nonces
      BY <3>1, ProgramShape DEF RInv, NonceInv, NonceRest, ChallengeFresh
    <3>6. TQ!FreshAppend(sent, sent')
      <4>1. sent' = Append(sent, challenge)
        BY <2>2 DEF Dispatch
      <4>2. challenge \in Nat \ {0}
        BY <3>5
      <4>3. \A i \in 1..Len(sent) : sent[i] # challenge
        BY <3>5
      <4>4. QED
        BY <4>1, <4>2, <4>3 DEF TQ!FreshAppend
    <3>7. TQ!Send
      BY <2>2, <3>4, <3>6 DEF Dispatch, TQ!Send
    <3>8. QED
      BY <3>7 DEF TQ!Next
  <2>3. ASSUME pc = "run", Program[op][step].kind # "output",
               UNCHANGED << calls, sent >>,
               \/ pc' = "run" /\ ret' = ret
               \/ pc' = "cleanup" /\ ret' = ret
               \/ pc' = "returned" /\ ret' = -1
        PROVE  [TQ!Next]_TQ!avars
    <3>1. requested' = requested
      BY <2>3, TrackQuiet
    <3>2. ~requested
      BY <2>3, NotYetSent
    <3>3. QED
      BY <2>3, <3>1, <3>2, QuietPhase, RefuseStep
  <2>4. CASE GetDevice
    BY <2>4, <2>3, ProgramShape DEF GetDevice, Cur, Advance, ReturnEarly
  <2>5. CASE OpenSink
    BY <2>5, <2>3, ProgramShape DEF OpenSink, FopenFails, Cur, Advance,
                                   ReturnEarly, ToCleanup
  <2>6. CASE GetSetIndex
    BY <2>6, <2>3, ProgramShape DEF GetSetIndex, Cur, Advance, ToCleanup
  <2>7. CASE GenerateNonce
    BY <2>7, <2>3, ProgramShape DEF GenerateNonce, Cur, Advance, ToCleanup
  <2>8. CASE CheckVersion
    BY <2>8, <2>3, ProgramShape DEF CheckVersion, Cur, Advance, ReturnEarly
  <2>9. CASE Output
    <3>1. /\ pc = "run"
          /\ UNCHANGED << calls, sent, ret >>
          /\ pc' \in {"cleanup", "crashed"}
      BY <2>9 DEF Output, RejectTokens, ToCleanup
    <3>2. requested' = requested
      BY <3>1, TrackQuiet
    <3>3. QED
      BY <3>1, <3>2, QuietPhase, AbortStep
  <2>10. CASE CloseSink
    <3>1. /\ pc = "cleanup"
          /\ UNCHANGED << calls, sent >>
          /\ \/ pc' = "cleanup" /\ ret' = ret
             \/ pc' = "returned" /\ ret' = status
             \/ pc' = "crashed" /\ ret' = ret
      BY <2>10, Zenon DEF CloseSink
    <3>2. requested' = requested
      BY <3>1, TrackQuiet
    <3>3. CASE pc' = "returned" /\ ret' = status /\ requested
      <4>1. Phase = "sent" /\ Phase' = "done"
        BY <3>1, <3>3 DEF Phase
      <4>2. TQ!Complete
        BY <3>1, <3>3, <4>1 DEF TQ!Complete
      <4>3. QED
        BY <4>2 DEF TQ!Next
    <3>4. CASE pc' = "returned" /\ ret' = status /\ ~requested
      BY <3>1, <3>4, RefuseStep DEF RequestedInv
    <3>5. QED
      BY <3>1, <3>2, <3>3, <3>4, QuietPhase, AbortStep
  <2>11. CASE Terminated
    <3>1. UNCHANGED vars /\ pc \notin {"run", "cleanup"}
      BY <2>11 DEF Terminated
    <3>2. requested' = requested
      BY <3>1, TrackQuiet DEF vars
    <3>3. QED
      BY <3>1, <3>2 DEF vars, TQ!avars, Phase
  <2>12. QED
    BY <2>1, <2>2, <2>4, <2>5, <2>6, <2>7, <2>8, <2>9, <2>10, <2>11
       DEF Next
<1>3. QED
  BY <1>1, <1>2

\* At start-up no call has begun, nothing was sent and nothing returned.
LEMMA RefineInit == RInit => TQ!Init
BY DEF RInit, Init, Phase, TQ!Init

\* The three token queries implement the life cycle of a query for every
\* value of the constants: a call either returns -1 before any exchange or
\* sends exactly one request, with a nonce get_rand_challenge_nonce produced
\* and no request carried before, and only after it returns the dispatcher's
\* status or 0; undefined behaviour at fclose or fwrite only ever aborts.
THEOREM Refinement == RSpec => Implements
<1>1. RSpec => []RInv
  BY RInvInit, RInvStep, PTL DEF RSpec
<1>2. RInit => TQ!Init
  BY RefineInit
<1>3. RInv /\ RInv' /\ [RNext]_rvars => [TQ!Next]_TQ!avars
  BY RefineStep
<1>4. QED
  BY <1>1, <1>2, <1>3, PTL DEF RSpec, Implements, TQ!Spec

===========================================================================
