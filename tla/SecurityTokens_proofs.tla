------------------------ MODULE SecurityTokens_proofs ------------------------
(***************************************************************************)
(* Proofs about the token handlers of SecurityTokens, for every value of   *)
(* the constants allowed by ConstantsAssumption.                           *)
(***************************************************************************)
EXTENDS SecurityTokens, TLAPS

----------------------------------------------------------------------------
(* Facts about the handler programs.                                       *)

\* Where each handler calls get_rand_challenge_nonce and the dispatcher.
NonceIdx == [o \in Ops |->
               CASE o = "tokens_in_set"   -> 5
                 [] o = "token_set_count" -> 5
                 [] o = "token_set_info"  -> 3]
DispatchIdx == [o \in Ops |->
                  CASE o = "tokens_in_set"   -> 8
                    [] o = "token_set_count" -> 7
                    [] o = "token_set_info"  -> 6]

\* The shape of each program: the output step comes last, the nonce step
\* precedes the only dispatch step, and every sink named is a sink.
LEMMA ProgramShape ==
  ASSUME NEW o \in Ops
  PROVE  /\ Len(Program[o]) \in Nat \ {0}
         /\ \A i \in 1..Len(Program[o]) :
               /\ Program[o][i].kind = "output" <=> i = Len(Program[o])
               /\ Program[o][i].kind = "nonce" <=> i = NonceIdx[o]
               /\ Program[o][i].kind = "dispatch" <=> i = DispatchIdx[o]
               /\ Program[o][i].kind = "open" => Program[o][i].sink \in Sinks
         /\ NonceIdx[o] \in 1..(DispatchIdx[o] - 1)
         /\ DispatchIdx[o] \in 1..Len(Program[o])
         /\ Len(CloseOrder[o]) \in 1..Len(Program[o])
         /\ \A i \in 1..Len(CloseOrder[o]) : CloseOrder[o][i] \in Sinks
         /\ Range(OutFields[o]) \subseteq Fields
         /\ Len(OutFields[o]) \in Nat
         /\ \A i \in 1..Len(OutFields[o]) : OutFields[o][i] \in Fields
         /\ Len(ResponseFields[o]) = 3
         /\ \A i \in 1..3 : ResponseFields[o][i] \in Fields
<1>1. CASE o = "tokens_in_set"
  <2>1. /\ Program[o] = TokensInSetProgram
        /\ CloseOrder[o] = <<"tokens", "boot_nonce", "signature">>
        /\ ResponseFields[o] = <<"tokens", "boot_nonce", "signature">>
        /\ OutFields[o] = <<"tokens", "boot_nonce", "signature">>
        /\ NonceIdx[o] = 5
        /\ DispatchIdx[o] = 8
    BY <1>1 DEF Program, CloseOrder, ResponseFields, OutFields, NonceIdx,
                 DispatchIdx, Ops
  <2>2. QED
    BY <2>1 DEF TokensInSetProgram, Range, Sinks, Fields, DeviceStep, OpenStep,
                SetIndexStep, NonceStep, VersionStep, DispatchStep, OutputStep
<1>2. CASE o = "token_set_count"
  <2>1. /\ Program[o] = TokenSetCountProgram
        /\ CloseOrder[o] = <<"num_ids", "boot_nonce", "signature">>
        /\ ResponseFields[o] = <<"num_ids", "boot_nonce", "signature">>
        /\ OutFields[o] = <<"num_ids", "boot_nonce", "signature">>
        /\ NonceIdx[o] = 5
        /\ DispatchIdx[o] = 7
    BY <1>2 DEF Program, CloseOrder, ResponseFields, OutFields, NonceIdx,
                 DispatchIdx, Ops
  <2>2. QED
    BY <2>1 DEF TokenSetCountProgram, Range, Sinks, Fields, DeviceStep, OpenStep,
                SetIndexStep, NonceStep, VersionStep, DispatchStep, OutputStep
<1>3. CASE o = "token_set_info"
  <2>1. /\ Program[o] = TokenSetInfoProgram
        /\ CloseOrder[o] = <<"info">>
        /\ ResponseFields[o] = <<"info", "boot_nonce", "signature">>
        /\ OutFields[o] = <<"info">>
        /\ NonceIdx[o] = 3
        /\ DispatchIdx[o] = 6
    BY <1>3 DEF Program, CloseOrder, ResponseFields, OutFields, NonceIdx,
                 DispatchIdx, Ops
  <2>2. QED
    BY <2>1 DEF TokenSetInfoProgram, Range, Sinks, Fields, DeviceStep, OpenStep,
                SetIndexStep, NonceStep, VersionStep, DispatchStep, OutputStep
<1>4. QED
  BY <1>1, <1>2, <1>3 DEF Ops

----------------------------------------------------------------------------
(* Type correctness.                                                       *)

\* The FILE* locals that hold an open stream, counted sink by sink.
OpenCount(f) ==
    LET B(s) == IF f[s] = "open" THEN 1 ELSE 0
    IN  B("tokens") + B("boot_nonce") + B("signature") + B("num_ids") + B("info")

OpenPtrs == OpenCount(fp)

\* TypeOK alone is not inductive: the cleanup index must stay within the
\* close order, every open FILE* must be counted among the process's open
\* streams (so that an fclose never takes the count below 0), and a
\* response is only decoded once a call has started (its blobs carry a
\* call number in 1..MaxCalls).
CleanupInRange == pc = "cleanup" => step \in 1..Len(CloseOrder[op])
OpenAccounted == OpenPtrs <= openFiles
CallStarted == pc # "idle" => calls \in 1..MaxCalls

TypeInv == TypeOK /\ CleanupInRange /\ OpenAccounted /\ CallStarted

\* Setting one FILE* local changes the count of open ones by at most one.
LEMMA OpenCountUpdate ==
  ASSUME NEW f \in [Sinks -> PtrStates], NEW s \in Sinks, NEW v \in PtrStates
  PROVE  /\ OpenCount(f) \in Nat
         /\ f[s] = "open" => OpenCount(f) >= 1
         /\ OpenCount([f EXCEPT ![s] = v]) =
              OpenCount(f) + (IF v = "open" THEN 1 ELSE 0)
                           - (IF f[s] = "open" THEN 1 ELSE 0)
  BY DEF OpenCount, Sinks, Fields, PtrStates

\* A step of the running handler that is not its last moves to a valid index.
LEMMA StepAdvance ==
  ASSUME NEW o \in Ops, NEW i \in 1..Len(Program[o]),
         Program[o][i].kind # "output"
  PROVE  i + 1 \in 1..Len(Program[o])
  BY ProgramShape

\* Every response the dispatcher may decode is a function from fields to
\* (at most one) blob of the current call.
LEMMA ResponsesTyped ==
  ASSUME calls \in 1..MaxCalls
  PROVE  Responses \subseteq [Fields -> Seq(Blob)]
<1>1. \A f \in Fields, n \in Nat :
        << [call |-> calls, field |-> f, len |-> n] >> \in Seq(Blob)
  BY DEF Blob
<1>2. << >> \in Seq(Blob)
  OBVIOUS
<1>3. FixedResponse \subseteq [Fields -> Seq(Blob)]
  BY <1>1, <1>2 DEF FixedResponse
<1>4. SerializedResponses \subseteq [Fields -> Seq(Blob)]
  <2>1. \A k \in 0..3, n \in TokenLens, f \in Fields :
          (IF \E i \in 1..k : ResponseFields[op][i] = f
           THEN << [call |-> calls, field |-> f,
                    len |-> IF f = "tokens" THEN n ELSE 1] >>
           ELSE << >>) \in Seq(Blob)
    <3> SUFFICES ASSUME NEW k \in 0..3, NEW n \in TokenLens, NEW f \in Fields
                 PROVE  (IF \E i \in 1..k : ResponseFields[op][i] = f
                         THEN << [call |-> calls, field |-> f,
                                  len |-> IF f = "tokens" THEN n ELSE 1] >>
                         ELSE << >>) \in Seq(Blob)
      OBVIOUS
    <3>1. (IF f = "tokens" THEN n ELSE 1) \in Nat
      BY ConstantsAssumption
    <3>2. QED
      BY <1>1, <1>2, <3>1
  <2>2. SUFFICES ASSUME NEW r \in SerializedResponses
                 PROVE  r \in [Fields -> Seq(Blob)]
    OBVIOUS
  <2>3. PICK k \in 0..3, n \in TokenLens :
          r = [f \in Fields |->
                 IF \E i \in 1..k : ResponseFields[op][i] = f
                 THEN << [call |-> calls, field |-> f,
                          len |-> IF f = "tokens" THEN n ELSE 1] >>
                 ELSE << >>]
    BY DEF SerializedResponses
  <2>4. QED
    BY <2>1, <2>3
<1>5. QED
  BY <1>3, <1>4 DEF Responses

LEMMA TypeInvInit == Init => TypeInv
  BY ConstantsAssumption
  DEF Init, TypeInv, TypeOK, CleanupInRange, OpenAccounted, CallStarted,
      OpenPtrs, OpenCount, Sinks, Fields, PtrStates, Garbage, Ops, Program,
      TokensInSetProgram

LEMMA TypeInvStep == TypeInv /\ [Next]_vars => TypeInv'
<1> SUFFICES ASSUME TypeInv, [Next]_vars PROVE TypeInv'
  OBVIOUS
<1> USE ConstantsAssumption
<1>0. /\ op \in Ops
      /\ step \in 1..Len(Program[op])
      /\ fp \in [Sinks -> PtrStates]
      /\ OpenPtrs \in Nat
  BY OpenCountUpdate DEF TypeInv, TypeOK, OpenPtrs, Sinks, Fields
<1>1. CASE \E o \in Ops : Invoke(o)
  <2>1. PICK o \in Ops : Invoke(o)
    BY <1>1
  <2>2. Len(Program[o]) \in Nat \ {0}
    BY ProgramShape
  <2>3. OpenPtrs' = 0
    BY <2>1 DEF Invoke, OpenPtrs, OpenCount, Sinks, Fields
  <2>4. /\ op' \in Ops
        /\ step' \in 1..Len(Program[op'])
        /\ fp' \in [Sinks -> PtrStates]
        /\ slot' \in [Fields -> Seq(Blob)]
        /\ challenge' \in 0..nonces'
    BY <2>1, <2>2 DEF Invoke, TypeInv, TypeOK, Garbage, PtrStates
  <2>5. TypeOK'
    BY <2>1, <2>4 DEF Invoke, TypeInv, TypeOK
  <2>6. OpenAccounted'
    BY <2>1, <2>3 DEF Invoke, TypeInv, TypeOK, OpenAccounted
  <2>7. QED
    BY <2>1, <2>5, <2>6 DEF Invoke, TypeInv, TypeOK, CleanupInRange, CallStarted
<1>2. CASE GetDevice
  <2>1. /\ pc = "run"
        /\ Program[op][step].kind = "device"
    BY <1>2 DEF GetDevice, Cur
  <2>2. step + 1 \in 1..Len(Program[op])
    BY <1>0, <2>1, StepAdvance
  <2>3. OpenPtrs' = OpenPtrs
    BY <1>2 DEF GetDevice, OpenPtrs
  <2>4. QED
    BY <1>2, <2>1, <2>2, <2>3
    DEF GetDevice, TypeInv, TypeOK, CleanupInRange, OpenAccounted,
        CallStarted, Advance, ReturnEarly
<1>3. CASE OpenSink
  <2> DEFINE s == Program[op][step].sink
  <2>1. /\ pc = "run"
        /\ Program[op][step].kind = "open"
    BY <1>3 DEF OpenSink, Cur
  <2>2. /\ step + 1 \in 1..Len(Program[op])
        /\ s \in Sinks
    BY <1>0, <2>1, StepAdvance, ProgramShape
  <2>3. CASE /\ ReturnEarly
             /\ UNCHANGED << step, fp, disk, openFiles >>
    <3>1. OpenPtrs' = OpenPtrs
      BY <2>3 DEF OpenPtrs
    <3>2. QED
      BY <1>3, <2>3, <3>1
      DEF OpenSink, TypeInv, TypeOK, CleanupInRange, OpenAccounted,
          CallStarted, ReturnEarly
  <2>4. CASE FopenFails(s)
    <3>0. /\ OpenCount([fp EXCEPT ![s] = "null"]) \in Nat
          /\ OpenCount([fp EXCEPT ![s] = "null"]) <= OpenCount(fp)
      BY <1>0, <2>2 DEF OpenCount, Sinks, Fields, PtrStates
    <3>1. OpenPtrs' \in Nat /\ OpenPtrs' <= OpenPtrs
      BY <2>4, <3>0 DEF FopenFails, OpenPtrs
    <3>2. 1 \in 1..Len(CloseOrder[op])
      BY <1>0, ProgramShape
    <3>3. /\ fp' \in [Sinks -> PtrStates]
          /\ step' \in 1..Len(Program[op'])
          /\ UNCHANGED << calls, op, status, ret, pending, disk, openFiles,
                          challenge, nonces, sent, slot, fault >>
      BY <1>0, <1>3, <2>2, <2>4 DEF OpenSink, FopenFails, ToCleanup, PtrStates
    <3>4. TypeOK'
      BY <2>4, <3>3 DEF TypeInv, TypeOK, FopenFails, ToCleanup
    <3>5. CleanupInRange'
      BY <2>4, <3>2, <3>3 DEF FopenFails, CleanupInRange, ToCleanup
    <3>6. OpenAccounted'
      BY <1>0, <3>1, <3>3 DEF TypeInv, TypeOK, OpenAccounted
    <3>7. CallStarted'
      BY <2>1, <3>3 DEF TypeInv, CallStarted
    <3>8. QED
      BY <3>4, <3>5, <3>6, <3>7 DEF TypeInv
  <2>5. CASE /\ openFiles < MaxOpen
             /\ fp' = [fp EXCEPT ![s] = "open"]
             /\ disk' = [disk EXCEPT ![s] = << >>]
             /\ openFiles' = openFiles + 1
             /\ Advance
             /\ UNCHANGED << pc, ret >>
    <3>0. /\ OpenCount([fp EXCEPT ![s] = "open"]) \in Nat
          /\ OpenCount([fp EXCEPT ![s] = "open"]) <= OpenCount(fp) + 1
      BY <1>0, <2>2 DEF OpenCount, Sinks, Fields, PtrStates
    <3>1. OpenPtrs' \in Nat /\ OpenPtrs' <= OpenPtrs + 1
      BY <2>5, <3>0 DEF OpenPtrs
    <3>2. /\ fp' \in [Sinks -> PtrStates]
          /\ disk' \in [Sinks -> Seq(Blob)]
          /\ openFiles' \in 0..MaxOpen
          /\ step' \in 1..Len(Program[op'])
          /\ UNCHANGED << calls, op, status, pending, challenge, nonces, sent,
                          slot, fault >>
      BY <1>0, <1>3, <2>2, <2>5 DEF OpenSink, TypeInv, TypeOK, PtrStates, Advance
    <3>3. TypeOK'
      BY <2>5, <3>2 DEF TypeInv, TypeOK
    <3>4. CleanupInRange'
      BY <2>1, <2>5 DEF CleanupInRange
    <3>5. OpenAccounted'
      BY <1>0, <2>5, <3>1 DEF TypeInv, TypeOK, OpenAccounted
    <3>6. CallStarted'
      BY <2>1, <2>5, <3>2 DEF TypeInv, CallStarted
    <3>7. QED
      BY <3>3, <3>4, <3>5, <3>6 DEF TypeInv
  <2>6. QED
    BY <1>3, <2>3, <2>4, <2>5 DEF OpenSink, Cur
<1>4. CASE GetSetIndex
  <2>1. /\ pc = "run"
        /\ Program[op][step].kind = "set_index"
    BY <1>4 DEF GetSetIndex, Cur
  <2>2. /\ step + 1 \in 1..Len(Program[op])
        /\ 1 \in 1..Len(CloseOrder[op])
    BY <1>0, <2>1, StepAdvance, ProgramShape
  <2>3. OpenPtrs' = OpenPtrs
    BY <1>4 DEF GetSetIndex, OpenPtrs
  <2>4. QED
    BY <1>4, <2>1, <2>2, <2>3
    DEF GetSetIndex, TypeInv, TypeOK, CleanupInRange, OpenAccounted,
        CallStarted, Advance, ToCleanup
<1>5. CASE GenerateNonce
  <2>1. /\ pc = "run"
        /\ Program[op][step].kind = "nonce"
    BY <1>5 DEF GenerateNonce, Cur
  <2>2. /\ step + 1 \in 1..Len(Program[op])
        /\ 1 \in 1..Len(CloseOrder[op])
    BY <1>0, <2>1, StepAdvance, ProgramShape
  <2>3. OpenPtrs' = OpenPtrs
    BY <1>5 DEF GenerateNonce, OpenPtrs
  <2>4. sent \in Seq(0..nonces + 1)
    BY DEF TypeInv, TypeOK
  <2>5. QED
    BY <1>5, <2>1, <2>2, <2>3, <2>4
    DEF GenerateNonce, TypeInv, TypeOK, CleanupInRange, OpenAccounted,
        CallStarted, Advance, ToCleanup
<1>6. CASE CheckVersion
  <2>1. /\ pc = "run"
        /\ Program[op][step].kind = "version"
    BY <1>6 DEF CheckVersion, Cur
  <2>2. step + 1 \in 1..Len(Program[op])
    BY <1>0, <2>1, StepAdvance
  <2>3. OpenPtrs' = OpenPtrs
    BY <1>6 DEF CheckVersion, OpenPtrs
  <2>4. QED
    BY <1>6, <2>1, <2>2, <2>3
    DEF CheckVersion, TypeInv, TypeOK, CleanupInRange, OpenAccounted,
        CallStarted, Advance, ReturnEarly
<1>7. CASE Dispatch
  <2>1. /\ pc = "run"
        /\ Program[op][step].kind = "dispatch"
        /\ calls \in 1..MaxCalls
    BY <1>7 DEF Dispatch, Cur, TypeInv, CallStarted
  <2>2. /\ step + 1 \in 1..Len(Program[op])
        /\ 1 \in 1..Len(CloseOrder[op])
    BY <1>0, <2>1, StepAdvance, ProgramShape
  <2>3. OpenPtrs' = OpenPtrs
    BY <1>7 DEF Dispatch, OpenPtrs
  <2>4. Responses \subseteq [Fields -> Seq(Blob)]
    BY <2>1, ResponsesTyped
  <2>5. sent' \in Seq(0..nonces')
    BY <1>7 DEF Dispatch, TypeInv, TypeOK
  <2>6. QED
    BY <1>7, <2>1, <2>2, <2>3, <2>4, <2>5
    DEF Dispatch, TypeInv, TypeOK, CleanupInRange, OpenAccounted,
        CallStarted, Advance, ToCleanup
<1>8. CASE Output
  <2>1. pc = "run"
    BY <1>8 DEF Output
  <2>2. 1 \in 1..Len(CloseOrder[op])
    BY <1>0, ProgramShape
  <2>3. OpenPtrs' = OpenPtrs
    BY <1>8 DEF Output, OpenPtrs
  <2>4. WriteOutputs => pending' \in [Sinks -> Seq(Blob)]
    BY DEF WriteOutputs, TypeInv, TypeOK, Sinks, Fields
  <2>5. QED
    BY <1>8, <2>1, <2>2, <2>3, <2>4
    DEF Output, RejectTokens, TypeInv, TypeOK, CleanupInRange,
        OpenAccounted, CallStarted, ToCleanup
<1>9. CASE CloseSink
  <2> DEFINE s == CloseOrder[op][step]
  <2>1. /\ pc = "cleanup"
        /\ step \in 1..Len(CloseOrder[op])
        /\ calls \in 1..MaxCalls
    BY <1>9 DEF CloseSink, TypeInv, CleanupInRange, CallStarted
  <2>2. /\ s \in Sinks
        /\ Len(CloseOrder[op]) \in 1..Len(Program[op])
    BY <1>0, <2>1, ProgramShape
  <2>3. /\ step' \in 1..Len(CloseOrder[op])
        /\ pc' \in {"cleanup", "returned", "crashed"}
        /\ ret' \in {ret, status}
        /\ UNCHANGED << calls, op, status, challenge, nonces, sent, slot >>
    <3>1. \/ step # Len(CloseOrder[op]) /\ step' = step + 1 /\ pc' = pc /\ ret' = ret
          \/ step' = step /\ pc' = "returned" /\ ret' = status
          \/ step' = step /\ pc' = "crashed" /\ ret' = ret
      BY <1>9, Zenon DEF CloseSink
    <3>2. UNCHANGED << calls, op, status, challenge, nonces, sent, slot >>
      BY <1>9 DEF CloseSink
    <3>3. QED
      BY <2>1, <2>2, <3>1, <3>2
  <2>4. /\ step' \in 1..Len(Program[op'])
        /\ CleanupInRange'
        /\ CallStarted'
    BY <2>1, <2>2, <2>3 DEF CleanupInRange, CallStarted
  <2>5. CASE fp[s] = "open"
    <3>1. /\ fp' = [fp EXCEPT ![s] = "closed"]
          /\ disk' = [disk EXCEPT ![s] = disk[s] \o pending[s]]
          /\ pending' = [pending EXCEPT ![s] = << >>]
          /\ openFiles' = openFiles - 1
          /\ fault' = fault
      BY <1>9, <2>5, Zenon DEF CloseSink
    <3>2. /\ OpenCount([fp EXCEPT ![s] = "closed"]) = OpenCount(fp) - 1
          /\ OpenCount(fp) >= 1
      BY <1>0, <2>2, <2>5 DEF OpenCount, Sinks, Fields, PtrStates
    <3>3. OpenPtrs' = OpenPtrs - 1 /\ OpenPtrs >= 1
      BY <3>1, <3>2 DEF OpenPtrs
    <3>4. /\ fp' \in [Sinks -> PtrStates]
          /\ disk' \in [Sinks -> Seq(Blob)]
          /\ pending' \in [Sinks -> Seq(Blob)]
          /\ openFiles' \in 0..MaxOpen
      BY <1>0, <2>2, <3>1, <3>3 DEF TypeInv, TypeOK, OpenAccounted, PtrStates
    <3>5. TypeOK'
      BY <2>3, <2>4, <3>1, <3>4 DEF TypeInv, TypeOK
    <3>6. OpenAccounted'
      BY <1>0, <3>1, <3>3 DEF TypeInv, TypeOK, OpenAccounted
    <3>7. QED
      BY <2>4, <3>5, <3>6 DEF TypeInv
  <2>6. CASE fp[s] # "open"
    <3>1. /\ UNCHANGED << fp, pending, disk, openFiles >>
          /\ fault' \in {fault, "fclose_indeterminate"}
      BY <1>9, <2>6, Zenon DEF CloseSink
    <3>2. TypeOK'
      BY <2>3, <2>4, <3>1 DEF TypeInv, TypeOK
    <3>3. OpenAccounted'
      BY <3>1 DEF TypeInv, OpenAccounted, OpenPtrs
    <3>4. QED
      BY <2>4, <3>2, <3>3 DEF TypeInv
  <2>7. QED
    BY <2>5, <2>6
<1>10. CASE Terminated \/ UNCHANGED vars
  BY <1>10 DEF Terminated, vars, TypeInv, TypeOK, CleanupInRange,
               OpenAccounted, CallStarted, OpenPtrs
<1>11. QED
  BY <1>1, <1>2, <1>3, <1>4, <1>5, <1>6, <1>7, <1>8, <1>9, <1>10 DEF Next

\* The handlers keep every variable within its type: in particular the
\* count of open streams never goes below zero nor above the limit, and
\* the step index of the running handler or of its cleanup stays in range.
THEOREM TypeCorrect == Spec => []TypeOK
<1>1. Init => TypeInv
  BY TypeInvInit
<1>2. TypeInv /\ [Next]_vars => TypeInv'
  BY TypeInvStep
<1>3. TypeInv => TypeOK
  BY DEF TypeInv
<1>4. QED
  BY <1>1, <1>2, <1>3, PTL DEF Spec

----------------------------------------------------------------------------
(* Freshness of the nonces sent.                                           *)

\* NonceFresh alone is not inductive: between the nonce step and the
\* dispatch of the running handler, the challenge must hold the newest
\* nonce, one that no earlier request carried.
ChallengeFresh ==
    pc = "run" /\ NonceIdx[op] < step /\ step <= DispatchIdx[op] =>
        /\ challenge = nonces
        /\ nonces >= 1
        /\ \A i \in DOMAIN sent : sent[i] < nonces

SentFromSource == \A i \in DOMAIN sent : sent[i] \in 1..nonces

NonceRest == SentFromSource /\ IsInjective(sent) /\ ChallengeFresh

NonceInv == TypeInv /\ NonceRest

\* A step that sends no request and, if the handler keeps running, stays
\* where it is or moves past a step other than the nonce step, keeps the
\* nonces fresh.
LEMMA QuietStep ==
  ASSUME TypeInv, NonceRest,
         UNCHANGED << sent, nonces, challenge, op >>,
         pc' = "run" =>
            /\ pc = "run"
            /\ \/ step' = step
               \/ step' = step + 1 /\ Program[op][step].kind # "nonce"
  PROVE  NonceRest'
<1>1. /\ op \in Ops
      /\ step \in 1..Len(Program[op])
  BY DEF TypeInv, TypeOK
<1>2. /\ Program[op][step].kind # "nonce" => step # NonceIdx[op]
      /\ NonceIdx[op] \in Nat /\ DispatchIdx[op] \in Nat
  BY <1>1, ProgramShape
<1>3. ChallengeFresh'
  BY <1>1, <1>2 DEF ChallengeFresh, NonceRest
<1>4. QED
  BY <1>3 DEF NonceRest, SentFromSource, IsInjective

LEMMA NonceInvInit == Init => NonceInv
<1> SUFFICES ASSUME Init PROVE NonceInv
  OBVIOUS
<1>1. TypeInv
  BY TypeInvInit
<1>2. NonceRest
  BY DEF Init, NonceRest, SentFromSource, IsInjective, ChallengeFresh
<1>3. QED
  BY <1>1, <1>2 DEF NonceInv

LEMMA NonceInvStep == NonceInv /\ [Next]_vars => NonceInv'
<1> SUFFICES ASSUME NonceInv, [Next]_vars PROVE NonceInv'
  OBVIOUS
<1> USE DEF NonceInv
<1>0. /\ TypeInv'
      /\ op \in Ops
      /\ step \in 1..Len(Program[op])
      /\ nonces \in Nat
      /\ sent \in Seq(0..nonces)
  BY TypeInvStep DEF TypeInv, TypeOK
<1> SUFFICES NonceRest'
  BY <1>0
<1>1. CASE \E o \in Ops : Invoke(o)
  <2>1. PICK o \in Ops : Invoke(o)
    BY <1>1
  <2>2. NonceIdx[o] \in 1..Len(Program[o])
    BY ProgramShape
  <2>3. ChallengeFresh'
    BY <2>1, <2>2 DEF Invoke, ChallengeFresh
  <2>4. QED
    BY <2>1, <2>3 DEF Invoke, NonceRest, SentFromSource, IsInjective
<1>2. CASE GetDevice
  BY <1>2, QuietStep DEF GetDevice, Cur, Advance, ReturnEarly
<1>3. CASE OpenSink
  BY <1>3, QuietStep DEF OpenSink, FopenFails, Cur, Advance, ReturnEarly,
                         ToCleanup
<1>4. CASE GetSetIndex
  BY <1>4, QuietStep DEF GetSetIndex, Cur, Advance, ToCleanup
<1>5. CASE GenerateNonce
  <2>1. /\ pc = "run"
        /\ step = NonceIdx[op]
        /\ NonceIdx[op] + 1 <= DispatchIdx[op]
        /\ DispatchIdx[op] \in Nat
    BY <1>0, <1>5, ProgramShape DEF GenerateNonce, Cur
  <2>2. CASE /\ nonces' = nonces + 1
             /\ challenge' = nonces + 1
             /\ Advance
             /\ UNCHANGED pc
    <3>1. UNCHANGED << sent, op >>
      BY <1>5 DEF GenerateNonce
    <3>2. SentFromSource'
      BY <1>0, <2>2, <3>1 DEF NonceRest, SentFromSource
    <3>3. ChallengeFresh'
      BY <1>0, <2>1, <2>2, <3>1 DEF NonceRest, SentFromSource, ChallengeFresh,
                                    Advance
    <3>4. QED
      BY <3>1, <3>2, <3>3 DEF NonceRest, IsInjective
  <2>3. CASE ToCleanup /\ UNCHANGED << challenge, nonces >>
    BY <1>5, <2>3, QuietStep DEF GenerateNonce, ToCleanup
  <2>4. QED
    BY <1>5, <2>2, <2>3 DEF GenerateNonce
<1>6. CASE CheckVersion
  BY <1>6, QuietStep DEF CheckVersion, Cur, Advance, ReturnEarly
<1>7. CASE Dispatch
  <2>1. /\ pc = "run"
        /\ step = DispatchIdx[op]
        /\ NonceIdx[op] < step
    BY <1>0, <1>7, ProgramShape DEF Dispatch, Cur
  <2>2. /\ challenge = nonces
        /\ nonces >= 1
        /\ \A i \in DOMAIN sent : sent[i] < nonces
    BY <1>0, <2>1 DEF NonceRest, ChallengeFresh
  <2>3. /\ sent' = Append(sent, challenge)
        /\ UNCHANGED << op, nonces >>
        /\ pc' = "run" => step' = step + 1
    BY <1>7 DEF Dispatch, ToCleanup, Advance
  <2>4. SentFromSource'
    BY <1>0, <2>2, <2>3 DEF NonceRest, SentFromSource
  <2>5. IsInjective(sent')
    <3>1. IsInjective(sent)
      BY DEF NonceRest
    <3>2. QED
      BY <1>0, <2>2, <2>3, <3>1 DEF IsInjective
  <2>6. ChallengeFresh'
    BY <1>0, <2>1, <2>3 DEF ChallengeFresh
  <2>7. QED
    BY <2>4, <2>5, <2>6 DEF NonceRest
<1>8. CASE Output
  BY <1>8, QuietStep DEF Output, RejectTokens, ToCleanup
<1>9. CASE CloseSink
  <2>1. pc' # "run"
    BY <1>9, Zenon DEF CloseSink
  <2>2. UNCHANGED << sent, nonces, challenge, op >>
    BY <1>9 DEF CloseSink
  <2>3. QED
    BY <2>1, <2>2, QuietStep
<1>10. CASE Terminated \/ UNCHANGED vars
  BY <1>10 DEF Terminated, vars, NonceRest, SentFromSource, IsInjective,
               ChallengeFresh
<1>11. QED
  BY <1>1, <1>2, <1>3, <1>4, <1>5, <1>6, <1>7, <1>8, <1>9, <1>10 DEF Next

\* Every request the handlers send carries a nonce that RAND_bytes produced
\* in the same call, never stale stack bytes, and no two requests carry the
\* same nonce: get_rand_challenge_nonce is called, and its failure checked,
\* before each htool_exec_security_v2*_cmd.
THEOREM NonceFreshness == Spec => []NonceFresh
<1>1. Init => NonceInv
  BY NonceInvInit
<1>2. NonceInv /\ [Next]_vars => NonceInv'
  BY NonceInvStep
<1>3. NonceInv => NonceFresh
  BY DEF NonceInv, NonceRest, SentFromSource, NonceFresh, Garbage
<1>4. QED
  BY <1>1, <1>2, <1>3, PTL DEF Spec

=============================================================================
