------------------- MODULE SecurityTokensArtifacts_proofs -------------------
(***************************************************************************)
(* Proof that a failing token query only ever truncates the sinks it has  *)
(* opened, for every value of the constants allowed by                     *)
(* ConstantsAssumption.  It rests on the invariant OInv of                 *)
(* SecurityTokensOutcome_proofs and adds what the history variable         *)
(* `before` needs: a file the call has not opened is as the call found it. *)
(***************************************************************************)
EXTENDS SecurityTokensArtifacts, SecurityTokensOutcome_proofs

\* A sink whose FILE* local is indeterminate or NULL has not been opened by
\* the running call, so its file holds what it held when the call started.
BeforeKept ==
    \A s \in Sinks : fp[s] \in {"indet", "null"} => disk[s] = before[s]

AInv == OInv /\ BeforeKept

LEMMA AInvInit == HInit => AInv
BY OInvInit DEF HInit, AInv, BeforeKept

\* Apart from the start of a call, no step turns an open or closed FILE*
\* back into an indeterminate or NULL one, and none changes the file of a
\* sink whose FILE* stays indeterminate or NULL: only a successful fopen
\* truncates a file and only an fclose writes one.
LEMMA UnopenedFrame ==
  ASSUME OInv, Next, ~\E o \in Ops : Invoke(o)
  PROVE  /\ ~(pc \in {"idle", "returned"} /\ pc' = "run")
         /\ \A s \in Sinks : fp'[s] \in {"indet", "null"} =>
               fp[s] \in {"indet", "null"} /\ disk'[s] = disk[s]
<1>1. /\ fp \in [Sinks -> PtrStates]
      /\ disk \in [Sinks -> Seq(Blob)]
      /\ op \in Ops
      /\ step \in 1..Len(Program[op])
  BY DEF OInv, TypeInv, TypeOK
<1>2. CASE GetDevice \/ GetSetIndex \/ GenerateNonce \/ CheckVersion
             \/ Dispatch \/ Output
  BY <1>2 DEF GetDevice, GetSetIndex, GenerateNonce, CheckVersion, Dispatch,
              Output
<1>3. CASE Terminated
  BY <1>3 DEF Terminated, vars
<1>4. CASE OpenSink
  <2> DEFINE c == Program[op][step].sink
  <2>1. /\ pc = "run"
        /\ Program[op][step].kind = "open"
        /\ c \in Sinks
    BY <1>1, <1>4, ProgramShape DEF OpenSink, Cur
  <2>2. fp[c] = "indet"
    <3>1. ~OpenedBefore(c)
      <4>1. SUFFICES ASSUME NEW j \in 1..(step - 1),
                            Program[op][j].kind = "open",
                            Program[op][j].sink = c
                     PROVE  FALSE
        BY DEF OpenedBefore
      <4>2. j \in 1..Len(Program[op]) /\ j # step
        BY <1>1
      <4>3. QED
        BY <1>1, <2>1, <4>1, <4>2, SinksShape
    <3>2. QED
      BY <2>1, <3>1 DEF OInv, RunPtrs
  <2>3. \/ UNCHANGED << fp, disk >>
        \/ fp' = [fp EXCEPT ![c] = "null"] /\ UNCHANGED disk
        \/ /\ fp' = [fp EXCEPT ![c] = "open"]
           /\ disk' = [disk EXCEPT ![c] = << >>]
    BY <1>4 DEF OpenSink, Cur, FopenFails
  <2>4. ASSUME NEW s \in Sinks, fp'[s] \in {"indet", "null"}
        PROVE  fp[s] \in {"indet", "null"} /\ disk'[s] = disk[s]
    <3>1. CASE s = c
      BY <1>1, <2>1, <2>2, <2>3, <2>4, <3>1
    <3>2. CASE s # c
      BY <1>1, <2>1, <2>3, <2>4, <3>2
    <3>3. QED
      BY <3>1, <3>2
  <2>5. QED
    BY <2>1, <2>4
<1>5. CASE CloseSink
  <2> DEFINE c == CloseOrder[op][step]
  <2>1. pc = "cleanup" /\ c \in Sinks
    BY <1>1, <1>5, ProgramShape, Zenon DEF CloseSink, OInv, TypeInv, CleanupInRange
  <2>2. \/ UNCHANGED << fp, disk >>
        \/ /\ fp' = [fp EXCEPT ![c] = "closed"]
           /\ disk' = [disk EXCEPT ![c] = disk[c] \o pending[c]]
    BY <1>5, Zenon DEF CloseSink
  <2>3. ASSUME NEW s \in Sinks, fp'[s] \in {"indet", "null"}
        PROVE  fp[s] \in {"indet", "null"} /\ disk'[s] = disk[s]
    <3>1. CASE s = c
      BY <1>1, <2>1, <2>2, <2>3, <3>1, Zenon
    <3>2. CASE s # c
      BY <1>1, <2>1, <2>2, <2>3, <3>2, Zenon
    <3>3. QED
      BY <3>1, <3>2
  <2>4. QED
    BY <2>1, <2>3
<1>6. QED
  BY <1>2, <1>3, <1>4, <1>5 DEF Next

LEMMA AInvStep == AInv /\ [HNext]_hvars => AInv'
<1> SUFFICES ASSUME AInv, [HNext]_hvars PROVE AInv'
  OBVIOUS
<1>1. OInv'
  <2>1. [Next]_vars
    BY DEF HNext, hvars
  <2>2. QED
    BY <2>1, OInvStep DEF AInv
<1>2. CASE UNCHANGED hvars
  BY <1>1, <1>2 DEF hvars, vars, AInv, BeforeKept
<1>3. CASE HNext /\ \E o \in Ops : Invoke(o)
  <2>1. pc \in {"idle", "returned"} /\ pc' = "run" /\ disk' = disk
    BY <1>3 DEF Invoke
  <2>2. before' = disk
    BY <1>3, <2>1, Zenon DEF HNext, TrackBefore
  <2>3. QED
    BY <1>1, <2>1, <2>2 DEF AInv, BeforeKept
<1>4. CASE HNext /\ ~\E o \in Ops : Invoke(o)
  <2>1. /\ ~(pc \in {"idle", "returned"} /\ pc' = "run")
        /\ \A s \in Sinks : fp'[s] \in {"indet", "null"} =>
              fp[s] \in {"indet", "null"} /\ disk'[s] = disk[s]
    BY <1>4, UnopenedFrame DEF HNext, AInv
  <2>2. before' = before
    BY <1>4, <2>1, Zenon DEF HNext, TrackBefore
  <2>3. QED
    BY <1>1, <2>1, <2>2 DEF AInv, BeforeKept
<1>5. QED
  BY <1>2, <1>3, <1>4

\* A failing token query only truncates: for every value of the constants,
\* once a handler has returned a nonzero status (an early return -1, a
\* goto cleanup with status -1 or the dispatcher's status) or the process
\* has crashed, each sink holds what it held when the call started, or is
\* empty because the call opened it with fopen "wb"; nothing the call
\* fwrote before failing reaches a file.
THEOREM FailureArtifacts == HSpec => []FailureOnlyTruncates
<1>1. AInv => FailureOnlyTruncates
  <2> SUFFICES ASSUME AInv, (pc = "returned" /\ ret # 0) \/ pc = "crashed",
                      NEW s \in Sinks
               PROVE  \/ disk[s] = before[s]
                      \/ disk[s] = << >> /\ fp[s] \in {"open", "closed"}
    BY DEF FailureOnlyTruncates
  <2>1. status # 0
    BY DEF AInv, OInv, StatusFlow
  <2>2. fp[s] \in PtrStates
    BY DEF AInv, OInv, TypeInv, TypeOK
  <2>3. QED
    BY <2>1, <2>2 DEF AInv, OInv, SinkState, BeforeKept, PtrStates
<1>2. QED
  BY <1>1, AInvInit, AInvStep, PTL DEF HSpec

=============================================================================
