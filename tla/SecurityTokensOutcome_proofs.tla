--------------------- MODULE SecurityTokensOutcome_proofs ---------------------
(***************************************************************************)
(* Proof that the sinks reflect the outcome of each token query: after     *)
(* success each sink holds exactly the field the device returned, after a  *)
(* failure or a crash no sink holds anything of that call.  The inductive  *)
(* invariant OInv follows each FILE* local, stdio buffer and file through  *)
(* the fopen, fwrite and fclose steps of the handlers; the module that    *)
(* proves FailureOnlyTruncates reuses it.                                  *)
(***************************************************************************)
EXTENDS SecurityTokens_proofs

\* What one sink holds, by the state of its FILE* local: a sink the call
\* has not opened has nothing buffered; an open one was truncated by fopen
\* "wb" and nothing has reached it since; a closed one has its buffer
\* flushed, and holds data only after success.
SinkState(s) ==
    /\ fp[s] \in {"indet", "null"} => pending[s] = << >>
    /\ fp[s] = "open" => disk[s] = << >>
    /\ fp[s] = "closed" => pending[s] = << >> /\ (disk[s] = << >> \/ status = 0)

\* Data is buffered only between the successful fwrites and the fclose of
\* the cleanup label, and only in a stream the cleanup label will close.
Buffered ==
    \A s \in Sinks : pending[s] # << >> =>
        /\ pc = "cleanup"
        /\ status = 0
        /\ fp[s] = "open"
        /\ \E j \in 1..Len(CloseOrder[op]) : CloseOrder[op][j] = s

\* The running handler has passed the fopen step of sink s.
OpenedBefore(s) ==
    \E j \in 1..(step - 1) :
        Program[op][j].kind = "open" /\ Program[op][j].sink = s

\* While a handler runs, a FILE* local holds an open stream exactly when
\* its fopen step has passed, and is still indeterminate otherwise (every
\* failed fopen leaves the running state).
RunPtrs ==
    pc = "run" =>
        \A s \in Sinks : fp[s] = IF OpenedBefore(s) THEN "open" ELSE "indet"

\* The cleanup label closes the handler's streams in order: none it has
\* yet to reach is closed, and after success every one of them is open
\* until it is reached.
ClosingInOrder ==
    pc = "cleanup" =>
        \A j \in 1..Len(CloseOrder[op]) :
            /\ j >= step => fp[CloseOrder[op][j]] # "closed"
            /\ status = 0 =>
                 fp[CloseOrder[op][j]] = IF j < step THEN "closed" ELSE "open"

\* The status a handler carries and returns: -1 while it runs, the value
\* it returned once it has, and never 0 when the process crashed.
StatusFlow ==
    /\ pc = "run" => status = -1
    /\ pc = "returned" => ret = status
    /\ pc = "crashed" => status # 0

\* Every blob carries the number of the call whose dispatch decoded it:
\* the decoded response and the stdio buffers hold this call's data only,
\* and a file holds data of this call only once the call has set status 0.
CallTags ==
    /\ \A s \in Sinks : \A i \in DOMAIN disk[s] :
          /\ disk[s][i].call <= calls
          /\ disk[s][i].call = calls => status = 0
    /\ \A s \in Sinks : \A i \in DOMAIN pending[s] : pending[s][i].call = calls
    /\ \A f \in Fields : \A i \in DOMAIN slot[f] : slot[f][i].call = calls

ORest ==
    /\ \A s \in Sinks : SinkState(s)
    /\ Buffered
    /\ RunPtrs
    /\ ClosingInOrder
    /\ StatusFlow

OInv ==
    /\ TypeInv
    /\ \A s \in Sinks : SinkState(s)
    /\ Buffered
    /\ RunPtrs
    /\ ClosingInOrder
    /\ StatusFlow
    /\ CallTags

----------------------------------------------------------------------------
(* The sinks each handler opens, closes and writes.                        *)

\* Each handler opens each sink at most once, its cleanup label closes
\* distinct FILE* locals, each one
\* opened by an fopen step before the output step, and every field the
\* handler fwrites goes to a stream its cleanup label closes.
LEMMA SinksShape ==
  ASSUME NEW o \in Ops
  PROVE  /\ \A i, j \in 1..Len(Program[o]) :
               /\ Program[o][i].kind = "open"
               /\ Program[o][j].kind = "open"
               /\ Program[o][i].sink = Program[o][j].sink
               => i = j
         /\ \A i, j \in 1..Len(CloseOrder[o]) :
               CloseOrder[o][i] = CloseOrder[o][j] => i = j
         /\ \A j \in 1..Len(CloseOrder[o]) :
               \E i \in 1..(Len(Program[o]) - 1) :
                  /\ Program[o][i].kind = "open"
                  /\ Program[o][i].sink = CloseOrder[o][j]
         /\ \A f \in Range(OutFields[o]) :
               \E j \in 1..Len(CloseOrder[o]) : CloseOrder[o][j] = f
<1>1. CASE o = "tokens_in_set"
  <2>1. /\ Program[o] = TokensInSetProgram
        /\ CloseOrder[o] = <<"tokens", "boot_nonce", "signature">>
        /\ OutFields[o] = <<"tokens", "boot_nonce", "signature">>
    BY <1>1 DEF Program, CloseOrder, OutFields, Ops
  <2>2. \A j \in 1..3 : j \in {1, 2, 3}
    OBVIOUS
  <2>3. /\ Program[o][2] = OpenStep("tokens")
        /\ Program[o][4] = OpenStep("boot_nonce")
        /\ Program[o][3] = OpenStep("signature")
        /\ Len(Program[o]) = 9
    BY <2>1 DEF TokensInSetProgram
  <2>5. \A i \in 1..9 : Program[o][i].kind = "open" => i \in {2, 3, 4}
    <3>1. \A i \in 1..9 : i \in {1, 2, 3, 4, 5, 6, 7, 8, 9}
      OBVIOUS
    <3>2. QED
      BY <2>1, <3>1 DEF TokensInSetProgram, DeviceStep, OpenStep, SetIndexStep,
                        NonceStep, VersionStep, DispatchStep, OutputStep
  <2>4. QED
    BY <2>1, <2>2, <2>3, <2>5 DEF Range, OpenStep
<1>2. CASE o = "token_set_count"
  <2>1. /\ Program[o] = TokenSetCountProgram
        /\ CloseOrder[o] = <<"num_ids", "boot_nonce", "signature">>
        /\ OutFields[o] = <<"num_ids", "boot_nonce", "signature">>
    BY <1>2 DEF Program, CloseOrder, OutFields, Ops
  <2>2. \A j \in 1..3 : j \in {1, 2, 3}
    OBVIOUS
  <2>3. /\ Program[o][2] = OpenStep("num_ids")
        /\ Program[o][3] = OpenStep("boot_nonce")
        /\ Program[o][4] = OpenStep("signature")
        /\ Len(Program[o]) = 8
    BY <2>1 DEF TokenSetCountProgram
  <2>5. \A i \in 1..8 : Program[o][i].kind = "open" => i \in {2, 3, 4}
    <3>1. \A i \in 1..8 : i \in {1, 2, 3, 4, 5, 6, 7, 8}
      OBVIOUS
    <3>2. QED
      BY <2>1, <3>1 DEF TokenSetCountProgram, DeviceStep, OpenStep, SetIndexStep,
                        NonceStep, VersionStep, DispatchStep, OutputStep
  <2>4. QED
    BY <2>1, <2>2, <2>3, <2>5 DEF Range, OpenStep
<1>3. CASE o = "token_set_info"
  <2>1. /\ Program[o] = TokenSetInfoProgram
        /\ CloseOrder[o] = <<"info">>
        /\ OutFields[o] = <<"info">>
    BY <1>3 DEF Program, CloseOrder, OutFields, Ops
  <2>3. /\ Program[o][4] = OpenStep("info")
        /\ Len(Program[o]) = 7
    BY <2>1 DEF TokenSetInfoProgram
  <2>5. \A i \in 1..7 : Program[o][i].kind = "open" => i \in {4}
    <3>1. \A i \in 1..7 : i \in {1, 2, 3, 4, 5, 6, 7}
      OBVIOUS
    <3>2. QED
      BY <2>1, <3>1 DEF TokenSetInfoProgram, DeviceStep, OpenStep, SetIndexStep,
                        NonceStep, VersionStep, DispatchStep, OutputStep
  <2>4. QED
    BY <2>1, <2>3, <2>5 DEF Range, OpenStep
<1>4. QED
  BY <1>1, <1>2, <1>3 DEF Ops

----------------------------------------------------------------------------
(* The inductive invariant: one lemma per kind of step.                    *)

LEMMA OInvInit == Init => OInv
<1> SUFFICES ASSUME Init PROVE OInv
  OBVIOUS
<1>1. TypeInv
  BY TypeInvInit
<1>2. QED
  BY <1>1 DEF Init, OInv, SinkState, Buffered, RunPtrs,
              ClosingInOrder, StatusFlow, CallTags

\* A step that keeps a handler running, moves it past a step that opens
\* nothing, and touches no FILE*, buffer, file or status keeps the
\* invariant.
LEMMA RunQuiet ==
  ASSUME OInv, TypeInv',
         pc = "run", pc' = "run", step' = step + 1,
         Program[op][step].kind # "open",
         UNCHANGED << op, fp, pending, disk, status >>
  PROVE  ORest'
<1>1. /\ op \in Ops
      /\ step \in 1..Len(Program[op])
  BY DEF OInv, TypeInv, TypeOK
<1>2. \A s \in Sinks : OpenedBefore(s)' <=> OpenedBefore(s)
  BY <1>1 DEF OpenedBefore
<1>3. RunPtrs'
  BY <1>2 DEF OInv, RunPtrs
<1>4. \A s \in Sinks : SinkState(s)'
  BY DEF OInv, SinkState
<1>5. Buffered' /\ ClosingInOrder' /\ StatusFlow'
  BY DEF OInv, Buffered, ClosingInOrder, StatusFlow
<1>6. QED
  BY <1>3, <1>4, <1>5 DEF ORest

\* A step that takes a running handler to its cleanup label, its return
\* or a crash, with a nonzero status, without writing, and at most
\* recording a failed fopen as NULL, keeps the invariant.
LEMMA LeaveRun ==
  ASSUME OInv, TypeInv',
         pc = "run", pc' \in {"cleanup", "returned", "crashed"},
         status' # 0, pc' = "returned" => ret' = status',
         \A s \in Sinks : fp'[s] = fp[s] \/ (fp[s] = "indet" /\ fp'[s] = "null"),
         UNCHANGED << op, pending, disk >>
  PROVE  ORest'
<1>1. /\ fp \in [Sinks -> PtrStates]
      /\ \A s \in Sinks : pending[s] = << >>
      /\ \A s \in Sinks : fp[s] \in {"indet", "open"}
  BY DEF OInv, TypeInv, TypeOK, Buffered, RunPtrs
<1>2. \A s \in Sinks : SinkState(s)'
  BY <1>1 DEF OInv, SinkState
<1>3. Buffered'
  BY <1>1 DEF Buffered
<1>4. RunPtrs' /\ StatusFlow'
  BY DEF RunPtrs, StatusFlow
<1>5. ClosingInOrder'
  <2>1. op \in Ops
    BY DEF OInv, TypeInv, TypeOK
  <2>2. \A j \in 1..Len(CloseOrder[op]) : CloseOrder[op][j] \in Sinks
    BY <2>1, ProgramShape
  <2>3. QED
    BY <1>1, <2>2 DEF ClosingInOrder
<1>6. QED
  BY <1>2, <1>3, <1>4, <1>5 DEF ORest

\* A call starts with every FILE* local indeterminate, nothing buffered,
\* and the history taking the sinks as they are.
LEMMA InvokeStep ==
  ASSUME OInv, TypeInv', NEW o \in Ops, Invoke(o)
  PROVE  ORest'
<1>1. /\ pc \in {"idle", "returned"}
      /\ pc' = "run" /\ step' = 1 /\ status' = -1
      /\ fp' = [s \in Sinks |-> "indet"]
      /\ UNCHANGED << pending, disk >>
  BY DEF Invoke
<1>2. \A s \in Sinks : pending[s] = << >>
  BY <1>1 DEF OInv, Buffered
<1>4. \A s \in Sinks : SinkState(s)'
  BY <1>1, <1>2 DEF SinkState
<1>5. Buffered'
  BY <1>1, <1>2 DEF Buffered
<1>6. RunPtrs'
  BY <1>1 DEF RunPtrs, OpenedBefore
<1>7. ClosingInOrder' /\ StatusFlow'
  BY <1>1 DEF ClosingInOrder, StatusFlow
<1>8. QED
  BY <1>4, <1>5, <1>6, <1>7 DEF ORest

\* The fopen "wb" of a sink either fails, leaving the file alone, or
\* truncates it; either way nothing is buffered yet.
LEMMA OpenSinkStep ==
  ASSUME OInv, TypeInv', OpenSink
  PROVE  ORest'
<1> DEFINE s == Program[op][step].sink
<1>1. /\ op \in Ops
      /\ step \in 1..Len(Program[op])
      /\ pc = "run"
      /\ Program[op][step].kind = "open"
      /\ s \in Sinks
      /\ fp \in [Sinks -> PtrStates]
      /\ disk \in [Sinks -> Seq(Blob)]
  BY ProgramShape DEF OpenSink, Cur, OInv, TypeInv, TypeOK
<1>2. UNCHANGED << op, status, pending >>
  BY <1>1, Zenon DEF OpenSink
<1>3. fp[s] = "indet"
  <2>1. ~OpenedBefore(s)
    BY <1>1, SinksShape DEF OpenedBefore
  <2>2. QED
    BY <1>1, <2>1 DEF OInv, RunPtrs
<1>4. CASE ReturnEarly /\ UNCHANGED << step, fp, disk, openFiles >>
  BY <1>1, <1>2, <1>4, LeaveRun DEF ReturnEarly, OInv, StatusFlow
<1>5. CASE FopenFails(s)
  <2>1. \A t \in Sinks : fp'[t] = fp[t] \/ (fp[t] = "indet" /\ fp'[t] = "null")
    BY <1>1, <1>3, <1>5 DEF FopenFails
  <2>2. QED
    BY <1>1, <1>2, <1>5, <2>1, LeaveRun DEF FopenFails, ToCleanup, OInv,
                                             StatusFlow
<1>6. CASE /\ openFiles < MaxOpen
           /\ fp' = [fp EXCEPT ![s] = "open"]
           /\ disk' = [disk EXCEPT ![s] = << >>]
           /\ openFiles' = openFiles + 1
           /\ Advance
           /\ UNCHANGED << pc, ret >>
  <2>1. \A t \in Sinks : OpenedBefore(t)' <=> OpenedBefore(t) \/ t = s
    BY <1>1, <1>2, <1>6 DEF OpenedBefore, Advance
  <2>2. RunPtrs'
    BY <1>1, <1>3, <1>6, <2>1 DEF OInv, RunPtrs
  <2>3. \A t \in Sinks : SinkState(t)'
    <3>1. SUFFICES ASSUME NEW t \in Sinks PROVE SinkState(t)'
      OBVIOUS
    <3>2. CASE t = s
      BY <1>1, <3>2, <1>6 DEF SinkState
    <3>3. CASE t # s
      <4>1. fp'[t] = fp[t] /\ disk'[t] = disk[t]
        BY <1>1, <3>3, <1>6
      <4>2. QED
        BY <1>2, <4>1 DEF OInv, SinkState
    <3>4. QED
      BY <3>2, <3>3
  <2>4. Buffered' /\ ClosingInOrder' /\ StatusFlow'
    BY <1>1, <1>2, <1>6 DEF OInv, Buffered, ClosingInOrder, StatusFlow
  <2>5. QED
    BY <2>2, <2>3, <2>4 DEF ORest
<1>7. QED
  BY <1>4, <1>5, <1>6 DEF OpenSink, Cur

\* When a handler reaches its output step, every stream its cleanup label
\* closes is open, and every field it fwrites goes to one of them.
LEMMA OpenAtOutput ==
  ASSUME OInv, pc = "run", step = Len(Program[op])
  PROVE  /\ \A j \in 1..Len(CloseOrder[op]) : fp[CloseOrder[op][j]] = "open"
         /\ \A s \in Range(OutFields[op]) :
              /\ fp[s] = "open"
              /\ \E j \in 1..Len(CloseOrder[op]) : CloseOrder[op][j] = s
<1>1. op \in Ops
  BY DEF OInv, TypeInv, TypeOK
<1>2. \A j \in 1..Len(CloseOrder[op]) : fp[CloseOrder[op][j]] = "open"
  <2>1. SUFFICES ASSUME NEW j \in 1..Len(CloseOrder[op])
                 PROVE  fp[CloseOrder[op][j]] = "open"
    OBVIOUS
  <2>2. PICK i \in 1..(Len(Program[op]) - 1) :
              /\ Program[op][i].kind = "open"
              /\ Program[op][i].sink = CloseOrder[op][j]
    BY <1>1, SinksShape, Zenon
  <2>3. OpenedBefore(CloseOrder[op][j]) /\ CloseOrder[op][j] \in Sinks
    BY <1>1, <2>2, ProgramShape DEF OpenedBefore
  <2>4. QED
    BY <1>1, <2>3 DEF OInv, RunPtrs
<1>3. \A s \in Range(OutFields[op]) :
        /\ fp[s] = "open"
        /\ \E j \in 1..Len(CloseOrder[op]) : CloseOrder[op][j] = s
  <2>1. \A s \in Range(OutFields[op]) :
          \E j \in 1..Len(CloseOrder[op]) : CloseOrder[op][j] = s
    BY <1>1, SinksShape
  <2>2. QED
    BY <1>2, <2>1
<1>4. QED
  BY <1>2, <1>3

\* The output step reaches its fwrites only with every sink of the handler
\* open: a rejected token blob or a NULL field leaves nothing buffered, and
\* the fwrites buffer data only in streams the cleanup label will close.
LEMMA WriteStep ==
  ASSUME OInv, TypeInv', Output
  PROVE  ORest'
<1>1. /\ op \in Ops
      /\ pc = "run"
      /\ step = Len(Program[op])
      /\ fp \in [Sinks -> PtrStates]
      /\ \A s \in Sinks : pending[s] = << >>
      /\ status = -1
      /\ UNCHANGED << op, fp, disk >>
  BY ProgramShape, Zenon DEF Output, Cur, OInv, TypeInv, TypeOK, Buffered,
                             StatusFlow
<1>2. \A j \in 1..Len(CloseOrder[op]) : fp[CloseOrder[op][j]] = "open"
  BY <1>1, OpenAtOutput
<1>3. \A s \in Range(OutFields[op]) :
        /\ fp[s] = "open"
        /\ \E j \in 1..Len(CloseOrder[op]) : CloseOrder[op][j] = s
  BY <1>1, OpenAtOutput
<1>4. CASE RejectTokens \/ (pc' = "crashed" /\ UNCHANGED << status, pending >>)
  <2>1. /\ pc' \in {"cleanup", "crashed"}
        /\ UNCHANGED << status, pending >>
    BY <1>4 DEF RejectTokens, ToCleanup
  <2>2. QED
    BY <1>1, <2>1, LeaveRun DEF OInv, StatusFlow
<1>5. CASE /\ WriteOutputs
           /\ status' = 0
           /\ ToCleanup
  <2>1. PICK stored \in [Fields -> IF WriteMayFail THEN BOOLEAN ELSE {TRUE}] :
          pending' = [s \in Sinks |->
                        IF s \in Range(OutFields[op]) /\ stored[s]
                        THEN pending[s] \o slot[s]
                        ELSE pending[s]]
    BY <1>5, Zenon DEF WriteOutputs
  <2>2. \A s \in Sinks : pending'[s] # << >> => s \in Range(OutFields[op])
    BY <1>1, <2>1
  <2>3. \A s \in Sinks : SinkState(s)'
    BY <1>1, <1>3, <1>5, <2>2 DEF OInv, SinkState
  <2>4. Buffered'
    BY <1>1, <1>3, <1>5, <2>2 DEF Buffered, ToCleanup
  <2>5. ClosingInOrder'
    BY <1>1, <1>2, <1>5 DEF ClosingInOrder, ToCleanup, PtrStates
  <2>6. RunPtrs' /\ StatusFlow'
    BY <1>5 DEF RunPtrs, StatusFlow, ToCleanup
  <2>7. QED
    BY <2>3, <2>4, <2>5, <2>6 DEF ORest
<1>6. QED
  BY <1>4, <1>5 DEF Output

\* An fclose of the cleanup label flushes the stream's buffer into its
\* file; after a failure the buffer is empty, so the file stays truncated.
\* A NULL or indeterminate FILE* is reached only after a failure, as
\* after success every stream the label reaches is open.
LEMMA CloseSinkStep ==
  ASSUME OInv, TypeInv', CloseSink
  PROVE  ORest'
<1> DEFINE s == CloseOrder[op][step]
           last == step = Len(CloseOrder[op])
<1>1. /\ op \in Ops
      /\ pc = "cleanup"
      /\ step \in 1..Len(CloseOrder[op])
      /\ s \in Sinks
      /\ fp \in [Sinks -> PtrStates]
      /\ pending \in [Sinks -> Seq(Blob)]
      /\ disk \in [Sinks -> Seq(Blob)]
      /\ UNCHANGED << op, status >>
  BY ProgramShape, Zenon DEF CloseSink, OInv, TypeInv, TypeOK, CleanupInRange
<1>2. /\ \/ pc' = "returned" /\ ret' = status /\ last
         \/ pc' = "cleanup" /\ step' = step + 1 /\ ~last
         \/ pc' = "crashed"
      /\ \/ /\ fp[s] = "open"
            /\ disk' = [disk EXCEPT ![s] = disk[s] \o pending[s]]
            /\ pending' = [pending EXCEPT ![s] = << >>]
            /\ fp' = [fp EXCEPT ![s] = "closed"]
            /\ pc' # "crashed"
         \/ /\ fp[s] \in {"null", "indet"}
            /\ UNCHANGED << fp, pending, disk >>
  BY Zenon DEF CloseSink
<1>3. CASE fp[s] \in {"null", "indet"}
  <2>1. status # 0
    BY <1>1, <1>3 DEF OInv, ClosingInOrder
  <2>2. \A t \in Sinks : pending[t] = << >>
    BY <2>1 DEF OInv, Buffered
  <2>3. UNCHANGED << fp, pending, disk >>
    BY <1>2, <1>3, Zenon
  <2>4. \A t \in Sinks : SinkState(t)'
    BY <1>1, <2>3 DEF OInv, SinkState
  <2>5. Buffered' /\ RunPtrs'
    BY <1>1, <1>2, <2>1, <2>2, <2>3 DEF Buffered, RunPtrs
  <2>8. ClosingInOrder'
    <3>1. SUFFICES ASSUME pc' = "cleanup", NEW j \in 1..Len(CloseOrder[op]),
                          j >= step'
                   PROVE  fp'[CloseOrder[op][j]] # "closed"
      BY <1>1, <2>1 DEF ClosingInOrder
    <3>2. step' = step + 1
      BY <1>2, <3>1
    <3>3. QED
      BY <1>1, <2>3, <3>1, <3>2 DEF OInv, ClosingInOrder
  <2>6. StatusFlow'
    BY <1>1, <1>2, <2>1 DEF StatusFlow
  <2>7. QED
    BY <2>4, <2>5, <2>6, <2>8 DEF ORest
<1>4. CASE fp[s] = "open"
  <2>1. /\ disk' = [disk EXCEPT ![s] = disk[s] \o pending[s]]
        /\ pending' = [pending EXCEPT ![s] = << >>]
        /\ fp' = [fp EXCEPT ![s] = "closed"]
        /\ pc' \in {"returned", "cleanup"}
    BY <1>2, <1>4, Zenon
  <2>2. disk[s] = << >> /\ (status # 0 => pending[s] = << >>)
    BY <1>1, <1>4 DEF OInv, SinkState, Buffered
  <2>3. \A t \in Sinks : SinkState(t)'
    <3>1. SUFFICES ASSUME NEW t \in Sinks PROVE SinkState(t)'
      OBVIOUS
    <3>2. CASE t = s
      BY <1>1, <2>1, <2>2, <3>2 DEF SinkState
    <3>3. CASE t # s
      BY <1>1, <2>1, <3>3 DEF OInv, SinkState
    <3>4. QED
      BY <3>2, <3>3
  <2>4. \A t \in Sinks : t # s /\ pending[t] # << >> =>
          \E j \in 1..Len(CloseOrder[op]) : CloseOrder[op][j] = t /\ j > step
    <3>1. SUFFICES ASSUME NEW t \in Sinks, t # s, pending[t] # << >>
                   PROVE  \E j \in 1..Len(CloseOrder[op]) :
                             CloseOrder[op][j] = t /\ j > step
      OBVIOUS
    <3>2. /\ status = 0 /\ fp[t] = "open"
          /\ \E j \in 1..Len(CloseOrder[op]) : CloseOrder[op][j] = t
      BY <3>1 DEF OInv, Buffered
    <3>3. PICK j \in 1..Len(CloseOrder[op]) : CloseOrder[op][j] = t
      BY <3>2
    <3>4. ~(j < step) /\ j # step
      BY <1>1, <3>1, <3>2, <3>3 DEF OInv, ClosingInOrder
    <3>5. QED
      BY <1>1, <3>3, <3>4
  <2>5. Buffered'
    <3>1. SUFFICES ASSUME NEW t \in Sinks, pending'[t] # << >>
                   PROVE  /\ pc' = "cleanup"
                          /\ status' = 0
                          /\ fp'[t] = "open"
                          /\ \E j \in 1..Len(CloseOrder[op']) :
                                CloseOrder[op'][j] = t
      BY DEF Buffered
    <3>2. t # s /\ pending[t] = pending'[t] /\ fp'[t] = fp[t]
      BY <1>1, <2>1, <3>1
    <3>3. /\ status = 0 /\ fp[t] = "open"
          /\ \E j \in 1..Len(CloseOrder[op]) : CloseOrder[op][j] = t
      BY <3>1, <3>2 DEF OInv, Buffered
    <3>4. ~last
      BY <1>1, <2>4, <3>1, <3>2
    <3>5. pc' = "cleanup"
      BY <1>2, <2>1, <3>4, Zenon
    <3>6. QED
      BY <1>1, <3>2, <3>3, <3>5
  <2>6. ClosingInOrder'
    <3>1. SUFFICES ASSUME pc' = "cleanup", NEW j \in 1..Len(CloseOrder[op])
                   PROVE  /\ j >= step' => fp'[CloseOrder[op][j]] # "closed"
                          /\ status' = 0 =>
                               fp'[CloseOrder[op][j]] =
                                 IF j < step' THEN "closed" ELSE "open"
      BY <1>1 DEF ClosingInOrder
    <3>2. step' = step + 1
      BY <1>2, <3>1
    <3>3. CloseOrder[op][j] = s => j = step
      BY <1>1, SinksShape
    <3>4. CloseOrder[op][j] \in Sinks
      BY <1>1, ProgramShape
    <3>5. QED
      BY <1>1, <2>1, <3>1, <3>2, <3>3, <3>4 DEF OInv, ClosingInOrder
  <2>7. RunPtrs' /\ StatusFlow'
    BY <1>1, <1>2, <2>1, Zenon DEF RunPtrs, StatusFlow
  <2>8. QED
    BY <2>3, <2>5, <2>6, <2>7 DEF ORest
<1>5. fp[s] # "closed"
  BY <1>1 DEF OInv, ClosingInOrder
<1>6. QED
  BY <1>1, <1>3, <1>4, <1>5 DEF PtrStates

\* Every blob of a response the dispatcher decodes carries the number of
\* the call that dispatched it.
LEMMA ResponsesTagged ==
  ASSUME NEW r \in Responses
  PROVE  \A f \in Fields : \A i \in DOMAIN r[f] : r[f][i].call = calls
<1>1. CASE r \in FixedResponse
  BY <1>1 DEF FixedResponse
<1>2. CASE r \in SerializedResponses
  <2>1. PICK k \in 0..3, n \in TokenLens :
          r = [f \in Fields |->
                 IF \E i \in 1..k : ResponseFields[op][i] = f
                 THEN << [call |-> calls, field |-> f,
                          len |-> IF f = "tokens" THEN n ELSE 1] >>
                 ELSE << >>]
    BY <1>2 DEF SerializedResponses
  <2>2. QED
    BY <2>1
<1>3. QED
  BY <1>1, <1>2 DEF Responses

\* An index of x \o y past the end of x reads y, which is then not empty.
LEMMA ConcatRight ==
  ASSUME NEW S, NEW x \in Seq(S), NEW y \in Seq(S),
         NEW i \in DOMAIN (x \o y), i \notin 1..Len(x)
  PROVE  /\ y # << >>
         /\ i - Len(x) \in DOMAIN y
         /\ (x \o y)[i] = y[i - Len(x)]
  OBVIOUS

\* While the status is not 0, no file holds a blob of the current call.
LEMMA OlderTags ==
  ASSUME OInv, status # 0, NEW s \in Sinks, NEW i \in DOMAIN disk[s]
  PROVE  disk[s][i].call \in Nat /\ disk[s][i].call < calls
<1>1. disk[s][i] \in Blob /\ calls \in Nat
  BY DEF OInv, TypeInv, TypeOK
<1>2. disk[s][i].call <= calls /\ disk[s][i].call # calls
  BY DEF OInv, CallTags
<1>3. QED
  BY <1>1, <1>2 DEF Blob

\* A step that leaves the call number, the files and their tags alone,
\* and buffers or decodes only blobs of the current call, keeps the tags.
LEMMA TagsFrame ==
  ASSUME OInv, calls' = calls,
         \A s \in Sinks : \A i \in DOMAIN disk'[s] :
            disk'[s][i].call <= calls /\ (disk'[s][i].call = calls => status' = 0),
         \A s \in Sinks : pending'[s] = << >> \/ pending'[s] = pending[s]
                          \/ pending'[s] = slot[s],
         \/ slot' = slot
         \/ \A f \in Fields : \A i \in DOMAIN slot'[f] : slot'[f][i].call = calls
  PROVE  CallTags'
<1>1. \A s \in Sinks : \A i \in DOMAIN pending'[s] : pending'[s][i].call = calls
  BY DEF OInv, CallTags, Sinks
<1>2. \A f \in Fields : \A i \in DOMAIN slot'[f] : slot'[f][i].call = calls
  BY DEF OInv, CallTags
<1>3. QED
  BY <1>1, <1>2 DEF CallTags

\* Each step keeps the call numbers: a call starts with a new number and
\* an empty response, the dispatcher decodes blobs of the current call,
\* the fwrites buffer them and the fclose appends them to the file, after
\* status 0.
LEMMA CallTagsStep ==
  ASSUME OInv, TypeInv', Next
  PROVE  CallTags'
<1>1. /\ calls \in 0..MaxCalls
      /\ pending \in [Sinks -> Seq(Blob)]
      /\ disk \in [Sinks -> Seq(Blob)]
      /\ slot \in [Fields -> Seq(Blob)]
      /\ pc = "run" => status = -1
      /\ pc # "cleanup" => \A s \in Sinks : pending[s] = << >>
  BY DEF OInv, TypeInv, TypeOK, StatusFlow, Buffered
<1>2. CASE \E o \in Ops : Invoke(o)
  <2>1. /\ calls' = calls + 1
        /\ slot' = [f \in Fields |-> << >>]
        /\ UNCHANGED << pending, disk >>
        /\ pc # "cleanup"
    BY <1>2 DEF Invoke
  <2>2. ASSUME NEW s \in Sinks, NEW i \in DOMAIN disk'[s]
        PROVE  disk'[s][i].call <= calls' /\ disk'[s][i].call # calls'
    <3>1. disk'[s] = disk[s]
      BY <2>1
    <3>2. disk[s][i] \in Blob /\ disk[s][i].call <= calls
      BY <1>1, <3>1 DEF OInv, CallTags
    <3>3. disk[s][i].call \in Nat
      BY <3>2 DEF Blob
    <3>4. QED
      BY <1>1, <2>1, <3>1, <3>2, <3>3
  <2>3. \A s \in Sinks : pending'[s] = << >>
    BY <1>1, <2>1
  <2>4. \A f \in Fields : slot'[f] = << >>
    BY <2>1
  <2>5. QED
    BY <2>2, <2>3, <2>4 DEF CallTags
<1>3. CASE GetDevice \/ GetSetIndex \/ GenerateNonce \/ CheckVersion \/ Terminated
  <2>1. UNCHANGED << calls, status, pending, disk, slot >>
    BY <1>3 DEF GetDevice, GetSetIndex, GenerateNonce, CheckVersion,
                Terminated, vars, ReturnEarly, ToCleanup
  <2>2. QED
    BY <2>1 DEF OInv, CallTags
<1>4. CASE OpenSink
  <2>1. /\ UNCHANGED << calls, status, pending, slot >>
        /\ \A s \in Sinks : disk'[s] = disk[s] \/ disk'[s] = << >>
    BY <1>1, <1>4 DEF OpenSink, FopenFails
  <2>2. QED
    BY <2>1 DEF OInv, CallTags
<1>5. CASE Dispatch \/ Output
  <2>1. pc = "run" /\ UNCHANGED << calls, disk >>
    BY <1>5 DEF Dispatch, Output
  <2>2. ASSUME NEW s \in Sinks, NEW i \in DOMAIN disk'[s]
        PROVE  disk'[s][i].call <= calls /\ disk'[s][i].call # calls
    <3>1. disk'[s] = disk[s]
      BY <2>1
    <3>2. disk[s][i].call \in Nat /\ disk[s][i].call < calls
      BY <1>1, <2>1, <3>1, OlderTags
    <3>3. QED
      BY <1>1, <3>1, <3>2
  <2>3. CASE Dispatch
    <3>1. UNCHANGED pending /\ (slot' = slot \/ slot' \in Responses)
      BY <2>3 DEF Dispatch
    <3>2. \/ slot' = slot
          \/ \A f \in Fields : \A i \in DOMAIN slot'[f] : slot'[f][i].call = calls
      BY <3>1, ResponsesTagged
    <3>3. QED
      BY <2>1, <2>2, <3>1, <3>2, TagsFrame
  <2>4. CASE Output
    <3>1. /\ UNCHANGED slot
          /\ \A s \in Sinks : pending'[s] = pending[s]
                              \/ pending'[s] = pending[s] \o slot[s]
      BY <2>4, Zenon DEF Output, RejectTokens, WriteOutputs
    <3>2. ASSUME NEW s \in Sinks
          PROVE  pending'[s] = pending[s] \/ pending'[s] = slot[s]
      <4>1. pending[s] = << >> /\ slot[s] \in Seq(Blob)
        BY <1>1, <2>1 DEF Sinks
      <4>2. pending[s] \o slot[s] = slot[s]
        BY <4>1
      <4>3. QED
        BY <3>1, <4>2, Zenon
    <3>3. QED
      BY <2>1, <2>2, <3>1, <3>2, TagsFrame
  <2>5. QED
    BY <1>5, <2>3, <2>4
<1>7. CASE CloseSink
  <2> DEFINE s == CloseOrder[op][step]
  <2>1. /\ UNCHANGED << calls, status, slot >>
        /\ s \in Sinks
        /\ \/ UNCHANGED << pending, disk >>
           \/ /\ disk' = [disk EXCEPT ![s] = disk[s] \o pending[s]]
              /\ pending' = [pending EXCEPT ![s] = << >>]
    BY <1>7, ProgramShape, Zenon DEF CloseSink, OInv, TypeInv, TypeOK, CleanupInRange
  <2>2. \A i \in DOMAIN (disk[s] \o pending[s]) :
          /\ (disk[s] \o pending[s])[i].call <= calls
          /\ (disk[s] \o pending[s])[i].call = calls => status = 0
    <3>1. /\ calls \in Nat
          /\ disk[s] \in Seq(Blob) /\ pending[s] \in Seq(Blob)
          /\ pending[s] # << >> => status = 0
      <4>1. calls \in Nat /\ disk[s] \in Seq(Blob) /\ pending[s] \in Seq(Blob)
        BY <1>1, <2>1
      <4>2. pending[s] # << >> => status = 0
        BY <2>1, Zenon DEF OInv, Buffered
      <4>3. QED
        BY <4>1, <4>2
    <3>2. /\ \A i \in DOMAIN disk[s] :
               disk[s][i].call <= calls /\ (disk[s][i].call = calls => status = 0)
          /\ \A i \in DOMAIN pending[s] : pending[s][i].call = calls
      BY <2>1, Zenon DEF OInv, CallTags
    <3>3. SUFFICES ASSUME NEW i \in DOMAIN (disk[s] \o pending[s])
                   PROVE  /\ (disk[s] \o pending[s])[i].call <= calls
                          /\ (disk[s] \o pending[s])[i].call = calls => status = 0
      BY Zenon
    <3>4. CASE i \in 1..Len(disk[s])
      <4>1. (disk[s] \o pending[s])[i] = disk[s][i] /\ i \in DOMAIN disk[s]
        BY <3>1, <3>4
      <4>2. QED
        BY <3>2, <4>1
    <3>5. CASE i \notin 1..Len(disk[s])
      <4>1. /\ pending[s] # << >>
            /\ i - Len(disk[s]) \in DOMAIN pending[s]
            /\ (disk[s] \o pending[s])[i] = pending[s][i - Len(disk[s])]
        <5>1. /\ disk[s] \in Seq(Blob) /\ pending[s] \in Seq(Blob)
              /\ i \in DOMAIN (disk[s] \o pending[s])
              /\ i \notin 1..Len(disk[s])
          BY <3>1, <3>5, Zenon
        <5>2. \A x, y \in Seq(Blob) : \A j \in DOMAIN (x \o y) :
                j \notin 1..Len(x) =>
                  /\ y # << >>
                  /\ j - Len(x) \in DOMAIN y
                  /\ (x \o y)[j] = y[j - Len(x)]
          BY ConcatRight
        <5>3. QED
          BY <5>1, <5>2, Zenon
      <4>2. QED
        BY <3>1, <3>2, <4>1
    <3>6. QED
      BY <3>4, <3>5
  <2>3. ASSUME NEW t \in Sinks
        PROVE  /\ disk'[t] = disk[t] \/ (t = s /\ disk'[t] = disk[s] \o pending[s])
               /\ pending'[t] = pending[t] \/ pending'[t] = << >>
    BY <1>1, <2>1, Zenon
  <2>4. \A t \in Sinks : \A i \in DOMAIN disk'[t] :
          disk'[t][i].call <= calls /\ (disk'[t][i].call = calls => status' = 0)
    <3>1. SUFFICES ASSUME NEW t \in Sinks, NEW i \in DOMAIN disk'[t]
                   PROVE  disk'[t][i].call <= calls
                          /\ (disk'[t][i].call = calls => status = 0)
      BY <2>1
    <3>2. CASE disk'[t] = disk[t]
      BY <3>2 DEF OInv, CallTags
    <3>3. CASE t = s /\ disk'[t] = disk[s] \o pending[s]
      BY <2>2, <3>3, Zenon
    <3>4. QED
      BY <2>3, <3>2, <3>3, Zenon
  <2>5. QED
    BY <2>1, <2>3, <2>4, TagsFrame, Zenon
<1>8. QED
  BY <1>2, <1>3, <1>4, <1>5, <1>7 DEF Next

LEMMA OInvStep == OInv /\ [Next]_vars => OInv'
<1> SUFFICES ASSUME OInv, [Next]_vars PROVE OInv'
  OBVIOUS
<1>1. TypeInv'
  BY TypeInvStep DEF OInv
<1>2. /\ status \in {-1, 0} \cup DeviceErrors
      /\ pc = "run" => status = -1
  BY DEF OInv, TypeInv, TypeOK, StatusFlow
<1>3. ORest' /\ Next => OInv'
  BY <1>1, CallTagsStep DEF OInv, ORest
<1>4. CASE UNCHANGED vars
  BY <1>4 DEF vars, OInv, SinkState, Buffered, RunPtrs, OpenedBefore,
              ClosingInOrder, StatusFlow, CallTags, TypeInv, TypeOK,
              CleanupInRange, OpenAccounted, CallStarted, OpenPtrs, OpenCount
<1>5. CASE Next
  <2> USE <1>1, <1>5
  \* A running step that either advances past a non-open step or leaves
  \* the running state with the status it had.
  <2>1. ASSUME pc = "run", Program[op][step].kind # "open",
               UNCHANGED << op, fp, pending, disk >>,
               \/ pc' = "run" /\ step' = step + 1 /\ UNCHANGED status
               \/ /\ pc' \in {"cleanup", "returned", "crashed"}
                  /\ status' # 0
                  /\ pc' = "returned" => ret' = status'
        PROVE  OInv'
    BY <1>3, <2>1, RunQuiet, LeaveRun
  <2>2. CASE \E o \in Ops : Invoke(o)
    BY <1>3, <2>2, InvokeStep
  <2>3. CASE GetDevice
    BY <1>2, <2>1, <2>3 DEF GetDevice, Cur, Advance, ReturnEarly
  <2>4. CASE OpenSink
    BY <1>3, <2>4, OpenSinkStep
  <2>5. CASE GetSetIndex
    BY <1>2, <2>1, <2>5 DEF GetSetIndex, Cur, Advance, ToCleanup
  <2>6. CASE GenerateNonce
    BY <1>2, <2>1, <2>6 DEF GenerateNonce, Cur, Advance, ToCleanup
  <2>7. CASE CheckVersion
    BY <1>2, <2>1, <2>7 DEF CheckVersion, Cur, Advance, ReturnEarly
  <2>8. CASE Dispatch
    <3>1. \A e \in DeviceErrors : e # 0
      BY ConstantsAssumption
    <3>2. QED
      BY <1>2, <2>1, <2>8, <3>1 DEF Dispatch, Cur, Advance, ToCleanup
  <2>9. CASE Output
    BY <1>3, <2>9, WriteStep
  <2>10. CASE CloseSink
    BY <1>3, <2>10, CloseSinkStep
  <2>11. CASE Terminated
    <3>1. UNCHANGED << calls, op, pc, step, status, ret, fp, pending, disk >>
      BY <2>11 DEF Terminated, vars
    <3>2. ORest'
      BY <3>1 DEF OInv, ORest, SinkState, Buffered, RunPtrs, OpenedBefore,
                  ClosingInOrder, StatusFlow
    <3>3. QED
      BY <1>3, <3>2
  <2>12. QED
    BY <2>2, <2>3, <2>4, <2>5, <2>6, <2>7, <2>8, <2>9, <2>10, <2>11 DEF Next
<1>6. QED
  BY <1>4, <1>5

----------------------------------------------------------------------------
(* Success: the fields reach the files.                                    *)

\* After `status = 0`, each sink of the handler holds, in its file and its
\* stdio buffer together, exactly the field the dispatcher decoded, and a
\* token blob passed the size checks.  This holds when fwrite and fclose
\* store what they are given (WriteMayFail = FALSE); their results are
\* never checked, so nothing else makes it hold.
Delivered ==
    pc \in {"cleanup", "returned"} /\ status = 0 =>
        /\ \A s \in Range(OutFields[op]) : disk[s] \o pending[s] = slot[s]
        /\ op = "tokens_in_set" => TokensValid

\* Only htool_get_tokens_in_set fwrites a token blob.
LEMMA TokensSink ==
  ASSUME NEW o \in Ops, "tokens" \in Range(OutFields[o])
  PROVE  o = "tokens_in_set"
BY DEF Ops, OutFields, Range

\* The fwrites of a successful output step store each field in its
\* truncated, open file's buffer; an fclose moves a buffer into its file.
LEMMA DeliveredStep ==
  ASSUME WriteMayFail = FALSE, OInv, Delivered, [Next]_vars
  PROVE  Delivered'
<1>1. /\ op \in Ops
      /\ pc = "run" => status = -1
      /\ pending \in [Sinks -> Seq(Blob)]
      /\ disk \in [Sinks -> Seq(Blob)]
      /\ slot \in [Fields -> Seq(Blob)]
      /\ \A e \in DeviceErrors : e # 0
  BY ConstantsAssumption DEF OInv, TypeInv, TypeOK, StatusFlow
<1>2. CASE UNCHANGED vars
  BY <1>2, Zenon DEF vars, Delivered, TokensValid
<1>3. CASE \E o \in Ops : Invoke(o)
  BY <1>3 DEF Invoke, Delivered
<1>4. CASE GetDevice \/ OpenSink \/ GetSetIndex \/ GenerateNonce
             \/ CheckVersion \/ Dispatch \/ Terminated
  <2>1. CASE Terminated
    BY <1>2, <2>1 DEF Terminated
  <2>2. CASE ~Terminated
    <3>1. pc = "run" /\ status' # 0
      BY <1>1, <1>4, <2>2 DEF GetDevice, OpenSink, GetSetIndex,
                              GenerateNonce, CheckVersion, Dispatch
    <3>2. QED
      BY <1>1, <3>1 DEF Delivered
  <2>3. QED
    BY <2>1, <2>2
<1>5. CASE Output
  <2>1. /\ pc = "run"
        /\ step = Len(Program[op])
        /\ \A s \in Sinks : pending[s] = << >>
        /\ UNCHANGED << op, slot, disk >>
    BY <1>5, ProgramShape DEF Output, Cur, OInv, TypeInv, TypeOK, Buffered
  <2>2. CASE RejectTokens \/ pc' = "crashed"
    <3>1. pc' = "crashed" \/ status' = status
      BY <2>2 DEF RejectTokens
    <3>2. QED
      BY <1>1, <2>1, <3>1 DEF Delivered
  <2>3. CASE /\ op = "tokens_in_set" => TokensValid
             /\ WriteOutputs
             /\ status' = 0
    <3>1. \A s \in Range(OutFields[op]) : pending'[s] = pending[s] \o slot[s]
      <4>1. PICK stored \in [Fields -> {TRUE}] :
              pending' = [s \in Sinks |->
                            IF s \in Range(OutFields[op]) /\ stored[s]
                            THEN pending[s] \o slot[s]
                            ELSE pending[s]]
        BY <2>3, Zenon DEF WriteOutputs
      <4>2. \A s \in Range(OutFields[op]) : s \in Sinks
        BY <1>1, ProgramShape DEF Sinks
      <4>3. QED
        BY <4>1, <4>2, Zenon DEF Sinks
    <3>2. \A s \in Range(OutFields[op]) :
            /\ disk[s] = << >> /\ pending[s] = << >>
            /\ slot[s] \in Seq(Blob)
      <4>1. \A s \in Range(OutFields[op]) : fp[s] = "open" /\ s \in Sinks
        BY <1>1, <2>1, OpenAtOutput, ProgramShape DEF Sinks
      <4>2. QED
        BY <1>1, <2>1, <4>1 DEF OInv, SinkState, Sinks
    <3>3. ASSUME NEW s \in Range(OutFields[op])
          PROVE  disk'[s] \o pending'[s] = slot'[s]
      <4>1. /\ disk'[s] = << >>
            /\ pending'[s] = << >> \o slot[s]
            /\ slot'[s] = slot[s]
            /\ slot[s] \in Seq(Blob)
        BY <2>1, <3>1, <3>2, Zenon
      <4>2. QED
        BY <4>1
    <3>4. QED
      BY <2>1, <2>3, <3>3, Zenon DEF Delivered, TokensValid
  <2>4. QED
    BY <1>5, <2>2, <2>3 DEF Output
<1>6. CASE CloseSink
  <2> DEFINE s == CloseOrder[op][step]
  <2>1. /\ pc = "cleanup"
        /\ step \in 1..Len(CloseOrder[op])
        /\ s \in Sinks
        /\ UNCHANGED << op, status, slot >>
    BY <1>1, <1>6, ProgramShape, Zenon DEF CloseSink, OInv, TypeInv, CleanupInRange
  <2>2. CASE status # 0
    BY <2>1, <2>2 DEF Delivered
  <2>3. CASE status = 0
    <3>1. fp[s] = "open"
      BY <2>1, <2>3 DEF OInv, ClosingInOrder
    <3>2. /\ disk' = [disk EXCEPT ![s] = disk[s] \o pending[s]]
          /\ pending' = [pending EXCEPT ![s] = << >>]
      BY <1>6, <3>1, Zenon DEF CloseSink
    <3>3. ASSUME NEW t \in Range(OutFields[op])
          PROVE  disk'[t] \o pending'[t] = disk[t] \o pending[t]
      <4>1. t \in Sinks
        BY <1>1, ProgramShape DEF Sinks
      <4>2. CASE t = s
        BY <1>1, <2>1, <3>2, <4>2
      <4>3. CASE t # s
        BY <1>1, <3>2, <4>1, <4>3
      <4>4. QED
        BY <4>2, <4>3, Zenon
    <3>4. QED
      BY <2>1, <2>3, <3>3, Zenon DEF Delivered, TokensValid
  <2>4. QED
    BY <2>2, <2>3
<1>7. QED
  BY <1>2, <1>3, <1>4, <1>5, <1>6 DEF Next


\* No partial success, for every value of the constants at which fwrite
\* and fclose store what they are given: once a handler has returned 0,
\* each of its sinks holds exactly the field the device returned in this
\* call, and a token file only whole tokens within MAX_TOKEN_RESPONSE_SIZE;
\* once it has returned nonzero, or the process crashed, no sink holds
\* anything of this call.  (With WriteMayFail the unchecked fwrite and
\* fclose results break the first half, as the ignored_write_errors run
\* shows.)
THEOREM OutcomeReflected ==
  ASSUME WriteMayFail = FALSE
  PROVE  Spec => []SinksReflectOutcome
<1>1. Init => OInv /\ Delivered
  BY OInvInit DEF Init, Delivered
<1>2. OInv /\ Delivered /\ [Next]_vars => (OInv /\ Delivered)'
  BY OInvStep, DeliveredStep, Zenon
<1>3. OInv /\ Delivered => SinksReflectOutcome
  <2> SUFFICES ASSUME OInv, Delivered PROVE SinksReflectOutcome
    OBVIOUS
  <2>1. /\ op \in Ops
        /\ disk \in [Sinks -> Seq(Blob)]
        /\ pc = "returned" => ret = status
        /\ pc = "crashed" => status # 0
    BY DEF OInv, TypeInv, TypeOK, StatusFlow
  <2>2. ASSUME pc = "returned", ret = 0, NEW s \in Range(OutFields[op])
        PROVE  /\ disk[s] = slot[s]
               /\ s = "tokens" => WholeTokens(slot[s][1])
    <3>1. status = 0 /\ s \in Sinks
      BY <2>1, <2>2, ProgramShape DEF Sinks
    <3>2. pending[s] = << >>
      BY <2>2, <3>1 DEF OInv, Buffered
    <3>3. disk[s] \o pending[s] = slot[s] /\ (op = "tokens_in_set" => TokensValid)
      BY <2>2, <3>1, Zenon DEF Delivered
    <3>4. disk[s] = slot[s]
      BY <2>1, <3>1, <3>2, <3>3
    <3>5. s = "tokens" => op = "tokens_in_set"
      BY <2>1, TokensSink
    <3>6. QED
      BY <3>3, <3>4, <3>5 DEF TokensValid, WholeTokens
  <2>3. ASSUME (pc = "returned" /\ ret # 0) \/ pc = "crashed",
               NEW s \in Sinks, NEW i \in DOMAIN disk[s]
        PROVE  disk[s][i].call # calls
    <3>1. status # 0
      BY <2>1, <2>3
    <3>2. QED
      BY <3>1, OlderTags
  <2>4. QED
    BY <2>2, <2>3 DEF SinksReflectOutcome
<1>4. QED
  BY <1>1, <1>2, <1>3, PTL DEF Spec

\* Whatever fwrite and fclose do, a call that returns nonzero or crashes
\* leaves no blob of its own response in any sink file: the fwrites come
\* only after every check, just before `status = 0`, and nothing after
\* them can fail without a crash that the cleanup label never reaches.
THEOREM FailureHidesResponse ==
  Spec => [](((pc = "returned" /\ ret # 0) \/ pc = "crashed") =>
               \A s \in Sinks : \A i \in DOMAIN disk[s] : disk[s][i].call # calls)
<1>1. OInv => (((pc = "returned" /\ ret # 0) \/ pc = "crashed") =>
                 \A s \in Sinks : \A i \in DOMAIN disk[s] : disk[s][i].call # calls)
  <2> SUFFICES ASSUME OInv, (pc = "returned" /\ ret # 0) \/ pc = "crashed",
                      NEW s \in Sinks, NEW i \in DOMAIN disk[s]
               PROVE  disk[s][i].call # calls
    OBVIOUS
  <2>1. status # 0
    BY DEF OInv, StatusFlow
  <2>2. QED
    BY <2>1, OlderTags
<1>2. QED
  BY <1>1, OInvInit, OInvStep, PTL DEF Spec

=============================================================================
