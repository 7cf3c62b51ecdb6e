--------------------------- MODULE SecurityTokens ---------------------------
(***************************************************************************)
(* The three token queries of htool (examples/htool_security_tokens.c):   *)
(* htool_get_tokens_in_set, htool_get_token_set_count and                  *)
(* htool_get_token_set_info, run one after another in one process.         *)
(*                                                                         *)
(* Each handler is a straight-line C function.  It is modelled as a        *)
(* program: a sequence of steps (Program[op]) executed one per action,     *)
(* each step being one call into a collaborator whose outcome is chosen    *)
(* nondeterministically (device lookup, parameter lookup, fopen,           *)
(* RAND_bytes, version query, command dispatch, fwrite), followed by the   *)
(* `cleanup:` label, which fcloses the handler's FILE pointers in the      *)
(* order of CloseOrder[op].  An early `return -1` skips cleanup; a         *)
(* `goto cleanup` jumps to it.                                             *)
(*                                                                         *)
(* The FILE* locals are declared after some of the gotos that reach        *)
(* cleanup, so at cleanup a pointer may still be indeterminate; fclose of  *)
(* an indeterminate pointer is undefined behaviour, modelled as the two    *)
(* outcomes a build produces: the slot happened to hold NULL (skipped) or  *)
(* it did not (the process crashes).                                       *)
(***************************************************************************)
EXTENDS Integers, Sequences, Functions

CONSTANTS
    MaxCalls,      \* handler invocations in one process
    MaxOpen,       \* streams the process can hold open before fopen fails
    TokenSize,     \* TOKEN_BYTE_SIZE
    ResponseCap,   \* MAX_TOKEN_RESPONSE_SIZE, sizeof(response_storage_hdr)
    TokenLens,     \* byte lengths the device may declare for the tokens field
    DeviceErrors,  \* nonzero statuses htool_exec_security_v2_*cmd may return
    WriteMayFail   \* whether fwrite/fclose can fail to store the data

ASSUME ConstantsAssumption ==
    /\ MaxCalls \in Nat \ {0}
    /\ MaxOpen \in Nat
    /\ TokenSize \in Nat \ {0}
    /\ ResponseCap \in Nat
    /\ TokenLens \subseteq Nat
    /\ DeviceErrors \subseteq Int \ {0}
    /\ WriteMayFail \in BOOLEAN

Ops == {"tokens_in_set", "token_set_count", "token_set_info"}

\* Response fields; each output sink is named after the field it receives.
Fields == {"tokens", "boot_nonce", "signature", "num_ids", "info"}
Sinks == Fields

\* A field value returned by the device in a given call.
Blob == [call : 1..MaxCalls, field : Fields, len : Nat]

\* The value of a FILE* local: uninitialised, NULL, an open or closed stream.
PtrStates == {"indet", "null", "open", "closed"}

\* Bytes on the stack that RAND_bytes never wrote.
Garbage == 0

----------------------------------------------------------------------------
(* The handlers as step sequences.                                         *)

DeviceStep == [kind |-> "device"]
OpenStep(s) == [kind |-> "open", sink |-> s]
SetIndexStep == [kind |-> "set_index"]
NonceStep == [kind |-> "nonce"]
VersionStep == [kind |-> "version"]
DispatchStep == [kind |-> "dispatch"]
OutputStep == [kind |-> "output"]

TokensInSetProgram ==
    << DeviceStep, OpenStep("tokens"), OpenStep("signature"),
       OpenStep("boot_nonce"), NonceStep, SetIndexStep, VersionStep,
       DispatchStep, OutputStep >>

TokenSetCountProgram ==
    << DeviceStep, OpenStep("num_ids"), OpenStep("boot_nonce"),
       OpenStep("signature"), NonceStep, VersionStep, DispatchStep,
       OutputStep >>

TokenSetInfoProgram ==
    << DeviceStep, SetIndexStep, NonceStep, OpenStep("info"), VersionStep,
       DispatchStep, OutputStep >>

Program == [o \in Ops |->
              CASE o = "tokens_in_set"   -> TokensInSetProgram
                [] o = "token_set_count" -> TokenSetCountProgram
                [] o = "token_set_info"  -> TokenSetInfoProgram]

\* The fclose calls after `cleanup:`, in source order.
CloseOrder == [o \in Ops |->
                 CASE o = "tokens_in_set"   -> <<"tokens", "boot_nonce", "signature">>
                   [] o = "token_set_count" -> <<"num_ids", "boot_nonce", "signature">>
                   [] o = "token_set_info"  -> <<"info">>]

\* The response parameters, in the order passed to the dispatcher.
ResponseFields == [o \in Ops |->
                     CASE o = "tokens_in_set"   -> <<"tokens", "boot_nonce", "signature">>
                       [] o = "token_set_count" -> <<"num_ids", "boot_nonce", "signature">>
                       [] o = "token_set_info"  -> <<"info", "boot_nonce", "signature">>]

\* The fields each handler fwrites to its sinks, in source order.
OutFields == [o \in Ops |->
                CASE o = "tokens_in_set"   -> <<"tokens", "boot_nonce", "signature">>
                  [] o = "token_set_count" -> <<"num_ids", "boot_nonce", "signature">>
                  [] o = "token_set_info"  -> <<"info">>]

----------------------------------------------------------------------------
VARIABLES
    calls,      \* handler invocations started so far
    op,         \* the handler running (or last run)
    pc,         \* "idle", "run", "cleanup", "returned" or "crashed"
    step,       \* index into Program[op] (run) or CloseOrder[op] (cleanup)
    status,     \* the handler's `int status`
    ret,        \* the value the last handler returned
    fp,         \* [Sinks -> PtrStates]: the FILE* locals
    pending,    \* [Sinks -> Seq(Blob)]: data buffered in each open stream
    disk,       \* [Sinks -> Seq(Blob)]: contents of each sink file
    openFiles,  \* streams open in the process
    challenge,  \* the `struct nonce challenge` local
    nonces,     \* nonces RAND_bytes has produced so far
    sent,       \* nonces carried by the requests sent, in order
    slot,       \* [Fields -> Seq(Blob)]: decoded response, <<>> = NULL/unset
    fault       \* the first undefined behaviour executed, or "none"

vars == << calls, op, pc, step, status, ret, fp, pending, disk, openFiles,
           challenge, nonces, sent, slot, fault >>

Cur == Program[op][step]

ToCleanup == pc' = "cleanup" /\ step' = 1
ReturnEarly == pc' = "returned" /\ ret' = -1
Advance == step' = step + 1

Init ==
    /\ calls = 0
    /\ op = "tokens_in_set"
    /\ pc = "idle"
    /\ step = 1
    /\ status = -1
    /\ ret = -1
    /\ fp = [s \in Sinks |-> "indet"]
    /\ pending = [s \in Sinks |-> << >>]
    /\ disk = [s \in Sinks |-> << >>]
    /\ openFiles = 0
    /\ challenge = Garbage
    /\ nonces = 0
    /\ sent = << >>
    /\ slot = [f \in Fields |-> << >>]
    /\ fault = "none"

\* The CLI (or a test) invokes handler o.  Its locals start indeterminate;
\* the challenge's stack bytes may still hold the previous call's nonce.
Invoke(o) ==
    /\ pc \in {"idle", "returned"}
    /\ calls < MaxCalls
    /\ calls' = calls + 1
    /\ op' = o
    /\ pc' = "run"
    /\ step' = 1
    /\ status' = -1
    /\ fp' = [s \in Sinks |-> "indet"]
    /\ challenge' \in {challenge, Garbage}
    /\ slot' = [f \in Fields |-> << >>]
    /\ UNCHANGED << ret, pending, disk, openFiles, nonces, sent, fault >>

\* htool_libhoth_device(): NULL makes the handler return -1 at once.
GetDevice ==
    /\ pc = "run" /\ Cur.kind = "device"
    /\ \/ Advance /\ UNCHANGED << pc, ret >>
       \/ ReturnEarly /\ UNCHANGED step
    /\ UNCHANGED << calls, op, status, fp, pending, disk, openFiles,
                    challenge, nonces, sent, slot, fault >>

\* fopen(.., "wb") returns NULL: the handler goes to cleanup.
FopenFails(s) ==
    /\ fp' = [fp EXCEPT ![s] = "null"]
    /\ ToCleanup
    /\ UNCHANGED << ret, disk, openFiles >>

\* htool_get_param_string(name) then `FILE* p = NULL; p = fopen(.., "wb")`.
\* A missing parameter returns -1 without cleanup; a failed fopen goes to
\* cleanup; a successful one creates or truncates the sink.
OpenSink ==
    /\ pc = "run" /\ Cur.kind = "open"
    /\ LET s == Cur.sink IN
       \/ /\ ReturnEarly
          /\ UNCHANGED << step, fp, disk, openFiles >>
       \/ FopenFails(s)
       \/ /\ openFiles < MaxOpen
          /\ fp' = [fp EXCEPT ![s] = "open"]
          /\ disk' = [disk EXCEPT ![s] = << >>]
          /\ openFiles' = openFiles + 1
          /\ Advance
          /\ UNCHANGED << pc, ret >>
    /\ UNCHANGED << calls, op, status, pending, challenge, nonces, sent,
                    slot, fault >>

\* htool_get_param_u32("set_index"): a failure goes to cleanup.
GetSetIndex ==
    /\ pc = "run" /\ Cur.kind = "set_index"
    /\ \/ Advance /\ UNCHANGED pc
       \/ ToCleanup
    /\ UNCHANGED << calls, op, status, ret, fp, pending, disk, openFiles,
                    challenge, nonces, sent, slot, fault >>

\* Mutant: the result of get_rand_challenge_nonce is ignored, so the
\* request carries whatever the challenge's stack bytes hold.
GenerateNonceUnchecked ==
    /\ pc = "run" /\ Cur.kind = "nonce"
    /\ \/ /\ nonces' = nonces + 1
          /\ challenge' = nonces + 1
       \/ UNCHANGED << challenge, nonces >>
    /\ Advance
    /\ UNCHANGED << calls, op, pc, status, ret, fp, pending, disk, openFiles,
                    sent, slot, fault >>

\* Mutant: the helper's result is kept as the handler's status
\* (`status = get_rand_challenge_nonce(&challenge); if (status) goto
\* cleanup;`), so an entropy failure makes the handler return 1.
GenerateNonceStatus ==
    /\ pc = "run" /\ Cur.kind = "nonce"
    /\ \/ /\ nonces' = nonces + 1
          /\ challenge' = nonces + 1
          /\ Advance
          /\ UNCHANGED << pc, status >>
       \/ /\ status' = 1
          /\ ToCleanup
          /\ UNCHANGED << challenge, nonces >>
    /\ UNCHANGED << calls, op, ret, fp, pending, disk, openFiles,
                    sent, slot, fault >>

\* get_rand_challenge_nonce: RAND_bytes either fills the challenge with a
\* fresh value or fails, and the handler goes to cleanup.
GenerateNonce ==
    /\ pc = "run" /\ Cur.kind = "nonce"
    /\ \/ /\ nonces' = nonces + 1
          /\ challenge' = nonces + 1
          /\ Advance
          /\ UNCHANGED pc
       \/ /\ ToCleanup
          /\ UNCHANGED << challenge, nonces >>
    /\ UNCHANGED << calls, op, status, ret, fp, pending, disk, openFiles,
                    sent, slot, fault >>

\* htool_get_security_version: anything but V2 returns -1 without cleanup.
CheckVersion ==
    /\ pc = "run" /\ Cur.kind = "version"
    /\ \/ Advance /\ UNCHANGED << pc, ret >>
       \/ ReturnEarly /\ UNCHANGED step
    /\ UNCHANGED << calls, op, status, fp, pending, disk, openFiles,
                    challenge, nonces, sent, slot, fault >>

\* The response a successful dispatch decodes.  The fixed-style command
\* fills every slot; the serialized one sets the first k handles, leaving
\* the rest NULL, and reports the length the device declared for tokens.
FixedResponse ==
    { [f \in Fields |-> IF f \in Range(ResponseFields[op])
                        THEN << [call |-> calls, field |-> f, len |-> 1] >>
                        ELSE << >>] }

SerializedResponses ==
    { [f \in Fields |->
         IF \E i \in 1..k : ResponseFields[op][i] = f
         THEN << [call |-> calls, field |-> f,
                  len |-> IF f = "tokens" THEN n ELSE 1] >>
         ELSE << >>] : k \in 0..3, n \in TokenLens }

Responses ==
    IF op = "tokens_in_set" THEN SerializedResponses ELSE FixedResponse

\* Mutant: a nonzero status makes the handler send the command again,
\* with the same challenge, instead of going to cleanup.
DispatchRetrying ==
    /\ pc = "run" /\ Cur.kind = "dispatch"
    /\ sent' = Append(sent, challenge)
    /\ \/ \E e \in DeviceErrors :
            /\ status' = e
            /\ UNCHANGED << pc, step, slot >>
       \/ \E r \in Responses :
            /\ slot' = r
            /\ Advance
            /\ UNCHANGED << pc, status >>
    /\ UNCHANGED << calls, op, ret, fp, pending, disk, openFiles,
                    challenge, nonces, fault >>

\* htool_exec_security_v2[_serialized]_cmd: the request carries the
\* challenge; a nonzero status becomes the handler's status.
Dispatch ==
    /\ pc = "run" /\ Cur.kind = "dispatch"
    /\ sent' = Append(sent, challenge)
    /\ \/ \E e \in DeviceErrors :
            /\ status' = e
            /\ ToCleanup
            /\ UNCHANGED slot
       \/ \E r \in Responses :
            /\ slot' = r
            /\ Advance
            /\ UNCHANGED << pc, status >>
    /\ UNCHANGED << calls, op, ret, fp, pending, disk, openFiles,
                    challenge, nonces, fault >>

\* The token blob passes the checks before the fwrites.
TokensValid ==
    /\ slot["tokens"] # << >>
    /\ slot["tokens"][1].len <= ResponseCap
    /\ slot["tokens"][1].len % TokenSize = 0

\* The fwrites of OutFields[op], each of which may store nothing; their
\* results are ignored.
WriteOutputs ==
    \E stored \in [Fields -> IF WriteMayFail THEN BOOLEAN ELSE {TRUE}] :
        pending' = [s \in Sinks |->
                      IF s \in Range(OutFields[op]) /\ stored[s]
                      THEN pending[s] \o slot[s]
                      ELSE pending[s]]

\* Mutant: the tokens are fwritten before the size checks reject them.
RejectTokensAfterWrite ==
    /\ op = "tokens_in_set"
    /\ ~TokensValid
    /\ pending' = [pending EXCEPT !["tokens"] = @ \o slot["tokens"]]
    /\ ToCleanup
    /\ UNCHANGED << status, fault >>

\* htool_get_tokens_in_set: a NULL tokens handle, a blob larger than the
\* response buffer or not a multiple of TOKEN_BYTE_SIZE goes to cleanup.
RejectTokens ==
    /\ op = "tokens_in_set"
    /\ ~TokensValid
    /\ ToCleanup
    /\ UNCHANGED << status, pending, fault >>

\* The code after a successful dispatch: the token checks of
\* htool_get_tokens_in_set, then the fwrites and `status = 0`.  An fwrite
\* of a NULL response handle dereferences NULL and the process crashes.
Output ==
    /\ pc = "run" /\ Cur.kind = "output"
    /\ \/ RejectTokens
       \/ /\ op = "tokens_in_set" => TokensValid
          /\ \E i \in 1..Len(OutFields[op]) : slot[OutFields[op][i]] = << >>
          /\ pc' = "crashed"
          /\ fault' = IF fault = "none" THEN "null_field" ELSE fault
          /\ UNCHANGED << step, status, pending >>
       \/ /\ op = "tokens_in_set" => TokensValid
          /\ \A i \in 1..Len(OutFields[op]) : slot[OutFields[op][i]] # << >>
          /\ WriteOutputs
          /\ status' = 0
          /\ ToCleanup
          /\ UNCHANGED fault
    /\ UNCHANGED << calls, op, ret, fp, disk, openFiles, challenge, nonces,
                    sent, slot >>

\* One `if (p) fclose(p)` of the cleanup label; after the last one the
\* handler returns status.  fclose flushes the buffered data to the file.
CloseSink ==
    /\ pc = "cleanup"
    /\ LET s == CloseOrder[op][step]
           last == step = Len(CloseOrder[op])
           Continue == IF last
                       THEN pc' = "returned" /\ ret' = status /\ UNCHANGED step
                       ELSE step' = step + 1 /\ UNCHANGED << pc, ret >>
       IN \/ /\ fp[s] = "open"
             /\ disk' = [disk EXCEPT ![s] = disk[s] \o pending[s]]
             /\ pending' = [pending EXCEPT ![s] = << >>]
             /\ fp' = [fp EXCEPT ![s] = "closed"]
             /\ openFiles' = openFiles - 1
             /\ Continue
             /\ UNCHANGED fault
          \/ /\ fp[s] = "null"
             /\ Continue
             /\ UNCHANGED << fp, pending, disk, openFiles, fault >>
          \/ /\ fp[s] = "indet"
             /\ fault' = IF fault = "none" THEN "fclose_indeterminate" ELSE fault
             /\ \/ Continue
                \/ pc' = "crashed" /\ UNCHANGED << step, ret >>
             /\ UNCHANGED << fp, pending, disk, openFiles >>
    /\ UNCHANGED << calls, op, status, challenge, nonces, sent, slot >>

\* No further invocation: the process has exited or crashed.
Terminated ==
    /\ \/ pc = "crashed"
       \/ pc \in {"idle", "returned"} /\ calls = MaxCalls
    /\ UNCHANGED vars

Next ==
    \/ \E o \in Ops : Invoke(o)
    \/ GetDevice
    \/ OpenSink
    \/ GetSetIndex
    \/ GenerateNonce
    \/ CheckVersion
    \/ Dispatch
    \/ Output
    \/ CloseSink
    \/ Terminated

Spec == Init /\ [][Next]_vars

----------------------------------------------------------------------------
(* Properties.                                                             *)

\* Every variable holds a value of its type.  For `status` and `ret` the
\* type is the contract of spec 7: a handler returns 0, the -1 it was
\* initialised with (line 33), or the nonzero status the dispatcher gave it.
TypeOK ==
    /\ calls \in 0..MaxCalls
    /\ op \in Ops
    /\ pc \in {"idle", "run", "cleanup", "returned", "crashed"}
    /\ step \in 1..Len(Program[op])
    /\ status \in {-1, 0} \cup DeviceErrors
    /\ ret \in {-1, 0} \cup DeviceErrors
    /\ fp \in [Sinks -> PtrStates]
    /\ pending \in [Sinks -> Seq(Blob)]
    /\ disk \in [Sinks -> Seq(Blob)]
    /\ openFiles \in 0..MaxOpen
    /\ challenge \in 0..nonces
    /\ nonces \in Nat
    /\ sent \in Seq(0..nonces)
    /\ slot \in [Fields -> Seq(Blob)]
    /\ fault \in {"none", "fclose_indeterminate", "null_field"}

\* Each request the handlers send carries a nonce RAND_bytes produced, and
\* no nonce is sent twice (get_rand_challenge_nonce's result is checked
\* before the challenge reaches htool_exec_security_v2*_cmd).
NonceFresh ==
    /\ \A i \in DOMAIN sent : sent[i] # Garbage
    /\ IsInjective(sent)

\* The token blob a handler may store: a whole number of tokens that fits
\* the response buffer (the checks of htool_get_tokens_in_set).
WholeTokens(b) == b.len <= ResponseCap /\ b.len % TokenSize = 0

\* No partial success: when a handler has returned 0, each of its sinks
\* holds exactly the field the device returned in this call (and a token
\* blob only if it is whole tokens); when it has returned nonzero or the
\* process crashed, no sink holds anything the device returned in this call.
SinksReflectOutcome ==
    /\ pc = "returned" /\ ret = 0 =>
         \A s \in Range(OutFields[op]) :
            /\ disk[s] = slot[s]
            /\ s = "tokens" => WholeTokens(slot[s][1])
    /\ (pc = "returned" /\ ret # 0) \/ pc = "crashed" =>
         \A s \in Sinks : \A i \in DOMAIN disk[s] : disk[s][i].call # calls

\* A handler that returns has closed every stream it opened (each early
\* `return -1` after an fopen skips the cleanup label).
NoLeakOnReturn ==
    pc = "returned" => openFiles = 0

\* The cleanup label never passes an uninitialised FILE* to fclose (a
\* `goto cleanup` jumps over the declaration `FILE* p = NULL`).
NoFcloseOfIndeterminate ==
    fault # "fclose_indeterminate"

\* Spec 4.4: a field the serialized response did not produce is detected
\* (MissingField) before it is used; the handler never dereferences a NULL
\* response handle.
NoNullFieldUse ==
    fault # "null_field"

=============================================================================
