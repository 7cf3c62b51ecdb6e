# TLA+ models of the htool security-token queries

This directory holds a TLA+ model of `src/examples/htool_security_tokens.c`, an abstract
specification of a token query that the model is shown to implement, the TLC
configurations that check them, and TLAPS proofs of the main invariants and of the
refinement.

## The system

`htool_security_tokens.c` implements three htool subcommands. Each is a straight-line C
handler:

| handler | steps, in source order |
|---|---|
| `htool_get_tokens_in_set` (32-170) | device, open `token_output`, open `signature_output`, open `boot_nonce_output`, nonce, `set_index`, version, serialized dispatch, token checks, 3 fwrites, cleanup |
| `htool_get_token_set_count` (172-295) | device, open `num_ids_output`, open `boot_nonce_output`, open `signature_output`, nonce, version, fixed dispatch, 3 fwrites, cleanup |
| `htool_get_token_set_info` (297-396) | device, `set_index`, nonce, open `token_set_info`, version, fixed dispatch, 1 fwrite, cleanup |

Each step calls a collaborator and reacts to its failure in one of two ways. It either
returns `-1` at once, or it does `goto cleanup`. The `cleanup:` label fcloses the
handler's non-NULL `FILE*` locals and returns `status`.

The collaborators are the device lookup, the CLI parameters, fopen/fwrite/fclose,
`RAND_bytes` through `get_rand_challenge_nonce` (22-30), the security-version query,
and the command dispatchers. Spec section 2 names the components:

- NonceSource
- RequestEncoder
- Fixed- and SerializedResponseDecoder
- CommandDispatcher
- Token Query Operations

Only NonceSource and the three operations are in `src/`. The encoder, decoders and
dispatcher are only called from there.

## Modules

- **`SecurityTokens.tla`** models the three handlers, run one after another in one
  process (up to `MaxCalls` invocations).
  - **Programs.** `Program[op]` is the handler's step list. `CloseOrder[op]` is the order
    of its `fclose` calls. `ResponseFields[op]` and `OutFields[op]` are the response
    parameters and the fields it fwrites.
  - **State.**
    - `pc` is `run`, `cleanup`, `returned`, `crashed` or `idle`. `step` indexes the
      program or the close order.
    - `status` and `ret` are the C `status` and the return value.
    - `fp` maps each sink to its `FILE*` value: `indet`, `null`, `open` or `closed`.
    - `pending` is the stdio buffer; `disk` is the file contents.
    - `openFiles` counts the streams the process holds.
    - `challenge` is the `struct nonce` local, and `nonces` counts the nonces
      `RAND_bytes` has produced.
    - `sent` is a history of the nonces the requests carried.
    - `slot` is the decoded response handles; `<<>>` is NULL.
    - `fault` is the first undefined behaviour executed.
  - **Actions.** There is one action per step kind:
    - `Invoke`
    - `GetDevice`
    - `OpenSink`, which includes `FopenFails`
    - `GetSetIndex`
    - `GenerateNonce`
    - `CheckVersion`
    - `Dispatch`
    - `Output`, which includes `RejectTokens` and `WriteOutputs`
    - `CloseSink`
    - `Terminated`, the stutter once the process has exited or crashed

    Each action carries the guard from the code's `if`, and both outcomes of the
    collaborator: proceed, `return -1`, or `goto cleanup`.
  - **Undefined behaviour.** `Invoke` makes every `FILE*` indeterminate. The locals are
    declared after some of the gotos, so `fclose` of an indeterminate pointer is possible.
    It is modelled as both outcomes a build can produce: the slot held NULL (skipped), or
    it did not (crash). A NULL serialized handle passed to `fwrite` crashes the process.
  - **Device data.** The decoders are not in `src/`, so `FixedResponse` and
    `SerializedResponses` are modelled from spec 4.3/4.4 as outcomes only:
    - the fixed decoder fills every slot;
    - the serialized decoder fills the first `k` of the three handles and leaves the rest
      NULL, with any declared token length in `TokenLens`.
  - **Mutants.** `GenerateNonceStatus`, `GenerateNonceUnchecked`,
    `RejectTokensAfterWrite` and `DispatchRetrying` (a re-send after a nonzero status)
    are plausible bugs used to check that the properties can fail. They are not part of
    `Next`.
- **`TokenQuery.tla`** is the abstract specification of one query, seen from its invoker.
  It is written from spec 4.6 (the states "not yet dispatched", "dispatched" and terminal),
  spec 3 and 4.1 (a fresh nonce per request), and spec 7 (the first failure returns a
  fixed failure indicator).
  - **State.** `phase` is `idle`, `pending`, `sent`, `done` or `aborted`. `calls`, `sent`
    and `ret` are as in `SecurityTokens`.
  - **Actions.** `Start` a call. `Refuse`: return -1 before any exchange. `Send` one
    request, whose nonce is not 0 and was never sent (`FreshAppend`). `Complete`: return
    0, -1 or a device status. `Abort`: undefined behaviour ends the process.
- **`SecurityTokensRefinement.tla`** shows that the handlers implement `TokenQuery`.
  - Once a handler is in cleanup, its state does not say whether it dispatched. A history
    variable `requested` records it. `TrackRequest` sets it when `sent` grows and clears
    it when a call starts. No action of the handlers reads it.
  - The refinement mapping `Phase` sends `idle` to `idle`, `returned` to `done`,
    `crashed` to `aborted`, and a running or cleaning handler to `sent` or `pending` by
    `requested`. `calls`, `sent` and `ret` map to themselves.
  - `Implements == TQ!Spec` is checked as a property of `RSpec`.
- **`SecurityTokensArtifacts.tla`** adds a history variable `before`: each sink's
  contents when the current call started (`TrackBefore`). It states what a failing call
  may do to the file system.
- **`MC_*.tla`** instantiate the models for TLC, with the same constants.
- **`SecurityTokens_proofs.tla`**, **`SecurityTokensOutcome_proofs.tla`**,
  **`SecurityTokensRefinement_proofs.tla`** and **`SecurityTokensArtifacts_proofs.tla`**
  hold the TLAPS proofs. The outcome module carries the invariant of the sinks, and the
  artifacts module builds on it.

## Runs

The constants are the same in every run:
- `MaxCalls = 3`. Three calls in one process let a later call see the nonces and leaked
  streams of earlier ones.
- `MaxOpen = 4`. Leaked streams then do exhaust the limit, and fopen fails for that
  reason and not only at random.
- `TokenSize = 2`, `ResponseCap = 4`.
- `TokenLens = {0, 1, 2, 6}`. These are the empty blob, a non-multiple, a valid blob, and
  a whole-token blob larger than the buffer, so each check at lines 128-145 decides some
  case.
- `DeviceErrors = {-1, 3}`.

| run | cfg | expect | what it shows |
|---|---|---|---|
| `handlers_core` | `SecurityTokens.cfg` | pass (20 636 states) | `TypeOK`; `NonceFresh` (each request carries a nonce `RAND_bytes` produced, never garbage, never repeated); `SinksReflectOutcome` (success means every sink holds exactly this call's field and tokens are whole; failure or crash means no sink holds anything from this call) |
| `leak_on_early_return` | `NoLeakOnReturn.cfg` | violation | `return -1` at line 54 (and 67, 156, 194, 207, 280, 387) skips cleanup and leaks an open stream |
| `fclose_uninitialised` | `NoFcloseOfIndeterminate.cfg` | violation | `goto cleanup` at 306/311 jumps over the declaration at 319; `fclose` at 392 reads an uninitialised pointer (also 49/62 to 163/166 and 189/202 to 287/290) |
| `missing_field_deref` | `NoNullFieldUse.cfg` | violation | only `tokens_param` is NULL-checked (128); lines 149-150 dereference a NULL boot-nonce or signature handle, contrary to spec 4.4's `MissingField` |
| `ignored_write_errors` | `WriteFailure.cfg` (`WriteMayFail = TRUE`) | violation | fwrite/fclose results are ignored (148-150, 272-274, 381); the handler returns 0 with an empty sink, contrary to spec 6/7 |
| `refinement` | `Refinement.cfg` on `MC_SecurityTokensRefinement` | pass (20 744 states) | `Implements`: every behaviour is one of `TokenQuery`. Each call sends at most one request, with a fresh nonce. It returns -1 if it fails before the exchange. It returns the device status or 0 only after the exchange. |
| `failure_artifacts` | `Artifacts.cfg` on `MC_SecurityTokensArtifacts` | pass (25 994 states) | `FailureOnlyTruncates`: a call that fails or crashes leaves each sink as it found it. The exception is a sink it had already opened with `"wb"`, which it leaves empty. This is the ordering hazard of line 45 (sinks opened before the call can fail), bounded to what spec 7 and 9 accept. |

**Mutants.** Each property of `handlers_core` is broken by one plausible bug:
- `TypeOK` by keeping `get_rand_challenge_nonce`'s result as the handler's status
  (`status = get_rand_challenge_nonce(&challenge)`), so an entropy failure returns 1,
  neither the -1 of spec 7 nor a device status;
- `NonceFresh` by an ignored `get_rand_challenge_nonce` result;
- `SinksReflectOutcome` by fwriting tokens before the size checks.

Each property of the other passing runs is broken by a mutant too:
- `Implements` by re-sending the request after a nonzero device status;
- `FailureOnlyTruncates` by fwriting tokens before the size checks.

**No liveness property.** The handlers have no loop: every step program ends at a
`return`, and the cleanup label walks a fixed list of pointers. Under weak fairness on
the handler steps, a call would therefore always end, but only because that fairness
assumes each collaborator call returns. The one call that may not return is the
dispatcher's transport (spec 5: it blocks until a response or a transport error, with
no timeout), and that hang is the only way a call could fail to end. A termination
property would assume it away, so none is checked; the hazard at line 112 says so.

## Proofs (the `*_proofs.tla` modules, checked by `tlapm`)

The proofs assume only `ConstantsAssumption`:
- `MaxCalls ≥ 1`, and `MaxOpen`, `ResponseCap ∈ Nat`;
- `TokenSize ≥ 1`;
- `TokenLens ⊆ Nat`;
- `DeviceErrors ⊆ Int \ {0}`;
- `WriteMayFail` is Boolean.

**`TypeCorrect: Spec => []TypeOK`.** `TypeOK` is not inductive as it stands. It is
strengthened to `TypeInv` with three conjuncts:
- `CleanupInRange`: the cleanup index is within `CloseOrder[op]`.
- `OpenAccounted`: the `FILE*` locals that hold an open stream number at most
  `openFiles`. This is why the `openFiles - 1` of an fclose never goes below 0.
- `CallStarted`: a running handler has a call number in `1..MaxCalls`, so decoded blobs
  are typed.

The proof has one case per action of `Next`, each split by the branches of the action.
It rests on these lemmas:
- `ProgramShape`: where the nonce, dispatch and output steps are in each program, and
  that each close order is no longer than its program.
- `StepAdvance`: a step other than output moves to a valid index.
- `ResponsesTyped`.
- The count of open pointers is computed as an explicit sum over the five sinks.

**`NonceFreshness: Spec => []NonceFresh`.** The inductive invariant `NonceInv` adds
three facts:
- every sent nonce lies in `1..nonces`;
- `sent` is injective;
- `ChallengeFresh`: between a handler's nonce step and its dispatch, `challenge = nonces`
  and every nonce sent before is smaller.

Most steps are covered by one lemma, `QuietStep`: a step that sends nothing and either
leaves the running state or advances past a step other than the nonce step. This lemma
is why `ChallengeFresh` is stated as a range of steps. `GenerateNonce` establishes
`ChallengeFresh`, and `Dispatch` uses it to keep `sent` injective. TLC checked
`NonceInv` on every reachable state of the `handlers_core` instance before it was
proved.

**`Refinement: RSpec => Implements`** (`SecurityTokensRefinement_proofs.tla`). The
proof follows the usual three parts of a refinement proof.
- **Inductive invariant.** `RInv` is `NonceInv` plus `RequestedInv`, which ties the
  history to the handler's state:
  - a running handler has sent its request exactly when it is past its dispatch step;
  - until a request is out, `status` is still the initial -1.

  The second fact is what makes a failure before the exchange a `Refuse` with `ret = -1`.
  Its proof rests on the C code initialising `status` at line 33 and assigning it only
  after the dispatch.
- **Initial states.** `RInit` maps to `TQ!Init`.
- **Steps.** Every step of `RNext` maps to a `TokenQuery` step or a stutter:
  - `Invoke` is `Start`.
  - `Dispatch` is `Send`. Its nonce is fresh by `ChallengeFresh` from the nonce proof.
  - A `return -1` before the dispatch is `Refuse`. `DispatchLast` puts the dispatch just
    before the output step, so every earlier step precedes it (`NotYetSent`).
  - The last `fclose` is `Complete` when a request is out, and `Refuse` otherwise.
  - A crash at an output or at an `fclose` is `Abort`.
  - Every other step changes neither the phase nor `calls`, `sent` or `ret`.

  The mapping's CASE has disjoint arms, so its value is determined in every state.

**The sinks invariant `OInv`** (`SecurityTokensOutcome_proofs.tla`). It is
`TypeInv` plus six facts:
- `SinkState`: a sink whose `FILE*` is indeterminate or NULL buffers nothing. An open
  sink is empty. A closed sink has nothing buffered, and holds data only if `status = 0`.
- `Buffered`: data is buffered only in cleanup, after `status = 0`, in an open stream the
  cleanup label closes.
- `RunPtrs`: while a handler runs, a `FILE*` is open exactly when its fopen step has
  passed, and indeterminate otherwise.
- `ClosingInOrder`: the cleanup label never reaches a closed stream. After success,
  every stream before the cleanup index is closed, and every one from it on is open.
- `StatusFlow`: `status` is -1 while the handler runs. A returned call returned `status`.
  A crash never happens with `status = 0`.
- `CallTags`: the decoded response and the buffers hold blobs of the current call only.
  A file holds blobs of earlier calls, and of the current call only once it has set
  `status = 0`.

These facts carry the argument:
- The fwrites happen only at the output step. By `RunPtrs` and the shape lemma
  `SinksShape`, every sink is open there.
- After a failure, every buffer is empty, so an fclose flushes nothing into the file
  that fopen truncated.
- After success, `ClosingInOrder` shows that the cleanup label meets no NULL or
  indeterminate pointer. That is why no crash happens with `status = 0`.

The proof of `OInvStep` has one lemma per kind of step:
- `InvokeStep`;
- `RunQuiet`, for a step that advances;
- `LeaveRun`, for an early return, a `goto cleanup` or a crash before the output;
- `OpenSinkStep`, `WriteStep` (with `OpenAtOutput`) and `CloseSinkStep`;
- `CallTagsStep`, for `CallTags` across all actions. It rests on `ResponsesTagged`,
  `OlderTags` and `ConcatRight`. The fclose case uses `ConcatRight`, on where an
  index of `x \o y` reads, to show that the append keeps the tags.

TLC checked `OInv` on every reachable state before it was proved: 20 636 states with
`WriteMayFail = FALSE` and 44 522 with `TRUE`.

**`OutcomeReflected: WriteMayFail = FALSE => (Spec => []SinksReflectOutcome)`.** It
adds one invariant, `Delivered`: after `status = 0`, each out-field's file followed by
its buffer is exactly the decoded field, and a token blob passed the size checks.
- The fwrites put each field into the empty buffer of an open, truncated file.
  `OpenAtOutput` gives that every out-sink is open at the output step.
- An fclose moves a buffer to the end of its file, so file plus buffer is unchanged.
- At `return 0` every buffer is empty (`Buffered`), so each file is the field.

The hypothesis `WriteMayFail = FALSE` is the one under which the `handlers_core` run
checks the property. Without it, the property is false: the `ignored_write_errors` run
shows this, because the code never checks the fwrite or fclose results.

**`FailureHidesResponse`** holds for every value of the constants, including
`WriteMayFail = TRUE`. A call that returns nonzero or crashes leaves no blob of its own
response in any file. It follows from `OInv` alone, by `StatusFlow` and `CallTags`.

**`FailureArtifacts: HSpec => []FailureOnlyTruncates`**
(`SecurityTokensArtifacts_proofs.tla`). The inductive invariant is `AInv == OInv /\
BeforeKept`. `BeforeKept` says that a sink whose `FILE*` is indeterminate or NULL holds
`before`, its contents when the call started.
- `Invoke` sets `before` to the files and makes every pointer indeterminate.
- `UnopenedFrame` covers every other step. No step turns an open or closed pointer back
  into an indeterminate or NULL one. No step changes the file of a sink whose pointer
  stays that way: a failed fopen leaves the file alone.

After a failure, `status ≠ 0`, so a closed sink is empty by `SinkState`.

**Left to TLC.**
- No liveness property is stated (see "No liveness property" above). One would need
  fairness and ENABLED, which are out of the prover's reach in any case.
- Any statement about the decoders' internals stays with TLC, because the decoders are
  not modelled.

## Not modelled

- **RequestEncoder and wire layout.** These are not in `src/` and are pure byte layout;
  a request is abstracted to the nonce it carries.
- **Decoder internals.** The length tables and `SizePayloadMismatch` are not in `src/`.
  Only the decoders' outcomes are modelled.
- **Transport.** Out of scope per spec 1.
- **Byte contents, paths and printed messages.** One blob per field stands for the bytes.
- **`htool_security_tokens_test.cc`.** These are the unit tests with a mocked
  dispatcher, not part of the system.

## Plan

1. **Done:**
   - the `SecurityTokens` core;
   - 3 passing runs and 4 violation runs, with a mutant for each property;
   - the abstract `TokenQuery` and its refinement, model-checked and proved;
   - `FailureOnlyTruncates`;
   - the theorems `TypeCorrect`, `NonceFreshness`, `Refinement`, `FailureArtifacts`,
     `OutcomeReflected` and `FailureHidesResponse`.
2. **Refinement of `TokenQuery` with the sinks.** Extend the abstract spec with what a
   call leaves in the files, using `OInv` for the step proofs.
3. **Spec-modelled `SerializedDecoder` module.** Walk the per-field length table, with
   `SizePayloadMismatch` and absent sentinels. Check it against a reference definition
   over bounded inputs (spec 8.2 and 8.8), and compose it with `Dispatch`.
4. **Spec-modelled `RequestEncoder` module.** Check determinism and the size identity
   (spec 8.1).
5. **Stream exhaustion across calls.** Relate the leak of an early return to a later
   call's `SinkOpenError`: a property that a fopen fails at the limit only after an
   earlier call leaked.
