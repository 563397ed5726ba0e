# A verification development for the EVM ML-DSA-44 verifier

This directory holds TLA+ models of the repository, the TLC configurations that
check them on small instances, and theorems about them that TLAPS proves for
every value of the constants. The repository is a Solidity contract that
verifies ML-DSA-44 signatures (FIPS 204) at low gas cost, with a Python
tool chain around it. Paths below are relative to the repository's root.

The contract is a pipeline of hand-written assembly, so what can go wrong is
mostly of four kinds: state that one step leaves and another uses (blocks of a
stream, scratch memory, raw allocations), boundaries (paddings, masks, lanes
that carry into each other), calls to another contract that fail, and accounts
that change between calls. The tool chain is where the concurrency is: a thread
pool with signals and child processes, and a cache of files that parallel
processes fill.

## 1. The parts of the system

| Part | State it keeps | Operations | Talks to |
|---|---|---|---|
| `MLDSA44Verifier` (`src/MLDSA44Verifier.sol`) | immutable `F1600`; memory during a call | constructor, `verify` | blob account by EXTCODECOPY, helper account by STATICCALL, the libraries below by internal calls |
| SampleInBall (`src/Decode.sol`) | sponge state, block buffer, sign word, polynomial | absorb, squeeze, draw, refill | one helper call per permutation |
| Hint decoder (`unpackHFast`) | four 256-bit masks, one flag | header and padding checks, scan per row | – |
| z decoder (`_unpackZPoly`, `unpackZPacked`) | one flag at memory word 0 | gather, canonicalise, bound | – |
| Transforms and row (`src/Ntt.sol`, `src/InvNtt.sol`, `matvecRow`) | packed lanes in memory, lazy | three passes forward; two accumulating passes; four inverse passes | the row's accumulator is shared by all |
| UseHint and packing (`useHintSwar`) | output buffer, shifted mask | one turn per eight words | reads the rows and the decoder's masks |
| SHAKE256 callers (`src/FastKeccak170.sol`) | sponge state or padded message | batch call, call per permutation | helper account |
| Keccak helper | EVM memory of one call | dispatch on calldata size, pad, absorb loop, permute, return | – |
| Its assembler (`tools/build_f1600_batch.py`) | symbolic stack, marked instructions | scan, patch, emit, check, write | reads a compiler's core, writes the runtime that is committed |
| Key preparation (`prepare/`) | none | clean and decode hex, expand a public key, pack the blob | its output is deployed as the blob account's code |
| Deployment (`script/`) | addresses in environment variables | load and test a blob, deploy helper, blob, verifier | the chain |
| Python reference (`pythonref/`) | keys, the buffers of its XOFs, the mask nonce | keygen, sign, verify, samplers | the oracle of the differential tests; signs their fixtures |
| Mutation campaign (`formal/mutation/run_mutation.py`) | workspaces, pool, results, `_PROCS`, `_WORKSPACES`, `_LOCK`, results file | baseline, clone, patch, run, restore, score, write, clean up | forge children, signals, the file system |
| Obligation suite (`formal/z3/verify_all.py`, `kernel_obligations.py`, `source_pins.py`) | what it loaded, rows, conjuncts, failures | digest and load, record obligations by phase, compare with the pins, exit | Z3; the pins of `source_pins.py` |
| Vacuity audit (`formal/z3/vacuity_audit.py`) | baseline rows, outcomes of mutations | run the suite, run mutated copies, subtract | the suite, in copies whose pins it regenerates |
| Lean check (`formal/lean/check_axioms.py`) | problems found | scan, copy, build, compare axioms and statements | `lake` |
| Attribution check (`formal/hypotheses.py`) | problems found | compare digests, counts, sole killers | the campaign's results file |
| Fixture cache (`tools/fixtures/fx_common.py`) | shard files, temporary files, flock | serve, `--build`, write shard | the forge workers that start it through `vm.ffi` |
| Everything else | – | fixture builders, Halmos driver, tests, artefacts, CI | – |

How they interact. `verify` checks the helper's hash, the signature's length and
the blob's size, decodes the hints and z, computes mu and samples the challenge
through the helper, computes four rows of `A z - c t1` with one scratch array for
the rows of the blob, applies the hints, hashes and compares. Each library hands
raw memory on to the next: the lazy bounds of the forward transform are the entry
bounds of the row product, and the bound of its accumulator is that of the inverse
transform. The key takes the other way in: its holder's text, `prepare.py`, a
deployment script, an account. The campaign runs `forge test` on patched copies of all
of it and its results are quoted by `hypotheses.py`; the fixture cache feeds
`forge test`; the suite, the audit and the Lean check are started one after the
other by `run_checks.sh`.

What makes each part correct:

* **SampleInBall**: the same polynomial as Algorithm 29 draws from the byte
  stream, wherever the blocks end; nothing after a failed permutation.
* **Hint decoder**: accepts exactly what Algorithm 21 accepts, with the same
  hints; reads only index bytes.
* **z decoder**: every coefficient in its lane, `gamma1 - v` reduced, and the
  signature rejected exactly if one of all of them is out of bound.
* **Transforms and row**: no lane carries or borrows; the result is canonical and
  is Algorithm 8's row.
* **UseHint**: the buffer is `w1Encode` of those rows with their hints.
* **SHAKE256**: the bytes of FIPS 202, or a revert, at every length; the runtime
  computes what the core computed.
* **Verifier and keys**: a call that returns gives Algorithm 3's verdict on the
  blob it was given, and only with the pinned helper; what was registered is what
  FIPS 204 derives from the holder's key.
* **Reference**: samplers take from the stream what FIPS 204 takes; what is signed
  verifies, for its own message alone; no nonce is used twice; loops end.
* **Campaign**: a verdict is of its own mutant; status 0 means judged; the run
  ends and leaves nothing behind.
* **Suite, audit, Lean, attributions**: green means what the tool says it means,
  also when a file is edited or saved at the wrong moment.
* **Fixture cache**: no torn shard, one builder, everyone is served.

## 2. Modules

| Module | Models | Extends / refines |
|---|---|---|
| `BallSpec` | Algorithm 29 on a byte stream (abstract) | – |
| `SampleInBall` | `sampleInBallPacked` | refines `BallSpec` |
| `HintUnpack` | `unpackHFast`; the oracle's `_unpack_h` | – |
| `UnpackZ`, `MCSigDecode` | `unpackZPacked`, `_unpackZPoly`; both decoders in `verify`'s order | extends `HintUnpack` |
| `Sponge` | SHAKE256 as FIPS 202 states it | – |
| `KeccakHelper` | `assemble()` of the helper | extends `Sponge` |
| `FastKeccak` | `shake256Batch170`, `shake256Fast170`, `_computeMu` | extends `KeccakHelper` |
| `F1600Build` | `scan_core`, `patch_core`, the lifts, absorb and squeeze of `build_f1600_batch.py` | – |
| `HelperLife`, `MCHelper` | the runtime built, committed, then called | composes `F1600Build` and `FastKeccak` |
| `VerifierSpec` | `IMLDSAVerifier`: a call is one step (abstract) | – |
| `Verifier` | constructor and `verify` | refines `VerifierSpec` |
| `Prepare` | `prepare.py`, `mldsa_min.py`, the key path of `DeployBase.sol` | – |
| `KeyLife`, `MCVerifier` | a key written, prepared, deployed, used | composes `Prepare` and `Verifier` |
| `Ntt`, `InvNtt` | layers of the two transforms, as operators | – |
| `RowProduct` | `_wPrimeRows`, `matvecRow`, both transforms | extends `InvNtt` |
| `UseHint` | `useHintSwar` | – |
| `RecoverW1`, `MCRow` | `_verifyCore` from polynomials to `w1Encode` | composes `RowProduct` and `UseHint` |
| `Rounding` | `utils.py`: reduce, decompose, hints | – |
| `PolyRing` | polynomials, vectors, matrices and packings of the reference | extends `Rounding` |
| `Dilithium` | keygen, sign, verify of `dilithium.py` | extends `PolyRing` |
| `XofReader` | `Shake`, `Keccak256PRNG`, plain digests | – |
| `Samplers` | the rejection samplers | extends `XofReader` |
| `Reference`, `MCReference` | one process that samples, then makes a key, signs and verifies | composes `Samplers` and `Dilithium` |
| `MutationCampaign`, `MCCampaign` | `run_mutation.py` | – |
| `FixtureCache`, `MCFixtures` | `serve`, `main`, `write_shard`, `_atomic_write` | – |
| `ObligationSuite` | `verify_all.py` and its pins | – |
| `FormalChecks` | `vacuity_audit.py` | extends `ObligationSuite` |
| `AxiomCheck` | `check_axioms.py` | – |
| `Hypotheses` | `mut_attribution_problems` and what it asks of the results file | – |
| `MCFormalChecks` | `run_checks.sh` as far as it starts these tools | composes the three |
| `SampleInBallProofs` | theorems about `SampleInBall` | extends it |
| `HintProofs` | theorems about `HintUnpack`, its oracle and `UnpackZ` | extends `UnpackZ` |
| `ReferenceProofs` | theorems about `Rounding`, and about `Dilithium`, `Samplers` and `XofReader` under `Reference` | extends `Reference` |
| `KeccakHelperProofs` | theorems about `KeccakHelper`, `FastKeccak` | extends `HelperLife` |
| `VerifierProofs` | theorems about `Verifier` alone and under `KeyLife` | extends `KeyLife` |
| `RowProductProofs` | theorems about `RowProduct` and `UseHint` under `RecoverW1` | extends `RecoverW1` |
| `ToolProofs` | theorems about `MutationCampaign` and `FixtureCache` | extends both |
| `FormalProofs` | theorems about `ObligationSuite`, `AxiomCheck`, `Hypotheses`; then the obligations themselves: one 64-bit lane and the statements of the suite, with the code's own constants | extends `MCFormalChecks` |

`PROJECT.json` maps every definition that stands for code to its lines.

### State and actions against the code

**SampleInBall.** `xof` is the list of blocks the permutation has produced and
`st` how often it was applied, so squeezing twice without permuting would give
the same bytes. `pos` is the read position in the block; the draw's `i`, `j`,
`signInt`, `c` are the code's. `Absorb`, `ScanByte`, `Exhaust`, `SwapAndSet` and
`Refill` are the first squeeze, one byte of the inner loop, the end of the block, the
draw, and l. 577 onwards; `HelperFails` replaces the two that permute. `used` is a
history of the bytes consumed. A block is any sequence of bytes.

**HintUnpack.** A mask is the set of its bits and a 32-byte word the bytes at its
positions. The header checks are one action, as in the code, where they are
branch-free; then one action per row and per index byte. The flag `bad` is the
code's: set and never cleared, tested at the end only.

**Sponge, KeccakHelper, FastKeccak.** A sponge state is the history of
operations that made it, so two states are equal only if the same blocks were
absorbed and the same number of permutations made, in the same order. This
treats the permutation as an injective operation nobody inverts, which is all
the callers may assume. In the helper, `counter`, `ptr` and `mode` are memory
words 0x660, 0x680 and 0x6a0. The output of `_shake256Into` is memory from the object's first byte on: `Allocated` bytes
belong to the object and the next one lies behind it. A squeeze stores whole blocks wherever they fall, so an allocation
that is not rounded up to blocks overwrites the next object, and `CallersReturnShake` says that nothing behind it was written.

**Verifier.** A polynomial or digest is the term of the operations that made it;
using stale scratch, the wrong offset or the wrong transform gives another term.
`code` is the chain; `Replace` replaces any account's code, also the helper's,
but only while no call runs, because a transaction is atomic. Each early
return is an alternative of its own. The decoders appear as their results.

**Ntt, InvNtt, RowProduct.** Memory is 64 words of four lanes. A step is a layer
of an octet (forward passes A and B), a word (pass C and the inverse entry), a
turn of a `matvecRow` pass, or a layer of a quad. A lazy reduction leaves the
residue or the residue plus q; which one is the state variable `slack`, justified
by `LazyBarrettLeaves`.

**UseHint, RecoverW1.** The buffer is its bytes. A turn reads eight words, packs 192
bits, reverses the bytes by exchanges of halves, and stores 32 bytes at `dst`.
`RecoverW1` runs the two passes of `_verifyCore` one after the other on the same
rows; the masks are chosen when the second begins, since the first does not read them.

**UnpackZ.** `scratch` is memory word 0, as the set of lanes whose flag bit is set; it and
the result's words hold anything at the start. A step is a turn of the loop (a
group of quads) or the end of a polynomial. z is decoded only if the hints are accepted.

**F1600Build, HelperLife.** A word is the set of its 1 bits. The core is an
instruction sequence that grows lane by lane by the compiler's idioms (rotations, masks, round
constants, complements); the scan's symbolic stack decides what a push is, the
patches rewrite it for copies of a lane, and both programs run on the same
states. A core of another shape than the pinned counts is refused, as
in the code. `built = "committed"` is where the tool ends and the contracts begin.

**Prepare, KeyLife.** A text is a sequence of characters; a digit is its value. SHAKE
is a pair of constant operators. `file` is the file that passes from `prepare.py` to the
deployment script; it may have been cut while it was written, rewritten with
spaces or prefixes, or hold the raw key because somebody forgot a step. Registration happens
before the first call; from then on accounts are replaced by `Verifier`'s `Replace`.

**Rounding, PolyRing, Dilithium.** Python's `%` and `//` are TLA+'s. A polynomial is the
function of its coefficients and a product is taken in the ring. The integer into which
`__bit_pack` shifts and ORs a polynomial is the set of its 1 bits, and unpacking is the coefficient
whose bits lie in the field; the loops (sums, shifts, the list `_pack_h` extends) are functions of the number of
turns made. Matrix,
secrets, masks and challenges are chosen, a hash is the tuple of what was
hashed. The steps of an attempt are the mask with its nonce, the challenge, and the
four tests in the code's order, each of which may reject.

**XofReader, Samplers, Reference.** A reader is the record of its fields: the buffer that
doubles in `Shake`, the counter and the rest of the last block in
`Keccak256PRNG`, the digests of fixed length in `mldsa_min.py`. A read returns
positions of the stream, so a byte that is dropped or given out twice shows. One action
is one read of a sampler. `Kept` is what a rejection loop has accepted after so many candidates; the
specification of each task (`SpecNtt`, `SpecBounded`, `SpecMask`, `SpecBall`) takes from the stream itself and knows of no reader.

**MutationCampaign.** `main`, one control point per worker and one for the
handler; `_LOCK` is a variable: the main thread takes it in one
step and releases it at the end of the block in another, so a signal may fall between; a
worker's blocks are single steps that need it free. Python runs
a handler on the main thread between two of its steps, so it preempts `main` and
nothing else. A workspace's tree is the set of mutants patched into it; forge's
outcome is one of pass, fail with or without names, build failure and
timeout.

**FixtureCache.** A file is absent, torn or whole; a rename is atomic; a killed
process loses its flock and leaves its temporary file. A process that
wants `"all"` is `--build`, which takes no lock and writes every shard.

**ObligationSuite, FormalChecks.** A directory is the texts of the files, the table of
pins, the driver, and whether a stale `.pyc` lies there; a text is the set of
edits in it, and its AST leaves out the comments. The anchor digests and then executes
what it read; the phases record an obligation at a time with its conjuncts; an
exception ends a phase; at the end the rows are compared with the pins. A file may be saved
while a lone run starts. The audit runs the suite in the tree, then in one copy per
mutation with pins regenerated, and subtracts. META-PINS's ten conjuncts are one here; the
worker processes of the audit share nothing and run one after the other.

**AxiomCheck.** The scan, the copy into a fresh directory, the count of directives and
the statements are four reads of the files, and one save may fall between any
two. A warm `.lake` would replay old axiom lines; the code builds elsewhere, and a
mutant that builds in place is caught.

**Hypotheses.** The sources are three files (catalogue, `MUT_Gaps.t.sol`, the rest of the
tests), each one of a few texts. A campaign copies them at its start and writes the
results file after every verdict, with the digests of that moment. The check reads the
file, and is green or red.

## 3. Runs

TLC takes at most a few minutes for each, with two workers. "States" are distinct states.

| Run | Instance | States | What it shows |
|---|---|---|---|
| `sample_in_ball` | N = 4, 3 draws, blocks of 3 bytes, at most 3 blocks | 434,786 | bytes in stream order; refinement of Algorithm 29 |
| `hint_unpack` | K = 3, Omega = 3, word of 2 bytes, bytes 0..4, lengths 5..7; z: 2 polynomials of 16 6-bit fields, gamma1 = 32, q = 97 | 423,132 | agreement with Algorithm 21 on all encodings; scan in bounds; the oracle differs on repeats only; z is BitUnpack with one verdict |
| `shake256` | rate 3, raw size 7, messages up to 8 bytes, outputs up to 7; lanes of 4 bits in 3 copies, 6 lanes, 2 rounds | 292,480 | batch is the sponge, raw is one permutation, callers give SHAKE256's prefix inside their allocation or revert, `_computeMu` is total; the patched core computes the core |
| `row_product` | q = 7681, degree 256, 2 inputs, 3 kinds of slack, 2 rows, dirty accumulator and buffer | 6,078 | documented lane bounds; no borrow; forward transform; Algorithm 8's row; `w1Encode` of it |
| `verifier` | 2 rows; 4 keys of which 2 have the right length, 4 coefficients mod 17, 8 writings of a text, 3 cuts; two helper codes; 7 signatures, 2 messages | 322,464 | what is registered is the holder's key; verdict is Algorithm 3's; refinement of the interface |
| `reference` | q = 41, 2 coefficients, 2 x 2 matrices; samplers of 4 coefficients on streams of period 5 | 26,999 | samplers are FIPS 204's and end; signatures verify, for their message only; nonces are fresh; signing ends |
| `campaign` | a full run of 3 mutants, one equivalent, 2 workers, one exception or one signal | 776,812 | verdict of its own mutant, status 0, results file, nothing left, the file says complete only with a verdict of every mutant, and does after status 0, the run ends |
| `campaign_signal` | 2 mutants, 1 worker, one signal | violation | a signal that comes while the main thread holds `_LOCK` hangs the process |
| `fixture_serve` | 3 servers of 2 shards, one `--build`, one kill | 24,124 | no torn shard; built once; all served |
| `formal_checks` | a suite of 4 obligations, every single edit, pins old or new, two saves; a Lean development of 3 files, one save; campaigns on 4 mutants, one edit | 1,069,281 | green is sound, nothing silent, executed is digested, the audit finds idle conjuncts, clean is reviewed, attributions hold |
| `audit_vacuous` | the same | violation | a baseline without rows is taken for green |
| `stale_digests` | the same | violation | the results file carries digests of text that never ran |

Why these bounds are enough for the interesting cases to happen:

* *SampleInBall*: a draw can consume several rejected bytes, so three-byte blocks
  make it refill in the middle of a draw, at its end, and twice; N = 4 has draws
  with i = j, j = 0 and repeated j. The sign word takes two bytes of the first block, so
  that block ends after one byte of positions. Streams that need a fourth block
  are cut off.
* *Hints and z*: bytes go beyond Omega, so counters can be too large, decreasing,
  equal; Omega = 3 with two-byte words puts the padding at, before and after a
  word's edge; one index byte more or less and the wrong length are included. In z one
  coefficient, at any place, is zero, at a bound, next to one or at an end of the range: that
  reaches every lane of every quad in every turn of both polynomials.
* *SHAKE256*: lengths 0..8 at rate 3 cover empty, one less than a multiple (where
  0x1f and 0x80 share a byte), a multiple, and one more; the raw size falls inside that
  range. For the build, `CodeOf` has each idiom of the compiler and its near misses: a round
  constant equal to the mask, one pushed last, one used twice, one computed from both shifts, a mask below
  its value, every rotation. Accepted cores have the pinned shape; the others are refused.
* *Row product*: TLC's integers have 32 bits, so the run scales the arithmetic: a
  13-bit prime with a 512th root of unity, `PKBound` = 512 for the key's
  coefficients, and offsets that are multiples of q chosen as tightly as the
  code's. The schedule (indices, strides, twiddle positions, number of layers) is
  the code's own, with 256 coefficients. Inputs are all q-1 and a mixed one;
  slack is none, all and alternating; hints are none, all, scattered and at the edges of
  turns. The code's own constants are dealt with in `FormalProofs`.
* *Verifier*: two rows and two keys are enough for a stale row, a row of the
  other key, and a blob of the wrong length; the chain changes between calls. Writings
  have white space before and inside, one prefix, two, a digit lost, a stray character.
* *Reference*: the matrices, secrets and masks are chosen so that each of the four tests
  rejects some attempt and passes another; `NonceMax` is two attempts. The blocks of the
  readers are so short that every sampler runs out of buffer several times.
* *Campaign*: two workers and three mutants make a workspace change hands and two
  workers write the file; one exception exercises every `finally`. A behaviour has either
  the exception or the signal, and the signal comes before the first mutant
  has ended; a second signal does nothing new, since the handler `_exit`s.
* *Fixtures*: three servers give a builder, a waiter and a late comer, for
  different shards; the kill may fall between the two shards, and the rebuild may write
  at any moment.
* *Formal checks*: one obligation per phase, with each kind of conjunct the pins know; a single
  edit suffices, since the tools are to notice each alone, and the edits come with and without new
  pins. One Lean file is imported by nobody, so a statement can be found in the wrong file.

Deadlock is checked in `verifier` and `reference`, whose systems never stop; the other
models end (a call returns, a process exits), and there the configuration turns
the check off.

### Fairness

* `campaign`, `campaign_signal`: weak fairness of the main thread, of the handler once it started,
  and of each worker. Threads are scheduled, and a forge child ends or is killed
  at the timeout (`run_mutation.py`, `Popen.communicate(timeout=…)`). Signals and
  exceptions are not fair.
* `fixture_serve`: weak fairness of each process. The flock needs no more: a
  process takes it at most once, so a waiter that is enabled for ever again
  cannot be overtaken for ever. Kills are not fair.
* `reference`: weak fairness of the process's own steps inside a loop; it is a sequential
  program. Nothing is assumed about a new call. That the loops end is a matter of
  what the stream and the masks hold, not of scheduling: a sampler is held to end
  on streams that hold enough values it accepts, and signing up to the nonce bound.
* The remaining runs state safety only.

### Disagreements with the documentation

Three are runs, each with the quoted line under `findings` in `PROJECT.json`.

* `campaign_signal`: `run_mutation.py` l. 58-60 promises that every workspace is removed
  and every child killed on SIGINT and SIGTERM by a handler that then `_exit`s. Python runs the handler on the main
  thread, between two of its steps, and the handler takes `_LOCK`, which is not reentrant. In the behaviour shown
  the main thread has made a directory and holds `_LOCK` to register it when the signal comes: the handler waits for ever
  for the lock its own thread holds, nothing is removed and the process never exits (`SignalEnds`). The model has
  further windows in which a handler that does end leaves something behind: between `mkdtemp` and the registration,
  between emptying the list of workspaces and removing the trees, between starting a child and enrolling it. One
  counterexample shows one disagreement, so for these no property is claimed.
* `audit_vacuous`: the vacuity audit judges its baseline by the rows that are not PASS. A
  baseline that the anchor refuses prints no row, so the audit ends with status 0 over a tree with an
  idle conjunct, although it promises status 0 "iff every obligation AND every conjunct is
  load-bearing". `AuditFindsIdle` states what does hold: with rows in the baseline it finds them.
* `stale_digests`: the campaign's results file records the digests of the sources as they are
  when it is *written*. A test saved during the campaign is then quoted as if it had run.
  `AttributionsHold` states what does hold: the attributions are those of the sources the
  campaign copied when it started, whatever has been saved since.

Others were met on the way and are not behaviours a run could show:

* `src/Decode.sol` l. 51-52 says that bit 32 of `Z_NHI - o` is
  `o <= q - (gamma1 - beta) - 1`; with the constant given it is
  `o <= q - (gamma1 - beta)`, which is the strict bound FIPS 204 wants
  (`ZLaneIsAlgorithm19`). The code is right and the comment is off by one.
* `run_mutation.py`: an *equivalent* mutant whose verdict is a build failure or a
  timeout is in none of the lists the exit status looks at, so the status can be
  0 although l. 812 calls its survival "the REQUIRED outcome".
  `ZeroMeansJudged` is stated accordingly.
* `run_mutation.py` l. 195 says a fatal worker error sets `_ABORT`; only the signal
  handler does.
* `hypotheses.py` derives the published kill rate from its pinned lists, so a mutant
  that survives and that no test claims does not turn it red.
* `verify_all.py` is itself executed from what the interpreter loaded before it
  digests its own file.
* `vacuity_audit.py --ids` with an id that does not exist runs nothing and passes.
* The header of check 0 in `run_checks.sh` says that it refuses to let any check run; `run`
  sets the exit status and goes on.
* `docs/SAFETY.md` speaks of `_loadPk`; the function is `_pkSizeOk`.
* `script/DeployBase.sol` l. 267 promises to strip one optional `0x`; the loop
  strips any number of them, and `str.split` of `prepare.py` takes more characters for white
  space than `_cleanHex`. `RegisteredIsTheKey` holds nevertheless.
* `pythonref`: `pk_from_sk` always raises a TypeError (`PkFromSk`); the ZK parameter sets cannot make a
  key; `Matrix.__neg__` applies the transpose flag again; the nonce no longer fits its two bytes
  after 65536 / l attempts; a single read of `Keccak256PRNG` is limited by `MAX_BUFFER`.

## 4. Theorems

All leaves are checked by TLAPS (Z3, Zenon, LS4). Assumptions are the named
`ASSUME`s on constants in the modules, which TLC evaluates on the instances.

**SampleInBallProofs.** Assumes `1 <= Tau <= N`, a sign word inside a block with
one bit per draw, q >= 3. `IInv` joins the types with the facts that lanes from `i` on are
zero and that a draw is still pending until the last one is made. `SampleWeight` needs in addition
`WInv`: a draw adds exactly one lane, because lane `i` was zero (which types do not say)
and lane `j`, if it was not zero, moves there. `SampleStreamInOrder` (`SInv`) says
that what has been read is the stream from the end of the sign word to the
position. The refinement maps `h` to the sign word, `read` to what was consumed
and `i`, `c` to themselves: a squeeze stutters, a skip and a draw are steps of
`BallSpec`.

**HintProofs.** About the decoder it assumes only that the sizes are positive. Algorithm 21 stops
at the first failure while the code goes on with clamped counters, so `TypeOK` is not
inductive for what matters. `LInv` says: the flag is set exactly when a check that
has been made failed; the mask and the previous index are those of the part of the
row scanned. `ClampIsIdentity` shows that, when no counter is bad, clamped rows are the
rows; `FlagDecides` concludes. `HintOracleDiffers` compares two decoders that both are
definitions over the encoding: `_unpack_h` of the reference accepts what the contract rejects only
where a position is repeated within a row, and wherever it accepts, the decoder's masks hold the hints it reads (`OracleRows`).

`ZDecodesAsBitUnpack` is about the z decoder in `verify`'s order, under `UnpackAssumption`: groups are whole bytes, fields are not wider
than `2 gamma1`, `2 gamma1 <= q` and `q` is below the flag bit. With 18 bits, `2^17`, 8380417 and `2^32` the code's constants satisfy it.
The code takes a field out of the number its group's bytes make, BitUnpack adds up bits of single bytes. `BitOfByte` says that bit `8c + t` of a number is bit `t`
of its byte `c` (a number splits around each of its digits, `DigitSplits`), `BitsAreField` that the bits from `a` up make `(x div 2^a) mod 2^n`, and
`FieldIsCoefficient` joins them through the offsets: field `l` of group `w` begins at bit `8 w GroupBytes + l FieldBits` of its polynomial.
`LaneIs` is the arithmetic of one lane, from the flag bits as the code tests them. `ZInv` is the loop: all words of the polynomials before `p` and of the turns before `b` are
decoded; the scratch word has the verdicts of *this* polynomial's turns so far, cleared at its start whatever it held, and the result those of the earlier polynomials.

**KeccakHelperProofs.** `KInv` gives the state at the loop head as the first
`2a` operations of the reference sponge where `a` is the number of blocks absorbed,
and ties counter and pointer to it. `PaddingBuilt` proves that writing 0x1f and then
ORing 0x80 builds pad10*1, the case of the shared byte included.

The callers are proved over the helper's own steps, not over its promises: `CallerInv` holds `KInv` whenever
a call is under way. `CallInv` says what is being computed for whom (the batch entry has the whole
message; the raw entry has the reference sponge's state one permutation before the one the caller waits for),
`SpongeInv` what the caller holds between calls (the first `2 b` operations after `b` blocks, then `q` more
permutations when `q` blocks have been squeezed), and `OutputInv` that every byte of the output below `done` is SHAKE's and that nothing behind the object has been written (`BlockFits`: a whole block from `done` on ends inside the allocation).
`CallersReturnShake` follows for every rate, message and output length, with a helper that may fail at any call;
`CallersMuIsTotal` needs that `_computeMu` takes the other route for exactly the length the batch entry would
mistake for a raw state, and never asks for more than a block.

**VerifierProofs.** Accounts, codes, messages, signatures and the final hash are
arbitrary. `VInv` says what each value already computed is (as a term of the
blob), that the helper is the pinned one from the check on, and what the last call
returned. `VerifierImplementsInterface` maps `code`, `F1600`, `last` to themselves;
the steps of a call stutter and its end is one step of the interface. The verdict is Algorithm 3's also in `KeyLife`
(`RegisteredVerdictIsAlgorithm3`): there the deployment scripts make whatever `prepare.py` left the code of an account, so a
code need not be one of those an account is declared to take. The typing of codes (`CodesInv`) is therefore apart from `VInv`,
which does not need it. The refinement of the interface does, and is proved for `Verifier` alone.

**RowProductProofs.** Assumes that the modulus and the tables are what `RowProductAssumption` lists, about which
`OffsetsDominate` proves that the code's constants satisfy it. `LaneInv` is more than `LaneBounds`, which speaks of the words in the current
step's reach: `PolyBounds` bounds every word of all five polynomials by the number of layers it has been through
(`(2 k + 1) q` after `k`), which is what the next layer's offset is chosen for; `AccBounds` bounds the words of the accumulator that
this row has written, by the number of products they sum or the inverse layers that doubled them, and says nothing of the others, which
hold whatever the previous row left; `RowsCanonical` keeps the finished rows. Then each layer's step lemma follows from one
fact about one butterfly. `RowNoBorrow` is `LaneBounds` against the offsets, and `FinishedRowsCanonical` is what `UseHint` starts from.

`RowsAreEncoded` goes on from there to the bytes of `w1Encode`. One lane is UseHint of its coefficient, in six bits; a turn's 32 lanes
make 24 bytes, each of which takes its bits from one field or from two neighbours; five exchanges reverse a word of 32 bytes
(`ReversedIs`), so that the store puts byte k of the packed word at `dst + k`, and the eight bytes of zeros behind them are overwritten by the next
turn (`StoreIs`). `EncodeInv` says where the second pass is: turn `s` of a row reads from coefficient `32 s`, writes at byte `24 s` of the row's 192, the masks have been shifted as
far, and *every byte before that* is already w1Encode's.

The last part is about what the lanes stand for: `ForwardTransforms` (each forward transform is congruent to the values of the polynomial
at the odd powers of psi) and `RowsAreAlgorithm8` (each finished row is canonical and has, at each of those points, the value of the row of A
times z less c t1), for every modulus, table, key, input and slack the assumptions allow. `ValueInv` says that there
is one input (`PICK`ed, since `RecoverW1` keeps it in `input`) such that every lane of every word is congruent to a coefficient of the exact computation
as far as the word has come: `Tower(f)[k]`, `k` layers of `Stage` on the coefficients, for a polynomial; `Half` and `Target` for the accumulator between
and after the two passes of `matvecRow`; `InvTower(Target)[k]` in the inverse layers; `Scaled` for a finished row. Each step's lemma relates the words of one butterfly
to one `Stage`. That the exact computation is the transform is mathematics apart from the program: a layer makes each run of
coefficients a linear combination of two runs (`StageCombines`, `InvStageCombines`); the value of a run is linear in the run (`RunLinear`, by induction over its
length); the powers of a point are, up to the sign, the entries each layer multiplies with (`PowerIs`, from `RootAssumption`); so after `k` layers of `Tower` the
value of the polynomial at a point is the value of one run of `2^(8-k)` coefficients (`TowerValue`), and after eight it is a lane. The inverse layers double the
value at the point (`InvTowerValue`) and `NINV` takes the 256 back (`ScaledValue`). `RootAssumption` is what makes the table a table of
powers of psi: its entries are square roots of one another. Those of `nttFwTable` (`Ntt.sol` l. 447-481) satisfy it, as does the small table of `MCRow`.

**ReferenceProofs.** For every ring, every matrix, key, mask and challenge, and every number of attempts, under
`RoundingAssumption` (`q = M * 2 gamma2 + 1` with `M >= 2`) and `DilithiumAssumption`: the widths hold what is packed in them, the secrets
are small, the masks are in the range of `ExpandMask`, `tau * eta` is below both gammas. ML-DSA-44's parameters satisfy them.

`SchemeInv` is what the three safety properties need and none of them says: the packed keys come from *some* secrets and the matrix
at hand, the values of the attempt are in range, every nonce used is below `kappa` and they are distinct, and *what was let out passed
the four tests*, as properties of values that are functions of the present key, mask and challenge. The last is the part that is not
inductive by itself: it survives a verification because verifying leaves key, mask, challenge and call alone (`AttemptStays`).
`MaskNoncesFresh` is its nonce part. `OtherMessagesRefused` adds that the formatted message can be read back
(`FormattedOnce`), which is where the length byte of the context is needed; that two different texts do not collide is
the modelling of a hash as a tuple.

`SignaturesVerify` is the correctness of the scheme, and its argument is the textbook's with the packing left in:
* *Rounding*: `DecomposeRecomposes` and `UseHintUndoesMakeHint` go by cases on the residue, whether it is in the top class that is folded onto 0 and
  the sign of the low part; with `SmallChangeKeepsHighBits` they give `VerifierRecoversW1`, and `CoefficientRecovered` from it what one coefficient
  needs.
* *Ring*: `Mul` is the schoolbook product with the sign of the wrap. `MulAdds` and `MulExchanges` (a sum of sums in either
  order, both factors through the same wrap) give `MatVecScales`, that `A (c s)` and `c (A s)` agree; `VerifierEquation` concludes that
  `A z - c t1 2^d` is `w - c s2 + c t0` modulo q. `BallTimes` bounds `c s2` by `tau * eta`, coefficient by coefficient.
* *Packing*: `PackingIsUndone` says that the set of 1 bits of fields determines every field that fits (`BitsOnce`: a number
  below `2^n` is its n bits), and `T1Undone`, `T0Undone`, `SUndone`, `ZUndone` apply it to the offsets of each packing. Responses come
  back as other representatives of the same residue, which the norm test does not see (`ResidueOnly`). `HintIsUndone` shows that `_unpack_h` accepts what
  `_pack_h` makes of at most omega ones, and returns it.
* `VerdictIsTrue` joins them: the four tests passed, hence the verifier's hint gives back the `w1` that was hashed.

`SamplersAreFips204` is about the samplers, for every stream of bytes that holds something acceptable, every period, block, degree, modulus and
width, under `SamplersAssumption` (the fields of a mask fill whole bytes, the sign bytes hold `tau` bits and lie in the first digest). It has two halves:
* *Readers*: `ReaderAt` says of each reader's fields that its next byte is byte `c` of the stream - for `Keccak256PRNG`, what is left of the last block counts.
  `Reads`: a read of `n` bytes returns `c .. c + n - 1` and leaves the reader at `c + n`, across a buffer that doubles (`GrownFits`), a block that ends and
  new ones that are made, or a digest that starts over.
* *Samplers*: `SamplerInv` says what has been kept after each read. For the two rejection samplers it is what the loop keeps of the first `t` candidates
  (`Kept`), for the challenge the draws made so far with *every byte since the last draw refused* (`Drew`), without which
  the next accepted byte could not be called the least. At the end a bounded number of turns had sufficed, since a
  period holds an acceptable candidate (`KeptGrows`, `BallsCome`), so what the sampler kept is a prefix of what the specification keeps (`TakeKept`). The numbers
  `int.from_bytes` makes are compared bit by bit: bit `p` of the number is bit `p % 8` of byte `p / 8` (`BitOfWord`), and a field is
  the sum of its bits (`FieldIsBits`).

**ToolProofs.** The fixture cache (`CacheSpec`) assumes that the shards are distinct and that no process has the
name of the free lock; processes and kills are arbitrary. That no shard is torn needs
only that a temporary file belongs to one process (`TmpOwn`), and holds without flock. `FInv` adds that
a builder leaves every earlier shard whole and that a server past the lock holds it, from which
`FixtureOneBuilder` and `FixtureNoneFails` follow. For `FixtureGeneratedOnce` the builds are
counted: each but one was paid for by a kill, and the remaining one is under way or has completed the
family (`GInv`); `BuildStarts` is where the second look under the lock is needed. The theorems about
the lock carry `Flock` as a hypothesis, since the code builds without it on ENOLCK.
For the campaign, workers, mutants, exceptions and signals are arbitrary. The heart of `CInv` is `PoolInv`: a workspace is in the pool
once, or with one worker that owns it, and never both. On it rest `Trees` (a tree holds exactly its worker's mutant from `Patch` to
`Restore` and nothing otherwise), `Started` and `Seen` (a worker that did not raise saw its own mutant run), hence
`CampaignVerdictIsOfItsMutant`. The other properties add what they need: `TasksJudged` and `MapJudged` for the exit status, `Written`
for the results file (one worker at a time is inside the dump, and outside of it the file is what is recorded;
it says complete once that is every mutant of a full run, so status 0 of a full run means a complete file), `Children` and `Disks`
for what is left behind when no signal came.

**FormalProofs.** About the composition `run_checks.sh` makes. Four assumptions: lists are sequences and the
ids pinned have six parts (`SuiteAssumption`); a contradiction among premises is a statement's own conjunct
when the audit's edits can produce one (`ChecksAssumption`); ids and names of conjuncts are distinct, and an obligation with conjuncts has
one besides the check of its premises (`AuditAssumption`); the Lean files hold the proofs the scan distinguishes (`LeanAssumption`).
The catalogue of obligations, the pins, the edits and the saves are arbitrary.
`SuiteInv` has five parts. `DigestInv` gives `SuiteExecutesTheDigested`: between reading and executing, the text in hand has the AST of the pin, wherever a
save falls. `GreenInv` says that while `ok` stands every obligation in force either was found sound or is still to come; it is what
`ok and rows match` means at an intermediate point, and it needs `TextInv` (which texts can be running at all, in the tree or in one of the
audit's copies) and `RowsInv` to be inductive. `NamedInv` is that the comparison of the ids names what is missing.

`AuditFindsEveryIdleStatement` is why the vacuity audit works at all. A row that an idle statement passes (`IdleRow`) passes under *every* mutation,
because a mutated copy holds the edits of the repository and one more (`SandboxGrows`, `IdleRowPasses`); hence no mutation that counts has it among
its failed rows (`OutcomeInv`), so it is never killed, and with it in the baseline the status is not 0. An idle statement that some control
guards fails the baseline. For this `RecordInv` says of a run of the suite what `SuiteInv` does not: a failing row is that of a statement which is not so
(`Recorded`), every statement in force has its row and those of its conjuncts at the end, and `ok` is lost only with a failing row; `TreeInv`
says that what runs in the baseline is the repository and in a mutation its copy, and `BaseInv` that a baseline with rows was a green run. The weak place is
exactly `base # {}`: without rows there is nothing to subtract from (`audit_vacuous`).

`LeanInv` has one part per read of the files: each says what that read established *provided nothing has been saved since the scan and no problem has
been noted*, and `LeanCleanIsReviewed` puts them together at the report. `HypInv` says that a campaign in progress, and every
results file written by it, holds verdicts that the sources it copied allow.

**The obligations (end of FormalProofs).** First, facts about one lane with the code's constants: the multiplications
of a Barrett step do not leave their lane; two steps leave the residue or the residue
plus q; the offsets dominate; z is decoded and rejected as Algorithms 19 and 3
say; a lane of UseHint is Algorithm 40 for every canonical coefficient. They are what
`RowProduct`, `UnpackZ` and `UseHint` take for granted. Then the statements that `verify_all.py` and `kernel_obligations.py` put to Z3 or enumerate, restated and
proved from the constants of the code: C9, C10, C11, C15 (`CeilingsHold`, `ForwardScheduleIsForced`,
`InverseScheduleIsForced`, `CanonicalKeyIsTheMargin`, `BarrettCliff`), C17 and O4 (`Mod44IsExact`), E1-E6
(`ScalarUseHintIsFips`, `ScalarDecoderIsFips`), E14 (`RepresentativeIsInjective`), S5-S7 and S14 (a layer keeps the residues, adds 2q or doubles and does not borrow; the fold),
S8b (`PackedDecodeIsLaneLocal`), and O1-O10 on whole words of four lanes. Where the suite shows that a bound is *tight*,
so does the theorem (`BarrettCliff` gives the first input that fails; the keys of 2q are refused; both schedules are forced, and in each inverse layer K_L q is the smallest multiple of q that prevents a borrow).
The argument on a word is always the same: a packed word is the sum of its lanes at powers of 2^64, a bound on
each lane makes the division and the remainder take lanes apart, and the fact about one lane is used
four times. C10b, the textual linkages C16 and C18, and the enumerations E12 and E13 are not restated.

**What the attempts showed about the models.** Eight times a proof did not go through because of the model or the property.
Two guards of `LayersDone` (how many layers a word has been through) overlapped at the end of an octet: the value was right only because the
first alternative is taken, and the guards are disjoint now. `AttributionsHold` carried a hypothesis about digests that no step of the
proof used, so it was dropped and the property became stronger. The audit's `Judged` relies on a mutation being in progress whenever it
is judged, which nothing stated; it is a conjunct of `TextInv`. `AuditFindsIdle` spoke of every statement in either text, also of those
the suite does not take from that text, about which the audit says nothing; it is about the statements that run now, and `AuditAssumption` says what
had been a property of the instance. The packings of the reference were numbers combined with bitwise
operators, about which nothing could be proved, and `DilithiumAssumption` asked only that the width of t1 be positive: too narrow a field
would have lost bits of the key. It now asks that the field hold the largest high part.
The z decoder's flag was the comparison `x >= FlagBit`; it is the bit itself now, as in the code, and that the two agree is a lemma (`FlaggedIs`) that needs
the range of the sums.
The value of a polynomial at a point, with which `ForwardIsNtt` and `RowIsAlgorithm8` are stated, was a function recursive over pairs, and nothing in `RowProduct` said that the table holds
powers of a root: the properties held on the instance because its table was right. The value is now defined by halving (`Runs`), and `RootAssumption` says what the table must be.
The buffer of `Shake` could double ten times in the model and any number of times in the code: `Grown` has no such limit now. The part of the stream the samplers' specification
looks at (`Far`) left out the sign bytes, and nothing said that these hold a sign for every draw, nor that they lie in the first digest
of `mldsa_min.py`, whose reader lengthens its digest once a read: `SamplersAssumption` says so now.

**Recursion.** The library's induction theorems take a predicate as a parameter and cannot be cited. For a set of naturals
induction is derived (`LEMMA Induction`) from two facts of the library without such a parameter, that `<` is well founded and that a
well-founded relation has minimal elements. With it come the fact that the recursive function under `FlattenSeq` exists and what it
builds, that a range of numbers has a largest element (`Max`), and that counters which do not decrease are bounded by the last.
In `ReferenceProofs` and `HintProofs` the same gives one pair of lemmas for every loop written as a recursive function (`Recursion`: it exists and takes the values its
definition says; `RecursionUnique`: it is the only one), from which sums, shifts, powers of two, what a rejection loop keeps and the packed hint get their equations.

What is only model-checked, and why:

* liveness (`RunEnds`, `AllServed`, `SamplingEnds`, `SigningEnds`), which is beyond the prover, as is ENABLED;
* `RuntimeIsTheCore`, `RegisteredIsTheKey`: they compare what two concrete programs or texts compute, by recursion over both;
* the refinement of the interface under `KeyLife`, see above.

## 5. What is not modelled

* The Keccak permutation itself (the constant operators and the histories of `Sponge` stand for it,
  and `F1600Build` runs small cores of the same idioms); jumps and encodings of the
  assembler; gas, memory expansion and stack limits.
* How four lanes share a word in a running loop: the models work on lanes, the theorems at
  the end of `FormalProofs` take a word apart.
* Profiling counters and the benchmark variants in the libraries (`nttFwV2`,
  `macOne` and the like), which tests alone call.
* `formal/acvp/keygen_build.py`: two files written one after the other with no lock (listed as a hazard); the
  test of the digest that follows refuses every mixture, also the one a crash between the writes leaves.
* The order of the three deployments and their resumption from environment variables.
* The rest of `hypotheses.py` (tripwires on rows, citations, counts): comparisons of text with text.
  `AxiomCheck` follows one level of used lemmas and leaves out the `--print-*` options. A save during a
  Lean check is what hypothesis row FV.3 assumes away; the model allows one, and only a stale file that
  nothing imports can then mask a weakened statement, which the pins of `source_pins.py` cover.
* Edits of the tests outside the digests after a campaign: nothing in the code could notice them.
* The transforms of the Python reference (products are taken in the ring), its benchmarks and the
  ZK parameter sets; of `pk_from_sk`, only that it raises.
* The second half of `fx_common.py` (download and distillation of ACVP data), the fixture builders, the Halmos
  driver, tests, artefacts and CI: deterministic generators, sequential drivers or data.

Reasons per component are in `PROJECT.json`.

## 6. Plan

Done, in order of importance: challenge sampler, hint decoder, helper, callers,
verifier pipeline and interface; campaign; fixture cache; lane arithmetic; row
product; UseHint; z decoder; key preparation and registration; the helper's build; the Python reference with its
samplers; the rounding lemmas; the suite, its audit, the Lean check and the attribution check; the obligations as theorems.

Proved since: the callers of the helper, the z decoder, the bounds of the row, its transforms and its encoding, the campaign, the suite with its audit, the Lean check and the
attributions, each from its own inductive invariant; the signature scheme of the reference, with its ring and its packings; its samplers.
