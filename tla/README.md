# A verification development for torqus

torqus (`src/`) is a header-only C++20 library for TFHE, homomorphic encryption
over the torus. This directory holds TLA+ models of its parts, the instances of
them that TLC checks, and theorems about them that TLAPS proves for every value
of the parameters.

The question behind all of it: *when is the answer a program gets out of torqus
the answer it asked for?* A ciphertext carries its message plus noise. Gates,
bootstraps and key switches each add to the noise, decisions are taken on noisy
values, and nothing in the types of the library says how noisy a value is, which
resolution it is encoded in or which bit it stands for. Around this core are a
thread pool, meant to run the independent chains of a circuit in parallel, and
an analysis that tracks noise bounds beside the program.

Paths below are relative to `src/include/` unless they start with `src/`.

## 1. The system

| Part | State | Operations | What has to be right |
|---|---|---|---|
| **ThreadPool** `tfhe/utility/thread_pool.hpp` | `workers_`, `tasks_`, `stop_`, under `mutex_` and `cv_` | constructor, `submit`, `worker_loop`, destructor | no task lost or run twice; every future ready; no lost wake-up; the destructor drains the queue and returns; inline mode is synchronous |
| **Cipher** `tfhe/cipher/cipher.hpp` | a variant, Lwe (ready) or ExtractedLwe (pending) | construction, `materialize`, `ready`, `pending` | a key switch happens once and only when needed |
| **Boundary** `tfhe/cipher/boundary.hpp` | pointers to runtimes and keys | `lift`, `drop` in both shapes | what is lifted is dropped |
| **Dial** `tfhe/cipher/dial.hpp` | a torus value | encode, `index`, `margin` | nearest slot, in word arithmetic |
| **Gates** `tfhe/gate/` | none | HomAnd, HomAndNot, HomOr, HomXor, some with a fused key switch | the linear part lands on the right side of the bootstrap's decision, with room for the noise |
| **Reslot** `tfhe/operation/bootstrap/reslot.hpp`, `tfhe/circuit/reslot.hpp` | pointers to keys | `exec` | In/2 noisy copies still decide right |
| **BinaryExpansion** `tfhe/circuit/binary_expansion.hpp` | pointers to keys | `exec`, `exec_slot`, `materialize` | one-hot output for any H; noise independent of depth |
| **GateBootstrap, BlindRotate** `tfhe/operation/bootstrap/`, `tfhe/math/modswitch.hpp`, `tfhe/utility/testvector.hpp` | the accumulator of the loop | mod switch, rotation, CMux rounds, extraction | the negacyclic signs, the rounding, and the output forgets the input's noise |
| **ExternalProduct, gadget, KeySwitch** `tfhe/structure/gadget/`, `tfhe/operation/` | none | decompositions and products with key rows | balanced digits recompose; bounded error |
| **Noise analysis** `tfhe/operation/evaluator.hpp`, `tfhe/utility/analysis/` | four maps from heap addresses to bounds | `Evaluator::exec` with and without tracking, policies | a tracked bound is a bound, for the object that is there now |
| **Runtime, PublicRuntime, Cryptor, keys** | a shared secret, keys | key generation, encrypt, decrypt | fresh noise is bounded; keys belong to one secret |
| **Serialization** `tfhe/serialize/`, `tfhe/transport.hpp` | a byte buffer and a position | write, read | round trip; a truncated buffer is refused |
| **SecretHolder** `tfhe/utility/secret_holder.hpp` | shared secrets, locked memory | create, share, wipe | wiped with the last holder |
| **Algebra, Primitives** `algebra/`, `primitive/` | buffers; words | ring and vector arithmetic, residues, torus words | wrap-around, aliasing, expression templates |
| **Random generation, SIMD, build** | — | — | not state the rest depends on, beyond bounded noise |

How they interact: everything is by direct call. A program makes keys through
`Runtime`, encodes with `Dial`, lifts through `Boundary` to a `Cipher`, and hands
it to gates and circuits, which hold raw pointers to the keys. A gate is linear
arithmetic and a `GateBootstrap`; a bootstrap is mod switches and a `BlindRotate`;
that is a chain of `CMux`es, each an `ExternalProduct`. `Evaluator` wraps any
operation and, with the tracking feature, calls a policy that reads the entries
of the operands and writes the result's. The only concurrency in the library is
the pool; `src/DEVELOPING.md` says it is not wired to any operation yet, and
`binary_expansion.hpp` is written so that its slots can be farmed out to it.

Which behaviours are hard is the list `hazards` of `PROJECT.json`, each at its line.
In short: the pool's shutdown, wake-ups and nested submissions; noise that must
not pile up over the depth of a circuit; the rounding, carries and sign changes
of discretised phases; trackers that know an object only by a heap address which
other objects take over; and in-place operations that no tracker sees.

## 2. Modules

```
 TaskPool  <-- refines --  ThreadPool  <- MCThreadPool, ThreadPoolProofs

 Gates, Powers  <- SharedLemmas                   (phases, decisions, arithmetic)
   ^  ^--- Evaluation      <- MCEvaluation
   |  ^--- BinaryExpansion <- BinaryExpansionProofs
   |
 BootstrapPromise  <-- refines --  BlindRotation  <- MCBlindRotation, BlindRotationProofs

 Words, Powers  <- Ciphertexts, Digits  <- BootstrapRound  <- MCBootstrapRound
 Words          <- BulkArithmetic       <- MCBulkArithmetic
 BootstrapRound, BulkArithmetic  <- BootstrapRoundProofs
 Powers <- Dial  <- MCDial, DialProofs

 HandOff  <-- refines --  Serialization  <- MCSerialization
 Evaluation, Serialization  <- EvaluationProofs

 NoiseTracking  <- MCNoiseTracking, NoiseTrackingProofs
```

The gates and circuits are checked against *one-step* bootstraps
(`Gates!GateBootstrap`), and that one step is in turn what the detailed bootstrap
in `BlindRotation` is shown to implement. So the two levels fit together: what
`Evaluation` assumes of a bootstrap is the abstract specification of `BlindRotation`.
One level further down, `BootstrapRound` has the ciphertexts, keys and digits
behind one round of `BlindRotation` and behind a key switch, and checks the two error
bounds that the levels above take as constants. `BulkArithmetic` and `Dial` are the
machine words underneath. `Powers` has the powers of two, as a recursive function about which
facts can be proved; every shift of the modules that are proved about is one of its values.

### ThreadPool, TaskPool

One action per step between two synchronisation points. Where a lock is held
around a single access (`submit`'s push, the destructor's `stop_ = true`), taking
the lock, the access and the unlock are one action, enabled when `mutex_` is free.
`worker_loop` holds the lock over several steps, so it has several actions:
`Lock`, `Test` (the predicate of `cv_.wait`), `Park` (unlock and sleep, atomic in
`cv_.wait`), then `Exit` or `Take`. `submit`'s `notify_one` is outside the lock and
is an action of its own, `NotifyOne`; other threads may run in between. Worker
threads start one by one (`Spawn`) while the first ones already run.

| TLA+ | Code |
|---|---|
| `tasks_`, `stop_`, `mutex_` | the members; `mutex_` names a holder only when it is held across actions |
| `pc[w] = "waiting"` | asleep in `cv_.wait`; the set of these is the condition variable's wait set |
| `phase[t]` | where a task is and, once settled, what its future holds |
| `current`, `Below` | the stack of a thread; inline, a nested `submit` is a frame on top of its caller |
| `owner` | the thread that runs constructor and destructor |
| `Worker = {}` | `num_threads == 0` |

A task's body is the pool's environment: it may submit tasks, throw, or wait for
the futures it got. The destructor starts when no *client* uses the pool any more,
as for any C++ object, but tasks queued or running may still submit, after
`stop_` is set as well.

`TaskPool` is the promise: tasks start once and in order, their futures become
ready, the pool closes when none is left.

### Gates, Evaluation, BinaryExpansion

`Gates` sees a ciphertext as its *phase*, an integer number of units of which a
turn of the torus has `8 * U`. A phase is the message plus all noise so far, so the
noise is really there, accumulates, and takes part in every decision. Each source
of noise (`Fresh`, `Boot`, `Switch`, and `Drift` for the mod switch's rounding) adds
any value up to its bound. The four gates are the affine maps of their
`exec_impl`; `GateBootstrap` answers `mu` or 0, by the half circle the phase is in.

`Evaluation` is a program: wires (variables of type `Cipher`) to which lifts,
gates, Reslots and `materialize()` are applied in any order and depth, with each wire
usable as operand many times and as destination again. Two ghost variables say
what a wire is *meant* to carry and at which resolution, which the code does not
record. The preconditions on operands are the library's own (`ready()` throws on a
pending `Cipher`) or the gates' contract (booleans at resolution 4).

`BinaryExpansion` interleaves the steps of all slots in any order. `exec()`, which runs
them one after the other, is one of these orders, a pool that runs `exec_slot()` in
threads is the others.

### BlindRotation, BootstrapPromise

The bootstrap in exact integer arithmetic modulo `2^qbit`: the mod switch of every
coefficient with its rounding and its carry into a full turn; the test vector;
`rotate` with the sign of every wrapped coefficient; one `CMux` per secret bit, with
an error polynomial added by its external product; extraction of coefficient 0 and
the offset. The accumulator is represented by its phase, on which all of this but
the external product is linear. `BootstrapPromise` is `Gates!GateBootstrap` as a
specification with one step.

### BootstrapRound, Ciphertexts, Digits

`Ciphertexts` is ring arithmetic and the cryptors: polynomials are functions on
`0..N-1`, a TLWE or TRLWE is a record of `a` and `b`, a TRGSW a function from its `2l`
rows to TRLWEs. `Digits` is the arithmetic of `gadget_repr.hpp` and of the key switch's
decomposition, with both words: shifts wrap in the torus's (`Limit`), a digit in
`UInt`'s (`UIntLimit`). `BootstrapRound` puts them together:

| TLA+ | Code |
|---|---|
| `MakeKey` | one TRGSW: `bootstrap_key::generate`, `trgsw::encrypt`, or its public encryption |
| `Encrypt` | the input, by the secret or by a sum of a public key's samples |
| `MultiplyLevel` | one level of `ExternalProduct`'s loop, on `cand1 - cand0` |
| `AddBack` | the end of `CMux` |
| `Extract` | `SampleExtract` of any coefficient |
| `SwitchCoefficient` | one turn of `KeySwitch`'s loop, with the key samples it reads |
| `Represent` | a torus value taken apart by every decomposition, and put together again |

What an engine draws is an input: secrets are any bits, errors are +1 or -1, alternating along
a row, masks of a key's rows are fixed and all different. Nothing in the properties depends on
their distribution.

### BulkArithmetic, Words

`+=` and `-=` of a `Poly` or `Vector`: `LaneStep` is one turn of the loops in `add_lanes` and
`sub_lanes`, a group of `width` elements loaded, computed and stored together, with the
lane's own formulas; `ScalarStep` is the loop over what is left, with the element type's
operator. `alias` is `p += p`, where a lane reads what an earlier one may have written.
`hardware` is the build's choice. `UInt` has no lane and its operator throws; `Throw` leaves
the loop with part of the buffer written. Contents are any raw values, as the constructors from a range or a
buffer (`interpret_as`) reduce nothing. The modulus of a `ModInt` is any that the assertion in its `operator+=`
lets through (`AddAsserted`). `Words` has the three element types. (`BulkInit`,
`BulkNext`, `BulkSpec` carry the module's name, as its proof stands beside `BootstrapRound`'s.)

### Dial

The constructor's long division one quotient bit at a time (`Divide`), any noise at all
(`Disturb`), and `index()` with its three branches: a shift, a product in one word, a product
from two halves with carries. `uint32_t` is `half` bits and `uint64_t` is `2 * half`; branches are
chosen by the same comparisons as in the code.

### Serialization, HandOff

A `Serde` writes the scalars of a value one behind the other and nothing else, however deep the type is nested, so
a type is the sequence of its scalars, and `Times`, `Vector`, `TLWE`, ... put such sequences together in the order of
the `Serde`s' loops. A scalar is the number of bytes of its raw value and the modulus its constructor reduces by. No type or
length is written, so a reader stays in step only because both sides derive the same lengths from the
type. `Write` appends the bytes of a value, little end first, `Release` hands over the buffer or a prefix of it,
`Read` is one `read<T>` with every check of `require` on the way, and stops inside a value where one fails. Constants are the bits of
a byte (`Octet`), the two word widths (`Narrow`, `Wide`) and what may be handed over (`Handed`). `HandOff` is what a
transport promises; `DirectTransport` is it as it stands. (`SerializationInit`, `SerializationNext`, `SerializationSpec`
carry the module's name, as its proofs stand beside `Evaluation`'s.)

### NoiseTracking

`identity()` of an object is the address of its first buffer; `db_` has one map from
addresses to entries per tracker type and nothing is ever removed. `Place`s are the
variables of a program that makes objects (with tracking or without), applies
operations (with or without), copies, moves, destroys and adds in place. Buffers are
freed and reallocated. `err` is a ghost: the object's actual noise when all of its
history was tracked, else `None`. `Policy` is the formula that `noise.hpp` and
`variance_noise.hpp` share, with the coefficients they compute from the parameters as
constants (`Worst`, `Average`); `exec_impl` is what the operation does to the noise, by
its own code and not by the policy.

## 3. Runs

Every property of a passing run has a mutant in `PROJECT.json`: a plausible bug in the
mapped definition, under which TLC finds the property violated.

| Run | Instance | Distinct states | Shows |
|---|---|---|---|
| `pool_threads` | 2 workers, 2 clients, 4 tasks; 2 tasks submitted by tasks, whose submitters wait for them, one throws, one client collects its futures; 1 spurious wake-up | 11 900 | all safety properties, and refinement of `TaskPool`, futures and destructor live unless waiting tasks hang the pool |
| `pool_inline` | no worker, nesting three deep, three of four tasks may throw | 293 | `InlineIsSynchronous` |
| `pool_inline_throw` | the same, one task may throw | — | a disagreement of code and comment, see section 7 |
| `evaluation` | 3 wires, `U = 6`, every noise source 1, resolutions 2 and 4 | 10 600 | values survive any program; noise depends on the shape alone |
| `expansion` | `H = 3`, every input, fused or not, `U = 6` | 306 000 | prefix matches, one-hot output |
| `blind_rotation` | `qbit = 6`, `N = 4`, `n = 2`, all `b`, 7 mask values, all keys, mu = 1/4 and an odd mu, errors of ±1 | 265 000 | loop invariant in all coefficients; implements the gates' bootstrap |
| `tracking` | 3 places and 4 addresses for TRLWEs and TRGSWs, 2 and 3 once keys or LWEs occur | 58 000 | tracked bounds hold, for noise and key trackers; the inductive invariant |
| `bootstrap_round` | `N = n = 2`, torus of 10 bits, gadget of 3 digits base 4, key switch of 4 digits base 4; every secret, both bits, three ways to make the key; 10 decompositions of every torus value | 204 000 | digits, external product, CMux, extraction and key switch keep the phase, within worst-case bounds |
| `wide_torus` | the same with a `UInt` narrower than the torus | — | a disagreement of code and comment, see section 7 |
| `bulk` | words of 3 bits, 3 elements, lanes of 2; `UInt`, torus words of full and partial width, residues with and without modulus | 1 618 000 | lanes and tail agree, aliased or not, also on unreduced values except in a `ModInt` lane |
| `dial` | 4 and 8 bit words, torus of 3 to 8 bits, 10 resolutions, every value and noise | 30 600 | division exact; `index()` is the nearest slot in every branch |
| `serialization` | 9 sequences of types covering every `Serde`, each with 3 contents; words of 2 and 3 bytes of 2 bits, all bits used, fewer, and a modulus that is no power of two; truncation at every byte | 1 300 | reader in step; implements `HandOff` |

Why these bounds are enough to be interesting:

* *Pool.* Two workers are the fewest with which one can be asleep, or take the
  other's wake-up. Two submit chains let a running task submit after `stop_`. Four
  tasks are more than workers, so the queue grows. Tasks are not symmetric (they
  submit each other), so no symmetry is used. `MaxSpurious` bounds the spurious wake-ups of a
  behaviour: with no bound a worker could be woken for ever, which the standard
  allows and which would make liveness a question about the operating system.
* *Evaluation.* `U = 6` is a tight budget: `2 * LweNoise + Drift = 5 < 6`, one more unit
  breaks it. So an extra key switch, or an operand's noise let through, shows at
  once. The state space is finite because phases stay bounded, itself a property here.
* *Expansion.* 3 is the least `H` that is not a power of two and needs two bits: there is
  an input (3) that matches no slot, and a bit order to get wrong.
* *Blind rotation.* `N = 4` and `n = 2` give two rounds, rotations by 0, by less than, exactly
  and more than `N`, and the masks include values that round up to a full turn and
  values half-way between two steps.
* *Bootstrap round.* `3 * 2 < 10` bits leaves a rest to round, and `Decompositions` has the case
  without a rest and the full width of the word. Two coefficients are the fewest with
  which a product wraps with its sign. Masks make digits take both signs, and 1016 is near the
  top of the torus, where the rounding wraps. In `wide_torus` the key switch has fewer, larger digits so that its key's
  shifts still fit the narrower `UInt`, and only the gadget's digits are in question.
* *Bulk.* Three elements in lanes of two: one lane and a tail of one. Values include 0, the
  greatest residue, the modulus itself and above it, and the top of the word.
* *Dial.* `half = 4` keeps every value and every noise in reach. The resolutions are powers
  of two, and numbers below and above one; the tori are on both sides of `half` and at both ends of
  a word, which decides the branch and the cases inside it.
* *Serialization.* Packed values of different widths, so that a reader that is out of step
  reads something that is there, but is not the value; no two neighbouring scalars are the same, and
  some have their highest bit set.
* *Tracking.* One more address than places, so that a result never has to wait for a free
  buffer and freed addresses come back under other objects. `MaxBound` cuts off computations that add up for ever.
  Places are interchangeable, and so are addresses: symmetry is used, and no
  temporal property is checked in these runs.

Deadlock is checked in all runs but `pool_threads`. Where a model ends, it ends in an explicit state
(`Destroyed`, `Done`) that stutters, so a bootstrap or an inline pool that gets stuck is a
deadlock and an error.

A pool with workers may really get stuck, when tasks wait for tasks they submitted (`thread_pool.hpp:96`, documented
nowhere): each waiting task occupies a worker, and it takes as many of them as there are workers, or just one when the
others have left because the queue was empty when `stop_` was set. `pool_threads` reaches both, with the pool alive and
in its destructor, and so has `CHECK_DEADLOCK FALSE`. `Hung` is what it looks like: something is queued and every worker
that has not left is held by a waiting task. `HangsOnlyWhenAllAwait` says that there is no other way: whenever no
thread can go on by itself and a task is left, the pool is `Hung`. A lost wake-up would stop it with a worker
asleep, and tasks waiting in a circle with an empty queue. The liveness properties have `Hung` as their one exception: a
queued task's future becomes ready and a destructor returns, or the pool is hung; and `TaskPool`'s fairness holds
unless it stays so.

### Fairness

`ThreadPool` is the only model with liveness properties. `Fairness` is weak fairness for
each thread's own steps: a worker in its loop, a thread inside `submit` or running a task,
the destructor between `notify_all` and the end of its joins. This is what an operating system
that runs every runnable thread gives. Nothing obliges a client to submit, to leave,
or to destroy the pool. It includes that a task's body ends, if it need not wait. `mutex_` needs no strong fairness:
each time it is taken a task, a wake-up or a worker is used up, and all three are finite, so
a thread waiting for it sees it free for good in the end.

## 4. Proofs

All proofs are by TLAPS, from the assumptions named, with nothing omitted.

**ThreadPoolProofs** — for any finite, non-empty set of workers and any clients, tasks, submitters,
throwing and waiting tasks: `TypeCorrect`, `PoolInvariant`, `TasksInOnePlace`,
`AllAwakeForShutdown`, `DestructorDrains`. None of the properties is inductive alone.
`PoolInv` adds where each thread may be, given the destructor's state (`PlacesOK`), and
`ShutdownOK`, whose heart is: *if anything is queued, some worker has not left.* It
holds because a worker leaves only when it finds the queue empty under the lock, and
from then on only a task running on another worker can submit. `DestructorDrains`
follows: when all workers have left the queue is empty, and a running task would need a worker that has
not left. `AllAwakeForShutdown` rests on `stop_ => pc[w] # "park"`: as `stop_` is set under `mutex_`, no
worker can be between its test and its sleep at that moment.

`WakeupsNotLost` (`NoLostWakeup`) — the invariant `WakeInv` adds that the workers and notifications
*on their way* are a finite set and that a worker about to park has seen an empty queue, which is still
empty because it holds `mutex_`. A push adds a notification to come; a notification that meets a
sleeper turns into a worker on its way; a worker on its way that leaves without a task saw the queue
empty.

`RestsOnlyWhenAllAwait` (`HangsOnlyWhenAllAwait`) — that no worker sleeps at rest is `NoLostWakeup`, as nobody is on the way. That
something is queued needs `Rooted`: of any set of submitted tasks, one was submitted from outside the set. It is inductive because a task is
submitted by a client or by one that is running, and nobody was submitted by a task not submitted yet. If the queue
were empty, the running tasks, finitely many, would each be waiting for another of them; then each of them was submitted by one of
them (`NoCircle`, by counting), against `Rooted`.

`StepsKeepPromise`: `Spec` implies `TaskPool`'s `Safety`, its initial states and steps, by one
case for each of the promise's actions. `InlineRunsBeforeReturn` — for `Worker = {}`:
`StackInv` says that each running task hangs on one *root*, the client at the bottom of its stack,
that a frame has at most one running child and the top one none; so a client that is
back has nothing running above it. It holds for any depth of nesting.

**BootstrapRoundProofs** — for every word, torus, ring dimension, gadget, key switch, key, message and mask
that `BootstrapRound`'s assumptions admit; of the constants of the gates, which come in with `SharedLemmas`, no theorem
here uses any.

*Digits.* `DigitsAlwaysStand` (`DigitsStandForTheirValue`), from `DigitsStand`, the same about the operators. The heart is `CutDigits`, by induction over
the digits: the digits that shifting and masking take from `w`, side by side again, are `w` below a turn less what the last
one leaves out (`LeadingDigit` is its step). The offset and the rounding are added before the cut and wrap in the word, and the offset is taken off after;
as wrapping loses whole turns (`LosesTurns`) all that remains is the rounding less what was cut off, at most half of it either way
(`RoundOf`, `RoundedIsNear`). `DigitStored` shows that a negative digit is recovered from its `UInt`.

*Types.* `RoundTyped`: `RoundInvariant` says that every coefficient is a torus value, that a key has its
`2l` rows, and that each loop starts on a fresh accumulator and keeps its counter within its bound.

*Key switch.* `SwitchAlwaysKeepsPhase` (`SwitchKeepsPhase`). Distances are on the circle: `Within(x, y, b)` says that
`x` and `y` differ by at most `b` up to whole turns, and is shown to survive sums, differences and multiples. A phase is an
inner product (`TLWEDecryptIs`), linear in the ciphertext, so a turn of the loop moves it by the noise of
`t` key samples times their digits and by the rounding of one coefficient (`SwitchedIs`). Property and types alone are not inductive:
`PhaseKept` compares the accumulator not with the target but with what is still to be switched of it
(`Still`), which loses exactly the coefficient of this turn (`StillIs`), and holds at first because extracting is itself free
of error (`ExtractKeepsPhase`).

*External product and CMux.* `RoundAlwaysIsCMux` (`RoundIsCMux`), under `UIntCoversTorus`: the values of a `UInt` are whole
turns of the torus, so the `Torus` is no wider. Without that the property is false and the run
`wide_torus` shows it. The algebra is that of the ring: `Product` is the exact product with `X^N = -1`; products commute
(`ProductsCommute`, by exchanging two sums over one table of coefficients), are linear (`ProductOfSum`), and are as far apart as
their factors are (`ProductWithin`). So a phase is linear (`PhaseLinear`), and adding a product of a ciphertext adds
that product of its phase (`ProductKeepsPhase`). Three facts make up the invariant `RoundKept`: while the key is in use its rows
are encryptions of zero and the scaled bit, whichever of the three ways made it (`KeyRows`, `KeyMade`); after `i` levels the
accumulator's phase is the bit times what the first `i` digits stand for (`Multiplied`, with `Part`), up to `i` levels'
noise; from then on the CMux has chosen (`CMuxHolds`). The property speaks only of the last
moment, so it cannot be inductive; `Multiplied` relates the accumulator to the digits that have been used. A level adds its digit's
polynomial times two rows (`LevelPhase`), which is one more term of `Part` (`PartNext`) as products swap; all `l`
terms are the polynomial itself up to the gadget's rounding (`PartAtLast`, from `BalancedNear`).

*End to end.* `AlwaysDecryptsToChosen` (`DecryptsToChosen`), under the same condition, adds that the input stands for the message
up to two errors, encrypted with the secret or with a public key (`InputKept`), and that rotating is multiplying by a monomial
(`RotateIs`, `MonomialRotates`), so a rotated ciphertext has the rotated phase (`RotatedPhase`). At the end nothing is left to be switched,
and the bounds of input, CMux and key switch add up (`KeptSuffices`).

*In bulk.* `BulkIsExact`, of `BulkArithmetic`, on the same words as the round, for any lane width and length, any
torus width that divides the word (`FitsWord`), and any contents, reduced or not: `ExactSoFar` always
holds, provided that every modulus has room for one addition (`Addable`). `BulkAssumption` asks only for what the code asserts, so
that is a hypothesis of the theorem; without it the property is false (section 7). The lemmas are about
one element: wrapping in the word and then in the torus is wrapping in the torus, as a word is whole turns
(`WrapKeepsTurn`, `TorusExact`); one conditional subtraction or addition reduces a sum or difference of residues
(`ResidueExact`), and the operators' constructors reduce first (`ResidueOfAny`); the lane's formulas give what the element type's do (`LaneExact`,
`ScalarExact`), on values of a `ModInt` that are reduced. Which elements that concerns, `AtLane` settles: lanes start at multiples of
their width, so they reach no further than the whole lanes do (`LaneInside`). `Advances` lifts
them to a group of elements, where aliasing matters: what a lane reads at `j` was not written before,
whichever buffer it comes from.

**SharedLemmas** — what the proofs below have in common. *Induction*: the library's theorem takes the
property as an operator, which the provers cannot instantiate, so a property is written as the set of the
numbers that have it, and `Induction` is proved from the well-foundedness of `<` (`LeastNatural`).
`RecursionExists` gives a recursive function on the naturals its equations; from it come those of powers of
two, of sums (linear, split, and exchanged), and of `Dot` and `InputValue`. *Remainders*: what `%` and `\div` return is unique. *Gates*: under
`GateBudget` (`2 * LweNoise + Drift < Eighth`) each linear part on operands within their noise is
decided rightly, whatever the errors are.

**EvaluationProofs** — under `GateBudget`, and `ResolutionBudget(r)` for every resolution in use:
`TypeCorrect`, `NoiseBounded` (a wire's noise is bounded by its shape, at any depth),
`ProgramsReadRight` (every wire drops to its value). The invariant is `NoiseStaysBounded`
with the types and the ranges of values; the budgets are what a parameter set has to meet, and
the theorem says that they suffice.

*Transport.* For any width of a byte and of the two words, and any types and values handed over whose moduli fit their words and whose
scalars are reduced: `SerializationCorrect`, `ReaderStaysInStep` (`ReaderInStep`) and `TransportKeepsPromise`
(`HandsOffUnchanged`), that `Serialization` implements `HandOff`. `ReaderInStep` alone is not inductive: it speaks of
positions and not of contents. `SerializationInvariant` adds that every value written stands in the buffer at the offset its
predecessors' sizes add up to (`Stands`), that what arrives is a beginning of that, that the values read are the ones
written, and that a reader that threw stands at the first value that is not all there. The argument: a word is
the sum of its bytes (`WordComesBack`, which peels off one byte at a time with `RemainderByProduct`); writing and reading
go through the same offsets (`WrittenIs`, `ReadIs`, over the recursive functions whose equations `LoopExists` gives);
sizes of values add up and only grow (`FirstSteps`, `FirstGrows`), so how many values arrive whole is determined by
where the buffer ends (`EndLiesBetween`, `WholeIs`), and the reader throws exactly there.

**BinaryExpansionProofs** — under `GateBudget`, for every `H`: `ChainsCarryPrefixMatch`, whose
strengthening is that the inputs keep their own noise bound (`InputsBounded`), and `OutputIsOneHot`: once
every slot is done, slot `h` reads 1 exactly when `h` is the input. It takes the prefix match of a whole chain
and that two numbers with the same bits are the same, by induction over the bits.

**BlindRotationProofs** — for every width of the torus, `N`, `n`, mask, key, test vector and error of a
round within its bound: `AccumulatorTurns`, the loop invariant, and `BootstrapKeepsPromise`, that the
detailed bootstrap implements `BootstrapPromise`. The invariant `Inv` adds to it the types and that the mod switch has been
done coefficient by coefficient (`Switched`). The argument: turns of the test vector add up
(`TurnsAdd`), with its sign once around (`Opposite`), so a round's CMux turns the accumulator by the mask's
coefficient or leaves it (`RotateTurns`, `TurnedBy`); a mod switch is off by at most half a step
(`ModSwitchRounds`), the steps sum to `(n + 1) * half` (`DotDrifts`), and what has been turned by in the end is the
phase up to that (`TurnedIsPhase`). A coefficient of the test vector is `+mu/2` or `-mu/2` by the half circle it is
in, so the extraction decides as the promise does on a phase that has drifted
(`FarIsInFarHalf`, `DecisionDrifts`). The
promise's steps are the model's last one; every other step leaves it as it was.

**DialProofs** — for every `half`, every torus in words of `half` or `2 * half` bits, and every number of slots
up to `2^half - 1`: `DivisionExact`, `IndexNearest`, `MarginSurvives`. `Inv` adds the types and, after the
noise, where the value came from. *Division*: remainder and quotient keep `quotient * resolution +
remainder = raw * 2^i`; as the quotient has no more than `i` bits (`QuotientBits`) and the
difference of the doubled remainder and the divisor is back in the word, no wrap loses anything. *index()*: each branch against the
rounded product in unbounded arithmetic (`ShiftIsNearest`, `ProductIsNearest`, `HalvesIsNearest`). For the third,
`HighAndLow` shows that the two halves and both carries make up the whole product, and a bound on the high
word that the final shift drops none of it. *margin()*: the value's rounding loses less than one slot's share, which is less than
what the margin leaves.

**NoiseTrackingProofs** — for every parameter set, number of places and addresses:
`TrackingInvariant`, `TrackedBounds`. `TrackedBoundHolds` is inductive only with `OwnBuffers`: no two objects share a
buffer and an empty place has none. Without it an update for one object could lower
the entry of another. The freshness of a result's address is what lets a stale entry be overwritten
before anybody can ask for it.

Model-checked only:

* liveness (`EveryFutureReady`, `DestructorReturns`) and the fairness part of `KeepsPromise`: liveness
  and ENABLED are out of the prover's reach.

Every invariant and every other property of a passing run is stated by a theorem.

## 5. What is abstracted, and what is not modelled

* **Values of tasks**, and a `std::thread` that fails to start in the constructor
  (the earlier threads are joinable, so the program terminates).
* **Distributions.** What the random engines draw is any value up to a bound or one of a few fixed
  ones; `random` itself and the seeding are not modelled.
* **Probability.** The library chooses noise from a Gaussian. In the models it is any value up to a bound, and
  what is shown is conditional on the bound. The variance policy is modelled as it computes,
  but that it gives the variance of the result, which needs independence, is not claimed: `Add(c, c)` has
  four times the variance of `c` and the policy says twice.
* **Floating point** of `exact_bound.hpp`: bounds are integers in the models.
* **In-place addition** is in `NoiseTracking` as a step that no tracker is told of. The entry of
  the object stays as it was, so its bound may be wrong afterwards; the property speaks only of objects all
  of whose history was tracked.
* **Object lifetime and ownership.** `Boundary`, `Reslot` and `BinaryExpansion` keep raw pointers to keys; some default
  constructors leave them uninitialised, a `Boundary` may lack one of its secrets, a moved-from `Runtime` has none.
  Using such an object is undefined or a null dereference, with no state after it to check; the models'
  objects hold what they point to. `SecretHolder` is a `shared_ptr` with a destructor that wipes: all counting is the
  standard library's, all locking of memory the operating system's.
* **`dbl::Torus`** and the encryptions of a `double`, **`proxy.hpp`**'s evaluation of longer expressions in one pass, and the **vector
  instructions** behind a lane: a lane is modelled by the formula its comment and scalar fallback state.
  `ModInt`'s product by a `UInt` and comparisons have no use in the operations modelled.
* **Parameters' derivation** of noise constants (`Worst`, `Average`) from `N`, `n` and the bases.
* **The build, tests and documentation**: no part of the running program.

## 6. Plan

1. *Done.* The pool, with its promise and proofs of both, inline and with workers; the gates, programs, the one-hot circuit; the
   bootstrap and that it is what the gates assume; noise tracking.
2. *Done.* The arithmetic of words: digits, `Dial`, bulk operations with their proof.
3. *Done.* Ring arithmetic: external product, CMux, extraction and key switch on ciphertexts, showing that
   `BlindRotation`'s and `Gates`' bounded errors are bounds.
4. *Done.* Serialization, with its proof and that it is what a transport promises.
5. *Left.* The fused expressions of `proxy.hpp`, as a rewriting of one pass into single operations; the
   derivation of the noise policies' constants against `BootstrapRound`'s bounds; `dbl::Torus` as scaled integers.
6. *Done.* The proofs about `BlindRotation`, its refinement, `Dial`, the one-hot output, and `BootstrapRound`: digits, types,
   external product and CMux, key switch, and the value decrypted at the end.

## 7. Where code and documentation differ

`thread_pool.hpp` says of `num_threads == 0` that `submit()` runs the task inline and returns
an already-ready future, so that callers need no fallback of their own (l. 24-28). If the task throws, it does not:
`run_and_fulfill` has no `try`, the exception leaves `submit()` and there is no future. With worker threads
the same exception is stored in the future. The run `pool_inline_throw` shows it with a task nested two deep.
`InlineIsSynchronous` holds nevertheless, for every nesting of throwing, catching and returning tasks.

`gadget_repr.hpp` computes digits in the torus's word because a torus may be wider than `UInt`, and says that
only the final result, "always < Params::B", narrows down to `UInt` (l. 25-30). A balanced digit may be
negative, so it wraps at `UInt`'s width, and `operator*(UInt, ModTorus)` extends it to the wider word with zeros
(`primitive/torus.hpp:221`). The external product is then no longer one. The run `wide_torus` shows it on a whole
CMux. With both words of one width the product is right for every digit (`bootstrap_round`).

Smaller things met on the way, not the subject of a run:

* `dial.hpp:155` calls `margin()` the largest noise that `index()` still resolves; at exactly half a slot the rounding goes up,
  so it is the least that it may not. `SurvivesNoiseBelowMargin` is stated for noise below it. From `2^31` slots on, its
  `2u * Resolution` wraps.
* `ModInt`'s `operator+=` asserts `mod <= max() << 1`, "mod is too large for addition" (`primitive/modint.hpp:54-55`). A right shift
  was meant: every modulus but the very last passes, and above half the word's range the sum of two residues overflows the
  word and is not reduced to theirs. The class comment takes moduli "up to Word's full range" for usable (l. 12-16).
  `BulkIsExact` has the right bound as its hypothesis, and the moduli of the run `bulk` keep to it.
* A vector made by `interpret_as` may hold raw values of the modulus or more: `ModInt`'s lanes rely on reduced ones,
  while the scalar tail and the torus's lanes reduce. `ExactSoFar` is stated accordingly.
* `trgsw::encrypt` encodes only the constant coefficient of its message.
* `UInt{1} << Bbit * (j + 1)` is out of range when `Bbit * l` is the width of `UInt`, and so is the shift of
  `key_switch_key.hpp:53` for a torus wider than `UInt`; both are assumptions of `BootstrapRound`.
* `noise.hpp` refers to `docs/noise_bound_proof.md`, which the repository does not have.
