# Verification of terraform-provider-burnham

The provider is a library of 191 pure functions for Terraform in 18
families, with no resources, no data sources and no configuration. Terraform
evaluates a function in a goroutine, often several at once, once or more while
planning and again while applying; it may cancel a call's context at any time,
and while planning an argument may be unknown in whole or in part. What the
provider promises is stated in `docs/index.md`: every function is pure, and the
output always matches apply.

Most functions are a conversion around a library. The parts with behaviour of
their own, and where a unit test sees least, are

1. three engines compiled from Rust to WebAssembly, which share global state
   between concurrent calls (regex, typst, resvg);
2. a library whose option is a global variable (slugify);
3. somebody else's program run under limits (jq);
4. options read in Go's random map order, unknown values, and two evaluations
   that must agree (every family);
5. arithmetic on machine words with carries, borrows, shifts and loops that end
   at the edge of an address space, and allocations from a pool (network);
6. values, expressions and keys that leave one function as another's argument:
   the converters between Terraform and Go, the trees of three expression
   languages, tokens and key texts, words, DER (transform, dataformat, cel, oel,
   promql, cryptography).

Those are modelled here. Sections: [inventory](#inventory),
[modules](#modules-and-the-code), [runs](#runs), [fairness](#fairness),
[proofs](#proofs), [findings](#what-the-models-found),
[what is not modelled](#what-is-not-modelled), [plan](#plan).

## Inventory

Paths are below `src/internal/provider/`; lines are of Go without tests. "State"
means state that outlives a call.

| Family | Lines | State | Operations | What makes it correct | Modelled |
|---|---|---|---|---|---|
| regex | 478 | `runtime`, `compiled`, `initMu` | `pcre_*` through `runOp` | set up once whatever fails; own reply, own memory; module closed last | `WasmEngine` |
| documents | 540 | the same three | `typst_pdf/png/svg/html` through `callWasm` | as above; page envelope | `WasmEngine`; envelope no |
| image | 641 | `runtime`, `compiled`, `initOnce`, `initErr` | `svg_render`, font bundles | as above, but the set-up's error is kept | `ResvgEngine` |
| text | 1157 | `slugifyMu`, the library's `Lowercase` | slugify, parse_kv, dedent, wrap, qr_ascii, cowsay, levenshtein, normalize | own case for every caller; global restored after a panic | `Slugify`; options |
| transform | 1200 | none | jq, jmespath, jsonpath, jsonata, json_patch, json_merge_patch | output complete or an error; always ends; numbers survive | `JqRun`, `Values` |
| network | 3545 | none | address arithmetic, CIDR sets, NAT64, NPTv6, enumeration, notation, idunno | exact sums; checksum neutral; list is a partition; no address given twice; round trips | `IpArith`, `Nptv6`, `CidrBlocks`, `CidrSets`, `Nat64`, `Idunno` |
| encoding | 752 | none | base32, base64, hex, URL | round trip; lenient padding | options |
| dataformat | 6031 | none | 21 codecs, conversion from and to Terraform values | round trip; depth bound; number width | `Values`; options |
| cel | 2344 | none | encode, decode, format, validate, evaluate | round trip of the tree | `Cel`; options |
| oel | 1396 | none | the same for Okta's language | round trip of the tree | `Oel`; options |
| promql | 1311 | none | the same for PromQL | round trip of the tree | `PromQL`; options |
| cedar | 932 | none | the same for Cedar | limits | no |
| color | 1317 | none | conversion, mixing, schemes, contrast | floating point; options | options |
| compression | 302 | none | brotli, zopfli | range checks | options |
| identifiers | 648 | none | uuid_v5, uuid_v7, nanoid, petname | determinism | options |
| cryptography | 3542 | none | JOSE, ASN.1, X.509, PKCS#7, PEM, HMAC, HKDF, RFC 1751 | order of checks; budgets; bit packing | `Jose`, `Asn1`, `Rfc1751`, `Values` |
| geographic | 406 | none | geohash, Plus codes | guards at poles and antimeridian | no |
| numerics | 2142 | none | statistics, bit operations, rounding, Pi | exact integers, rounding | `Numerics` (mod_floor) |
| optionsutil | 185 | none | `SingleOptionsObject`, `NumberAttrToInt`, `AttrToGo` | one contract for options | in `PlanApply`, `Values` |

`provider.go` lists the functions of the families and `main.go` serves them; their
`Configure` is empty. `cmd/gendoctemplates` and `numerics/cmd/genpi` are run by
hand. The Rust shims under the engines' directories are compiled ahead of time and
embedded; for the models they are the code behind an exported function.

How the parts interact. Families do not call each other. All of them use the
plugin framework's values and `optionsutil`; every family has its own copy of
`hasUnknown` or a relative of it. The three engines hold the same per-call code
three times, over wazero. `gojq` is called by transform only, `gosimple/slug` by
text only. The only state shared between concurrent calls is that of the
first four rows of the table.

What is hard:

- *Concurrency*: a double-checked set-up whose globals are read without the lock
  afterwards (`regex/engine.go:95`); a `sync.Once` with somebody's context
  (`image/resvg/renderer.go:36`); a swap of a global (`text/slugify.go:122`).
- *Failure*: any step of a set-up or of a call may fail, with deferred clean-ups
  that must match what was acquired.
- *Ordering*: a map's order; a search for unknown values ahead of the parser; the
  order of the checks of a token, and which of two key blocks comes first.
- *Long chains of legal calls*: an allocation after another, a value that crosses
  four converters, an expression decoded, edited and encoded.
- *Limits*: depth and node budgets that are checked on the way in and on the way
  out by different code.
- *Timeouts*: jq's deadline racing the program's last value.
- *Edges of machine integers*: wraps, `uint64(-n)` of the smallest integer, shifts
  beyond the width, one's complement's two zeros.

`PROJECT.json` lists them as hazards, each at its line with the properties aimed
at it.

## Modules and the code

### Embedded engines: `WasmCall`, `WasmEngine`, `EngineService`, `ResvgEngine`

`WasmCall` is the pipeline of one call, common to `runOp` (`regex/engine.go`),
`callWasm` (`documents/typst/engine.go`) and `Render` (`image/resvg/renderer.go`):
`Instantiate`, `Put` for each input, `AllocOutLen`, `Run`, `Collect`, `Decode`, and
`Unwind`, which runs one deferred clean-up at a time, last first. `deferred[c]`
counts the registered defers, `held[c]` the buffers allocated and not freed,
`mods` the modules not closed. Every call into wazero may fail because the
caller's context is done or by one of `MaxFaults` host faults; a dealloc under a done
context is refused and ignored, as in the code. `CloseOnDone` tells the engines
apart: regex and typst configure `WithCloseOnContextDone`, resvg does not. What a
module answers is what was written to *its* memory (`written[ModuleOf(c)]`), so
that two calls sharing a module would be seen to mix their requests.

`WasmEngine` puts `ensureCompiled` in front: `Lock`, `Check`, `InstantiateWASI`,
`CompileModule`, the two writes of the globals as two actions, and the deferred
`Unlock`. The regex and typst packages hold the same code; `Inputs` is 3 for regex
(pattern, input, replacement) and 1 for typst. `EngineService` is the promise
with none of that: a call gets the reply its own request deserves, or a fault if
it was struck itself, and returns. `ServiceSafe` and `ServiceSpec` state that
`WasmEngine` implements it, `busy` being the callers that are not idle.

`ResvgEngine` puts a `sync.Once` in front instead.

### slugify: `Slugify`

One action for each step: the limit on the text (`Call`), an option visited (`Visit`, in any order), the lock, the copy
of the global, the swap, the library's call (which reads the global and may
panic), the two defers. A slug is represented by the case it was made in.

### jq: `JqRun`

One call: `Arguments`, `Parse` (which arms the deadline), `Compile`, a loop in which
the program emits any value, ends, fails, or does nothing for ever, and `Convert`.
`Interrupt` is the deadline or the caller's cancellation at any point, `Notice`
gojq's look at its context. A value is its depth and whether its numbers are
finite: those decide whether the result can be represented. The depth limit is
applied by `normalizeFromGojq` per value and by `jsonToTerraform` to the list of
them, one level deeper.

`Calls` puts the two side by side: any number of calls of slugify, or one of jq.

### Network: `IpArith`, `Nptv6`, `CidrBlocks`, `CidrSets`, `Nat64`, `Idunno`, composed in `Network`

`IpArith` has `IPAdd` and `IPSubtract` on pairs of words that wrap, with the carry
read off the wrapped sum; a behaviour is a chain of `ip_add` calls, each parsing
the last one's text again (`ParseAddr` unmaps IPv4-mapped addresses). `Nptv6`
carries a host between sites with `nptv6_translate`, folding end-around carries as
the code does. `CidrBlocks` is `cidr_enumerate` and `cidr_expand` as loops, with
`int64` shifts of any distance, and the two counts. `CidrSets` is the use of
`cidr_find_free` its documentation describes: `Allocate` hands out a subnet that
joins the used list of the next call, `Release` and `Retire` take one off it, and
`cidr_merge`, `cidr_subtract` and `cidr_intersect` rewrite the pool in between; the
yes-or-no functions are asked about each answer. netipx's sets are external: a
set of addresses, its aligned blocks, and *some* free block. `Nat64` writes the
octets of an IPv4 address under a prefix with the u-octet left out, reads the
answer back in its mixed notation, and embeds whole blocks. `Idunno` cuts the bits of
an address into code points by the first layout that gives valid ones and enough
confusion, and decodes them; the Unicode tables are a parameter. `Network` runs
the six side by side: they share no state, and a behaviour is about one of them.

### Options and unknown values: `OptionTable`, `PlanApply`

Every function with an options object (all but jq's and the two of JOSE) is a record
in `OptionTable`: the keys it knows, the parts it searches for unknown values
before reading any, and how its reader treats a wrong type, a null, an unknown, a
zero value. Each record is read off the function's `Run` and its parser.
`PlanApply` evaluates a call as Terraform does: `Begin` (the search, then the form of
the options), `Visit` for each part in any order, `Finish`; first with the
arguments as the plan sees them, then with the known ones. An evaluation answers
"unknown", refuses, or settles a set of settings.

`Exposed` is the set of functions that are called with arguments known in part.
Terraform answers itself for a call whose argument is unknown as a whole, unless
the parameter allows it; the comment at `dataformat/convert.go:35` says that
unknown values *inside* an argument do reach `Run`, and the functions that search
are written for it.

### Values through the converters: `Values`

A value is a Terraform value (null, unknown, number, collection, object) or what a
library sees. `Values` has the four converters that turn one into the other
(`transform/convert.go`, `dataformat/convert.go`, `cryptography/jsonvalue.go`,
`optionsutil.AttrToGo`) with their limits on depth and nodes, their order of tests
on numbers and their treatment of nulls and unknowns. A value is a function from paths
to items: a path is the keys on the way from the root, positions among them, and an
item is a scalar or says that there is a sequence or a mapping. The recursive walks of the
code are then a statement about all items, a limit on depth one about the lengths of
the paths, and a tag of a property list a mapping with two certain keys. The functions of
the code that walk a whole value are `Each` with what they do to one item (`...Leaf`). A
behaviour starts with an
argument or with a decoded document and hands each call's result to the next
call, of any family; a library that merely passes the value on is the identity on
what it saw (`sight`), which makes the two conversions around it visible. Numbers
are counted in halves, with a float of `FloatBits` bits and an integer of `Int64Bits`,
so that every rounding of the 53 and 64 bits of the code happens. A date or data is the text
it was given in, and `Spelling` what the code writes for it: UTC to the second, unbroken
base64. A property list's integers are unsigned unless they are negative, as its library
gives them, and its dictionaries may look like the code's own tags. Units of rounding go up to
the square of an integer's range (`Units`); the infinities are left out.

### Expressions: `Tree`, `PromQL`, `Oel`, `Cel`, `Languages`

`Tree` is the data tree and its way to Terraform and back (`nodevalue.go` and
`convert.go` of each family, which differ in a guard). `PromQL`, `Oel` and `Cel` each
have both directions between a tree and the AST of the library: node by node the
shapes encode accepts, and the shape decode gives, in CEL's three notations.
`Languages` is a configuration that edits an expression: a text is decoded, its data
put into more data (`Splice`, or beside an unknown), and encoded, and `meant` is the
AST of what the user means, put together with no conversion. The parsers and
printers are libraries, taken as inverses; a text is what the parser makes of it (`IsParsed`).

The code works by recursion over trees. `Stages` has that recursion once, as a function: the
results for all parts of a tree at a stage come from those of the stage before, and there are as
many stages as the tree is high (`Height`). Each recursive function of the code is an instance
of it with the code's step (`PromBuildNode`, `CelTreeNode`, ...), which is what allows theorems
about these modules.

### Tokens, words, DER, indices: `Jose`, `Rfc1751`, `Asn1`, `Numerics`

`Jose` signs a token with any key argument, lets it arrive altered, and verifies it
with any key argument and options. Signatures are symbolic: what signed what. Key
arguments are lists of PEM blocks, since the code's three walks over them differ in
what they accept; a JWK is a key that went through one of them and back.
`Rfc1751` packs blocks into words of eleven bits and back, byte by byte, a byte being
the set of its bits; `Typing` is the person in between, who respells, mistypes, drops
or swaps words. `Asn1` is the recursion of `asn1_decode`: the input is the sequence of
its values, each with the level it lies at, `opened` the number of `decodeChildren`
calls that have not returned, and `nodes` the one counter they share. A value is
read, or a call returns because its bytes are used up. `Numerics` wraps an index with `mod_floor`, whose operations
round to `Prec` bits.

### Composition: `PureFunctions`

The functions outside the network family share no state, so `PureFunctions` runs one
chain of calls at a time: `Values`, `Languages`, `Jose`, `Rfc1751`, `Asn1`, `Numerics` or
`PlanApply`, the others idle. `MCPureFunctions` puts their instances together.

## Runs

| Run | Module | Shows | Bounds, and why they are enough |
|---|---|---|---|
| `wasm_engine` | `WasmEngine` | The globals are published whole, once and for good (`PublishedIsUsable`, `NoRuntimeLeak`, `PublishedForGood`), a caller's fault is its own (`FaultsAreOwn`), memory and modules are released in order (`ModuleOutlivesUse`, `DeallocsAreOwed`), and the engine implements `EngineService`, every call returning included (`ServiceSpec`) | Two callers (one sets up, one waits or has passed), one host fault besides any number of cancellations. One input, as typst has; with the two words of the result that still makes several allocations, so a call fails before, between and after them. Three inputs, as regex has, are left to the proofs, which hold for any number |
| `resvg_once` | `ResvgEngine` | The once-function is all or nothing (`OnceIsAllOrNothing`) and releases its waiters (`CallsReturn`) | Two callers, one fault |
| `calls` | `Calls` | *slugify*: `OwnCase`, `RestoredWhenFree`, `CallsReturn`. *jq*: `CompleteOrError`, `ErrorsAreEarned`, `CallReturns` | Two callers of slugify: a race needs two; all combinations of text and options. A limit of two values and of depth three for jq: below, at and above each limit occur |
| `network` | `MCNetwork` | Sums are exact (`OffsetsAddUp`), refused only outside the space (`FailsExactlyOutside`), undone by `ip_subtract`; `ChecksumNeutral`, `RoutesAgree`; a listing is a partition of its block and refused only when too long (`ListIsPartition`, `ListingDecides`); no address is handed out twice and the questions about an answer agree with it (`AllocationsDisjoint`, `QueriesConfirm`); `ExtractUndoesSynthesize`, `CidrFormAgrees`, `DecodeUndoesEncode` | Words of 4 bits instead of 64 or 16: every carry, borrow, double fold and both zeros occur; every start and every offset of an `int64`; three sites, so that two routes exist; an `int` of 6 bits with an IPv6 wider than it, as 128 is wider than 64; 2 IPv4 and 4 IPv6 addresses with up to 3 subnets, so that a pool splits, fills up and mixes families; real octets and every prefix length for NAT64; addresses whose chunks reach every code-point length, under two Unicode tables |
| `functions` | `MCPureFunctions` | *Values*: every number is rounded at most once in a chain (`RoundedAtMostOnce`), an unknown part makes the answer unknown (`UnknownNeverConcrete`), what a function returns its family can read (`ReturnedIsReadable`), a property list is written as it was read but for what is below a second in its dates and for dictionaries that look like tags (`PlistDocumentReturns`). *Expressions*: `EncodedAsMeant`, `StoppedForAReason`. *Tokens*: `ValidExactlyWhenSigned`, `JWKVerifiesTheSame`. *Words*: `KeyRestoredOrNoticed`. *DER*: `WholeTreeWithinLimits`. *Indices*: `WrapsAddUp`. *Options*: `KnownPlanIsFinal`, `RefusalIsFinal`, for the 41 functions that read all their options | Chains of three calls over trees up to one level past each limit; a float of 3 bits and an integer of 6, so that a number can be below, between and above them, and a fraction can round to a whole number past the integers; every node of each language near its depth limit, edited twice; one token and one verification; blocks of their full 64 bits, each bit alone; DER below, at and above both limits; all whole numbers of 4 bits; any two options given, in both orders, with every kind of value (options are read independently of each other, so pairs show every order effect) |

`CHECK_DEADLOCK FALSE` is set where a behaviour ends: a call is over (`calls`,
`functions`, the listings of `network`) or no offset fits. Seven more runs show the
disagreements below: `resvg_latch`, `cidr_shift`, `cidr_free`, `option_order`,
`number_precision`, `jwt_alg`, `promql_returns`. Type invariants are proved for seven modules (see below) and left
out of the runs, where they would be the least that is checked.

Every property has a mutant: a definition of the code changed the way a slip
would (a dropped lock, a defer that became a statement, a limit off by one, a carry
that is not seen at zero, a search that does not enter lists) with which TLC finds
the property violated. They are the definitions introduced by "Mutant of" or "as a
bug".

## Fairness

- `WasmEngine`: weak fairness of each caller's own steps (a runnable goroutine runs;
  wazero calls return, with an error once the context is done), strong fairness
  of `Lock`: `sync.Mutex` turns to hand-off when a waiter has starved for a
  millisecond. Nothing is assumed of Terraform: it need not call or cancel.
- `ResvgEngine`: weak fairness is enough, since `Do` releases its waiters for good.
- `Slugify`: as `WasmEngine`; the library returns or panics.
- `JqRun`: the code's own steps, the armed timer, and gojq's look at its context.
  Nothing is assumed of the program, which is the point.
- `Network`, `PureFunctions`: no liveness; their loops are bounded by construction.

## Proofs

TLAPS checks the following for every value of the constants under the modules'
ASSUMEs. A `_proofs` module EXTENDS the component it is named after, or, where several
components share one, all that it speaks of.

**`NumberLemmas`** - what the proofs about numbers rest on. The prover has no induction over
an operator, so these lemmas look at a least counterexample: a non-empty set of numbers
in an interval has a first element (`FirstPosition`). Powers of two are positive, add their
exponents and grow with them (`PowerType`, `PowerSum`, `PowerOrder`), shown through the
number of subsets, which doubles with each element. `StepwiseExists`: a function that is
defined by its value at 0 and a step exists, which is what allows a recursive function to
be unfolded.

**`WasmCall_proofs`** - lemmas about one call that both engines share: each step keeps the
types, touches only its own caller's part, leaves the verdict the request deserves
(`AnswerStep`) and keeps `deferred`, `held` and the label in step (`MemoryStep`).

**`WasmEngine_proofs`** - any set of callers, any number of inputs and faults. The
invariant `IInv` has three parts besides the types. `SetupInv`: whoever is inside
`ensureCompiled` holds the lock; `compiled` is nil while anyone builds; an open
runtime is published or being built; once `compiled` is set, the engine is usable.
That `compiled` is written last is what makes the unlocked reads safe, and the
invariant is where this appears. `OutcomeInv`: the verdict is open until a step
failed or the envelope was read, and the memory answered from holds the
caller's request. `MemoryInv`: `deferred` and the label determine each other, and
each registered dealloc still has its buffer. From it: `AlwaysUsable`,
`NeverLeaks`, `ModuleSafe`, `DeallocSafe`, `OwnFaults`, `PublicationIsFinal`, and
`ImplementsService`, the safety part of the refinement (each action maps to an
action of `EngineService` or to a stutter).

**`ResvgEngine_proofs`** - any set of callers and faults. Its `SetupInv` is the other
discipline: one caller runs the once-function, everyone else waits or is past it, and
what it leaves is either a runtime with its module or an error and nothing. From it
`AlwaysOnce`, `CallsAnswerForThemselves` (the properties of `wasm_engine`, for renders) and
`OnceIsForGood`: what the set-up left no later step changes. That the error is kept as
faithfully as the runtime is the finding `resvg_latch`.

**`Stages`** - one theorem, `StageIs`: the stages of a recursion exist and are what the
definition says. It is by a least counterexample, and asks for the least element of a set of
numbers as a hypothesis, which `Calls_proofs` has from `NumberLemmas`.

**`Calls_proofs`** - the two calls of several steps outside an engine, and the chains of an
expression, which are the calls whose proofs need their trees built in stages.

- *slugify*: any number of callers. `LockInv`: inside the critical section
  the lock is held, the saved copy is the library's own setting, and the global
  differs from it only between swap and restore. `ParseInv`: what was visited was
  good and taken over. From it `AlwaysOwnCase`, `AlwaysRestored`, `OnlyTheHolderSwaps`.
- *jq*: any limits. `JqInv`, at the end of `JqRun`. `Kept`: until it answers the call has
  kept all that was emitted; `Checked`: past a phase its arguments were good. From it
  `AlwaysComplete` and `AlwaysEarned`. `EitherIsSafe` says the four properties of the
  specification that the run `calls` checks.
- *expressions*: any text of the three languages, notation, limit, and number of splices.
  What a stage makes of a tree depends on the tree alone, not on what it lies in, once the
  stage is past its height (`Makes` for CEL, `PromGood` and its like for the others say it
  of a tree "wherever it is"): this takes the place of induction over trees. Language by
  language, building what decode gives of a node gives the node again, in each of CEL's
  notations, or nothing for a reason that is named; going to Terraform and back changes no
  tree within the limits. The contexts of `Splice` keep both. `LanguagesInv`, at the end of
  `Languages`: what is meant is an expression of the language, the text is what is meant,
  and data is a tree that decode could have given of it or holds an unknown. From it
  `EncodedIsMeant` and `StopsForAReason`.

**`Network_proofs`** - all twelve properties of the run `network`, component by component.

- *Address arithmetic*: any even word size that has room for the IPv4 space and the
  mapped block. `Add4Exact` and `Add6Exact` show that the wrapped sum with its carry
  or borrow is the exact sum or an error exactly outside the space; the invariant
  adds that a chain that began in IPv4 stays there. From it `ChainsAddUp`,
  `FailsOnlyOutside`, `SubtractIsInverse`.
- *NPTv6*: any word size, prefixes and sites. `FoldTwice` (two rounds of
  folding reach a word), `AdjustedFacts` (the new subnet balances the difference of
  the prefixes and is never the word of all ones) and `SameResidue` (two
  subnets other than that word with the same residue are equal). The invariant keeps,
  for each site, that the subnet it gave balances against the origin (`SeenInv`):
  without it, that two routes agree is not inductive. From it `AlwaysNeutral` and
  `RouteIndependent`.
- *Listings*: addresses of any width and an `int` of any size, provided that the width,
  with the limit's bits, is a number an `int` holds (`WidthAssumption`; 128 and 64 in the
  code) and the limits are shorter than an `int`. `ShiftFacts` says what a shift by any distance
  leaves in an `int64`, `PieceFacts` that the i-th piece is an aligned part of the block; the
  invariant, that the list is the first pieces and the loop stands at the next. From it
  `ListsAreWhole` and `RefusalsAreRight`.
- *Allocation*: address spaces of any size, any sequence of allocations, releases
  and rewritings of the pool, and whichever free block the library prefers. `PoolFree`:
  what the pool reaches is the caller's and not retired; `UsedApart`, `RetiredApart`,
  `Across`: no two subnets in use or retired overlap. `AnswerIsFree` is the step:
  an answer lies in the pool outside the used list. From it `NeverTwice`. Two aligned
  blocks meet only if one holds the other (`AlignedBlocksNest`), which is what the overlap and
  containment functions decide from the ends of their blocks: `QueriesAreRight`.
- *NAT64*: any octets and any prefix. The octets are placed where they are extracted from
  (`PlacedIsExtracted`); the mixed notation, which replaces the longest run of zero groups, is
  read back (`BestRunExists`, `CutAndJoined`, `ReadsBack`): `ExtractIsInverse`. Masking an octet
  keeps its high bits (`MaskKeepsBits`), so the embedded block holds what it should:
  `CidrFormIsRight`.
- *idunno*: any address, and any table of what is valid. A code point is its bits
  (`BitsToIntFacts`), a padded chunk gives back its chunk (`PaddedQuotient`, `PaddingFacts`),
  whatever the encoder's order of layouts, and the decoder, who sees only the code points,
  finds the same bits in all of them (`ChunkBits`, `AllBitsFacts`): `DecodeIsInverse`.
- *The composition*: `FamilyIsRight` is about the specification that the run checks, in which
  one component moves while the others rest. Each component's proof is used where it
  runs, and where it rests its properties hold of the resting state. `Nptv6` needs a site
  and a top word for that, which its assumption states.

**`PureFunctions_proofs`** - the functions outside the network family. First the four
properties of `Values`, for values of any size and shape, limits
of any height, floats and integers of any width and chains of any length. Since values
are functions from paths, the proofs speak of an item and what it lies in, and need no
induction over trees.

- *Numbers*: a number has one unit (`UnitIs`); rounding gives a multiple of the unit,
  and what is one is not rounded again (`NearUnitAgain`, `NearFacts`), so a number rounded twice is rounded
  once, in whatever order the families do it.
- *Items*: in each family an item that was known stays what it was, its number perhaps
  rounded (`Same`), through each function on the way; hence a value keeps all its
  items (`Kept`).
- *Lists*: `jq` and `jsonpath_query` put the value into a list. `InsideBy` says that a value
  is in another below n lists of one element; it is what the chain's invariant carries,
  since `Kept` alone is not inductive.
- *Tags*: what a decoder of property lists makes of an item is read again as that item
  (`ReadFrom`), a tag in the result was a tag in the argument or a dictionary that looked
  like one, and its kids are found only below it.
- *Calls*: each of the thirteen functions is shown to carry its argument (`Carried`), and what it
  returns to be readable by its family. `ValuesInv` is the conjunction over a chain, with
  the walk that finds an unknown (`OpenIsFound`). From it `ValuesRoundOnce`,
  `UnknownsStayUnknown`, `ReturnedIsRead` and `PlistsReturn`.

`ValuesAssumption` says what a chain may start with: an item lies in a sequence or mapping
that is there too, a Terraform value has Terraform's kinds of items, a document those
that the plist library gives: booleans, strings, dates, data, floats, signed and unsigned
integers, arrays and dictionaries, of any keys, those of a tag among them; and what is written
for a date or data is written so again. Left out are the UIDs of keyed archives and infinite
numbers, which are refused. How that library writes a `*big.Int`, which is what an integer
past an `int64` has become, is its own.

Then the others:

- *Tokens*: any set of keys, key texts, headers, claims and times. A key text is a
  sequence of blocks, and of each kind the first block counts (`FirstIsFound`); a verification
  finds the signer's key exactly when that comes first (`VerifierIsSigner`). The invariant
  says that a signed token carries the signature of what was signed. From it
  `TokensAreValidAsSigned` (an equivalence: neither too many nor too few) and
  `JWKsVerifyTheSame`.
- *Words*: keys of any length. Bytes are sets of bits, so `Extract` and `Insert` are set
  operations (`ExtractIs`, `InsertIs`). The sums of pairs of two buffers differ by what the
  buffers differ by (`SumsDiffer`), and one bit weighs one or two, never a multiple of
  four: `ParityTells`. `KeyInv` keeps that the phrase and the restored key are the answers of
  the two functions. From it `KeysComeBackOrSlipsShow`.
- *DER*: any input, depth and number of nodes. `Asn1Inv`: the nodes made so far are the
  values passed, all decodable; the next value lies no deeper than the calls that are
  open; `nodes` is the number of values passed, which needs that all calls share it. From it
  `WholeTreesWithinLimits`, and `StackIsBounded`, which `asn1MaxDepth` is there for.
- *Indices*: any precision. The quotient is rounded with so many digits that its highest
  bit is set (`QuotientScale`), so for numbers with a bit to spare rounding never reaches the
  next whole number (`QuotientIsExact`), and the remainder of a sum is that of the summands'
  remainders (`SumOfRemainder`): `WrappedAsAdded`.
- *Options*: any table that is `Honest`: no loop returns in its first
  iteration, a function exposed to unknown parts searches all of them, and searches
  inside lists wherever a list could be accepted. `Answered` says why an evaluation
  gave the answer it gave (for each of the two views of the arguments), `InProgress`
  how far one has come; two evaluations that settle or refuse do so from parts that
  are equal in both views (`ShownAsGiven`). From it `PlansAreFinal`,
  `RefusalsAreFinal`. That the provider's table is honest is an `ASSUME` of
  `MCPlanApply`, which TLC evaluates on the real records in the run `functions`.
- *The composition*: in `PureSpec` each family's part of a behaviour is a behaviour of its
  own specification (`FamiliesRunApart`), and a family that does not run has nothing to answer
  for (`IdleIsSafe`): `PureFunctionsAreSafe` is about the specification that the run `functions`
  checks, with eleven of its properties; `FamiliesRunApart` carries the two about expressions
  over from `Calls_proofs`, which is a module apart for the size of its proofs.

Type correctness is proved for `WasmEngine`, `ResvgEngine`, `Slugify`, `JqRun`, `IpArith`,
`Nptv6` and `PlanApply`; the other components' inductive invariants begin with the types of
their variables.

Every safety property that a passing run checks is proved. Only model-checked is liveness
(`CallsReturn`, `CallReturns`, the liveness part of `ServiceSpec`): ENABLED is beyond the
prover.

## What the models found

- `resvg_latch`: a first `svg_render` whose context is cancelled while the engine is
  set up disables the family for the process (`image/resvg/renderer.go:36`), which
  the comments of the other two engines give as the reason not to use a
  `sync.Once`.
- `cidr_shift`: `cidr_enumerate` with `newbits` 63 on an IPv6 block panics, from 64
  on it answers an empty list (`network/iputil/iputil.go:506`), instead of the
  error its description promises.
- `cidr_free`: `cidr_find_free` takes lengths up to 128 for an IPv4 pool as well; netipx then
  reports success with the zero prefix, and the answer is the text `invalid Prefix`
  (`network/iputil/iputil.go:621`), where `cidr_find_free.md` promises null. A later call
  that has it in its used list is refused. `QueriesConfirm` is about the answers that are CIDRs.
- `promql_returns`: "for any valid query q, Encode(Decode(q)) equals Format(q)"
  (`promql/decode.go:16`; `promqldecode.md` says the same). `NaN` is a valid query, and
  `promql/nodevalue.go:26` lacks the guard of its two siblings: decoding it ends in a panic
  of math/big. An `@` beyond 10^15 seconds and a tree past the depth limit, which is
  counted on the way back, do not come back either. `StoppedForAReason` says that there is
  nothing else of this kind.
- `option_order`: the one-option functions of the color family stop at the first
  option the map yields (`color/scheme.go:124`): a second key they do not support
  is refused or not by chance, so that an apply may fail after its plan.
- `number_precision`: a number of a result is parsed into a `big.NewFloat`, which has 53
  bits (`transform/convert.go:202`), so that an integer that a query merely extracts is
  rounded beyond 2^53, which `jsonata_query.md` and `jq.md` say it is not.
- `jwt_alg`: the header fields given to `jwt_sign` are merged over the header that holds
  `alg` (`cryptography/jwt.go:108`), which its documentation says is always set from
  the algorithm.

Disagreements with a document that have no run of their own; the properties leave out, or
state, exactly what the code does:

- `plistdecode.md` says that dates "round-trip cleanly back through `plistencode`". A date
  is written with `time.RFC3339` (`dataformat/convert.go:184`), which drops what is below a
  second, and a binary property list's dates have fractions. `PlistDocumentReturns` says that
  a date comes back to the second, `RoundedAtMostOnce` that the offset given to `plistdate`
  is lost after one round.
- `oeldecode.md` and `celdecode.md` promise the canonical form of any expression back, and
  `oel/decode.go:22` that "every node still round-trips". In Okta's language a map with an empty
  key and a built-in without its argument decode and do not encode (`OneWay`); in both
  languages a tree past the depth limit does not (`StoppedForAReason` has the list).

Facts met on the way that no document contradicts:

- `ip_subtract` refuses two IPv6 neighbours on the two sides of a /64 boundary: it
  asks for equal high words.
- `nptv6_translate` does not bring back a subnet of all ones: it writes it as
  zero, as RFC 6296 does.
- jq's errors about a second options object name argument 1, the program.
- slugify, qr_ascii, cowsay, nanoid, petname, the compressors, svg_render, typst_*
  and urlencode do not search for unknown values. With them in `Exposed`,
  `KnownPlanIsFinal` fails. Whether an options object known in part reaches them is
  Terraform's decision, outside this repository.
- `yamlencode` reads `indent` and `flow_level` without a test for a typed null
  (`dataformat/function_yamlencode.go:146`), so that a nil `*big.Float` is used.
  `OptionTable` calls them `unguarded` and no typed null is given to them.
- `svg_render` turns its width and height into `uint32` without an upper bound.
- The PromQL printer adds no parentheses: grouping is what `paren` nodes say, so the
  contexts of `Languages` put an operand in one.
- CBOR is written up to a nesting of 1024 and read up to 256; the results of transform
  have a depth limit and no node limit.
- A fraction just below 2^63 passes `val <= math.MaxInt64` (`dataformat/convert.go:483`)
  and is then converted to an `int64` it does not fit; the evaluators of Okta's language
  and Cedar clamp whole numbers to an `int64`.
- A property list's fractional real comes back as a plain number, not as a tagged one.
- An unsigned integer of a property list that is past an `int64` is read whole
  (`dataformat/convert.go:174`) and given to the encoder as a `*big.Int` (line 306), which
  the library writes in its own way.
- Numbers past an `int64` are kept by every family except where `RoundsPast` and
  `WholePast` say: a fraction that rounds to a whole number at 2^63 or beyond comes back from
  a property list as a tagged real, at 2^63 on amd64 as a negative integer (the item above),
  and a whole number there reaches the evaluators clamped. `RoundedAtMostOnce` leaves out exactly these.
- A dictionary with the two keys of a tag is taken for one: `plistdecode` of a dictionary of
  type "date" whose value is no date gives an object that `plistencode` refuses
  (`dataformat/convert.go:414`). `ReturnedIsReadable` leaves out exactly this, and
  `PlistDocumentReturns` says that it is refused then and only then.
- `mod_floor` of fractions: the quotient is rounded before its floor is taken
  (`numerics/math.go:71`), so a dividend just below a multiple of the divisor, or a
  negative one just above it, can give a remainder outside `[0, b)`: -10^-200 by 1 gives
  1. Whole numbers with a bit to spare are safe (`WrappedAsAdded`, for any precision).

## What is not modelled

- *Libraries*: wazero, the Rust shims, gojq, gosimple/slug, netipx, the parsers and
  encoders. They appear as the choices they give the code.
- *Floating point*: color, pigeon throughput, geohash cells, statistics. TLA+ has no
  floats; `Values` and `Numerics` have just the roundings their properties are about.
- *Text processing without state*: the scanners of .env, .properties, Apple .strings, REG
  and parse_kv, dedent, wrap, base32 and base64 padding, PEM and hexadecimal. Their
  questions are about characters, which a model would have to repeat one by one.
- *Calls into one library*: the codecs other than JSON, HuJSON, NDJSON, CBOR, MessagePack
  and plist, compression, certificates, PKCS#7, HMAC, HKDF, `jwk_thumbprint`, `jwks`,
  `json_merge_patch`, `jsonata_validate`, and all formatting, validation and evaluation
  of expressions, Cedar included, whose policies stay in the library's own JSON.
- *The keys and values of a token* beyond the header's algorithm and the two time claims.
- *Data preparation without decisions*: font bundles, registration, generators.
- *What a function does with its settings*, in `PlanApply`: only that it is a function
  of them. Relations between two options (parse_kv's separators must differ) are
  left out there as well: they are functions of the settings too.
- *Data races in Go's memory model*: the unlocked reads of `runtime` and `compiled`
  happen after the reader's own `ensureCompiled` took and released the lock, so they
  are ordered after the writes; the model's interleaving semantics is adequate.

## Plan

Done, in the order of importance: the engines, slugify, jq, network arithmetic, options;
then values, the network's sets and translations, expressions, tokens, words, DER and
indices; and the proof of every safety property of the runs, and of the compositions. What
would come next:

1. `Cedar`'s converter beside `Tree`.
2. `nanoid`'s stream over hash blocks; percentile positions; two's complement.
3. Liveness, for which a prover with ENABLED is needed.
