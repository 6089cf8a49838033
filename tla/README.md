# opentitan-signing-infra in TLA+

This directory holds a formal model of `hsmtool`, the program in
`src/hsmtool` that makes, uses and destroys keys on a PKCS#11 token, with TLC
configurations that check it on small instances and TLAPS proofs for all
instances. The Bazel rules in `src/signing` that call it are inventoried here
and not modelled.

    tlc -config HsmTool_locked.cfg MCHsmTool.tla
    tlapm HsmTool_proofs.tla
    tlapm HsmStore_proofs.tla   # and the other modules named _proofs

## The system

**hsmtool** is run once per operation, or once with a JSON list of operations
(`exec`). An invocation parses its arguments, may take an exclusive `flock` on
the file of `--lockfile`, loads the PKCS#11 module, opens a session with a
token, runs its command or commands, prints the results and exits. It keeps no
state of its own between invocations: everything lasting is on the token.
Several invocations may run at once: Bazel starts one action per signature, all
with `--lockfile=/tmp/hsmtool.lock` (`signing/util.bzl`), and people run others.

| Component | State | Operations | Correct when |
|---|---|---|---|
| main, lock file, `exec` (`hsmtool.rs`, `module.rs`, `commands/exec.rs`) | the lock, the session, the list of commands and their results | start, lock, connect, run in turn, stop at the first error, print, exit | invocations that lock exclude each other; results match commands; nothing runs after an error; every invocation ends |
| naming (`util/helper.rs`) | none; reads the token | `search_spec`, `no_object_exists`, `find_one_object`, `random_id` | an id and a label stand for one key; a command acts on the object it names or on none |
| key commands (`commands/{rsa,ecdsa,mldsa,slh_dsa,aes,kdf}`) | objects on the token | generate, import (in one or two calls), sign, verify, encrypt, decrypt, export, wrap, unwrap | a success is a whole key; a failure leaves a part of one; a fresh key is the one used next |
| object commands (`commands/object`) | objects on the token | list, show, read, write, destroy; `update` always fails | a success covers every object of the name |
| SPHINCS+ in elementary files (`extra/spxef.rs`, `util/ef.rs`, `commands/spx`) | data objects whose application is `hsmtool-spx:<algorithm>` | generate, import, with `--overwrite`, list, sign, verify, export | a key that was to be replaced is never used again |
| SPHINCS+ in Cloud KMS (`extra/spxkms.rs`) | keys and their versions, on the server | list, generate, sign, verify over HTTP | a rotated key is not used; a signature is in the mode asked for; a verdict is true; a list is complete |
| Acorn binding (`acorn`) | none; calls a vendored C library | version, list, generate, import, sign, verify | each response is copied and freed once |
| secrets and wrapping (`util/secret.rs`, `util/wrap.rs`) | attributes of secret keys | generate, import, export, wrap, unwrap | a sensitive or unextractable key does not leave in the clear, and only an extractable one leaves wrapped |
| data to sign (`util/signing.rs`) and the files of sign and verify | the user's files | `prepare`, `mldsa_prepare`, `spx_prepare`, `mechanism`, `--update-in-place` | an image signed in place verifies; a failed sign leaves it alone |
| attributes and text (`util/attribute`, `util/escape.rs`) | none | `AttributeMap`, `escape`, `unescape`, `as_hex` | what is shown names what it was shown of |
| SPHINCS+ primitives (`sphincsplus`) | none | key codec, sign, verify by C code | PEM files of keys round-trip |
| key files (`util/key`) | the user's files | load, save, convert to attributes and back | a key read is the key that was written, or is refused |
| profiles, `token-list`, certificate requests | none | read, print, sign a DER structure | see "Not modelled" |
| signing rules (`signing/*.bzl`) | artifacts of a build | keyset, pre-signing, sign, attach | each signature is made with the tool, key and input that belong together |

Components interact in three ways: commands call the helpers and the session;
invocations meet on the token and on the lock file; `exec` runs commands one
after the other over one session, so what one leaves on the token is what the
next one finds.

What is hard here: between the search of a command and its last HSM call
another invocation may change the token; a call may fail, take effect and lose
its answer, or be the last before the process is killed; a key made in two
calls may be half there; what is known of a key was read in an earlier call
than the one that uses it; a file is read twice and written in place; text that
was printed comes back as an option; names are pairs of options each of which may be
absent; and a retry meets what the attempt before it left. `PROJECT.json` lists
these hazards, each at its line, with the properties that cover it or the
reason none does yet.

## Modules

| Module | What it is |
|---|---|
| `Token` | objects, the table of commands, what a name selects: the vocabulary of the others |
| `HsmTool` | invocations over one token: one action per HSM call or decision |
| `TokenStore` | what a user relies on: each command takes effect at once |
| `HsmStore` | the refinement mapping from `HsmTool` to `TokenStore` |
| `MCHsmTool` | small instances of `HsmTool` |
| `HsmTool_proofs` | theorems about `HsmTool` for all instances: types, lock, names, handles, what it reports and which key a batch uses next |
| `HsmStore_proofs` | the theorem that `HsmTool` implements `TokenStore` |
| `SpxEf` | the spx commands over elementary files, with the object commands that touch the same objects |
| `SpxEf_proofs` | theorems about `SpxEf` for all instances |
| `SpxKms` | the spx commands over keys of Cloud KMS, one action per request, and the other users of the key ring |
| `SpxKms_proofs` | theorems about `SpxKms` for all instances |
| `SecretKeys` | the ways in which secret values enter and leave the token, one action per HSM call |
| `SecretKeys_proofs` | theorems about `SecretKeys` for all instances |
| `SignFiles` | sign and verify with their files: what is signed, and the image updated in place |
| `SignFiles_proofs` | theorems about `SignFiles` for all instances |
| `KeyFiles` | keys between token and files: encodings, loaders, conversions |
| `KeyFiles_proofs` | theorems about `KeyFiles` for all instances |
| `AttrText` | labels, ids, dates and types as text that is shown, typed and used as a template |
| `AttrText_proofs` | theorems about `AttrText` for texts of every length |
| `MC...` | a small instance of each |

`Token`, `HsmTool` and `SpxEf` abstract what the last three are about: a name is
a value, a file is not looked at. The modules share no variables because the
components do not: each is about other state (token, server, files, text), and
what they have in common, the lock file and the search for a key, is modelled
in full in `HsmTool` and only used in the others.

### Token and HsmTool

An object carries what commands search by: class, key type, id and label. Its
`serial`, the number of the HSM call that made it, stands with the class for
its handle. A random id (`random_id`, 64 bits) is a number never drawn before;
that two draws are equal is not modelled, nor that a user gives an id that was
drawn. `EmptyLabel` is the `""` that `unwrap_or_default` stores when no
`--label` is given. The table of commands says for each one the class and key
type it searches for, and for a generate or import the sequence of calls that
make objects: `RsaImport` makes the public half first and `SlhDsaImport` the
private one, a generated pair takes one call, an import with `--public`,
`--private` or `--unwrap` makes one half. A search by `CKA_SIGN` and the like
is one by class, because the built-in templates give those attributes by class.

`HsmTool` has per process a program counter, the list of commands, the replies
so far, and for the command under way the id it drew, the create calls left,
the handles found and the objects acted on. The counter follows `main`:

| `pc` | code | actions |
|---|---|---|
| `idle` | not running | `Start` |
| `lock` | waiting in `flock` | `AcquireLock` |
| `connect` | `Module::initialize`, `connect` | `Connect`, or `Leave` with an error or after `--show-json` |
| `dispatch` | next command of the list | `Refuse`, `NameIsFree`, `NameIsTaken`, `WriteObject`, `FindAll`, `FindOne`, `Exit` |
| `create` | create calls of generate and import | `CreateObject` |
| `loop` | `for object in objects` of destroy and show | `VisitObject`, `EndLoop` |
| `use` | operation on the handle of `find_one_object` | `UseObject` |
| `exit` | a command returned an error | `Exit` |

`HandleInvalid` is a handle whose object is gone. `CallFails` is every `?`
between two calls, reading and writing of the user's files included.
`AnswerLost` is a call that took effect and reports an error. `Crash` is a
kill at any point; it closes the lock file and leaves the token as it is. An
invocation that gets neither `--profile` nor `--token` has no session, and
its commands answer `SessionRequired`. The session of one that has a token is
made with or without a login (`--user` is optional); only the former is
modelled, a session that sees the private objects of the token.

Left out: templates given by the user, which may set any attribute but for
some commands also id and label; `object-read --search`; the search for a
wrapping key; `object-list`, which names nothing; the files commands read and
write. A table of commands is one definition per command: the rest of a
command's code, its templates and conversions, is abstracted by it.

### TokenStore

The store changes by whole commands: `Make`, `Write`, `Destroy`, `Show`, `Use`
succeed in one step on the store as it is; `Reject` names the error and the
fact about the store that explains it; a command that fails or is killed has
done nothing or a part (`Partial`): the first of two create calls, or some of
the destroys. The mapping in `HsmStore` hides what is made by a create under
way and keeps in the store what a destroy under way has removed, so that a
command takes effect when it returns.

### SpxEf

A file is a data object with label, application and key. The search of
`generate` and `import` (`SearchFree`), the single `create_object`
(`WriteKey`), the two searches of `load_key` (`FindFile`, by label, then
`FindAgain`, by label and application) and the read of the value (`LoadKey`)
are steps of their own, and so are the parts of `spx-list` and
`object-destroy`. Keys are numbers or the content of an imported file; the
signing domain, which this backend hands to the signature function unchanged,
is left out. `WriteFile` is `object-write` by label: a file of any application,
`hsmtool-spx:...` included, and of any content, put under a label without a
look at what lies there; a file of ours whose content is no key makes `LoadKey`
fail. The properties are about what holds in spite of that. The history variable
`latest` is the key last stored under a label none of whose files was destroyed
since, by whichever command; `made` are the files that `generate` and `import`
made, which are the ones `AtMostTwoMade` counts. Left out: an `object-write`
under an id alone, whose file has no label; `spx-list` calls it `<unnamed>` and
fails to load it.

### SpxKms

The server keeps for each key a template (the algorithm of its next version)
and its versions in order, each pending, enabled or disabled. `CreateOther`,
`SetTemplate`, `Rotate` and `SetState` are other users, `Generated` the server
finishing a version. A command is the sequence of its requests: `versions`
(`get_key_version`, the last usable one of the first page), then `publicKey` or
`asymmetricSign` by the version chosen, or `createKey`; a list is `keys`, then
`versions` for each key of a supported template, then, as `spx-list` asks
`get_key_info` for each entry, `versions` and `publicKey` again. `Fails` is a
request that fails, `Answer(p, "Error")` in `CreateKey` and `AsymmetricSign` an
answer that is lost after the request took effect. `steady` and `known`
remember what stayed true since a command began, because that is all a command
of several requests can promise. That the server lists versions in the order
made, and the keys of the ring on one page, is assumed of it; that a page of
versions has an end is modelled (`PageSize`), so `UsesNewest` holds of keys
within a page only. Noted while modelling: a key without a usable version makes
every `spx-list` fail; the `hash` of `--id` is ignored; after a `createKey` whose
answer was lost a retry is told that the key exists.

### SecretKeys

Each action is one call of the HSM. An object is its attribute map. `from_object` is three actions (`GetInfo`,
`GetAttributes`, `GetValue`), and what `export`, `wrap`, `show` and `read`
decide is decided on the map it has put together. `FindWrapper` is the search of
`wrapping_key` or `unwrapping_key`; the handle it finds is used by the next call,
`WrapKey` or the unwrap in `CreateKey`. Between any two of these steps `Change`,
another program, may make a key sensitive or unextractable, give it another
label, or give or take its use for wrapping and unwrapping. What `wrap` can
promise of the wrapping key is therefore that it bore the name given and might
wrap at some time since the command began: the history variable `named` has the
keys for which that is so, with those names, and an HSM that does not refuse
wraps under a key that may no longer wrap. `hsm` is chosen in `Init`: whether
this HSM marks values as sensitive, whether it refuses to give or wrap protected
ones, and its default for `CKA_EXTRACTABLE`; so a property that holds is
hsmtool's doing. Templates given by the user are merged where the code merges
them; `TemplatesAssumption` says that a `CKA_VALUE` in one is bytes and that an
HSM makes no secret key under another class, `OldObjectsAssumption` that keys
that were there before have the parts of their class. Noted while modelling:
`object-show` has the help text "Redact sensitive data." but its list has the
parts of RSA keys only; for a sensitive object `from_object` puts its mark under
`CKA_VALUE` whichever secret attribute it is about, so RSA parts are left out of
the map rather than marked; a template may move a new key to another label than
the one checked. One process is enough: every way in which another could
interfere is a `Change` or a key in the first objects.

### SignFiles

A file is a sequence of cells, a signature a sequence of `SigLen` cells that
name key, mechanism and data. `Parse` is `SignData::from_str` with its two
panics, `ReadInput` the preparation by format, key type and domain, `SignData`
the HSM's call, `WriteOutput` the signature file, `ReadAgain` the second read of
the input and the check of the range, `Truncate` and `Fill` the two halves of
`fs::write`. `claims` are the commands whose signature the image still carries.
A kill or a full disk between `Truncate` and `Fill` loses the image; the
properties leave out that case and nothing else. Without the lock file
(`Locking = FALSE`) two signers lose each other's signatures, as TLC finds at
once. For ML-DSA the domain decides only what is signed, the mechanism is the
same; so `DomainsApart` is about SLH-DSA. `RequestsAssumption` says what the
options may be: numbers where `FromStr` reads numbers, a verification that has
a signature somewhere, a signature file that is not the image itself and no
file but the image signed in place. The last two are what the properties are
about: one who names the image as `--output` asks for it to be replaced, and
a second file signed in place is a second image. `Sliced` of a range that ends
before it begins is a panic in Rust, so `InFile` refuses one.

### KeyFiles

The bytes of a key are a sequence of parts, which is enough to tell keys of
different lengths, the legacy SPHINCS+ file with a copy of the public key in
front, and a public key from a private one. There is one definition per save
function (which encodings it takes), per load function (which files it reads)
and per conversion from attributes, where a token may leave out a parameter
set. `Deliver` brings files of other tools, among them the SPKI that HSMs give
for a SPHINCS+ key and the legacy file of older tools; `ForeignAssumption` says
that what they deliver is well formed, a file of a key in one of the forms known
for it. That a library crate decodes what it encoded is assumed.
`ReadsBack` leaves out SLH-DSA files that are not text: they are the finding of
`keyfiles_der`. Noted while modelling: by the comments in `util/key/mod.rs` the
short names stand for the long ones, but ML-DSA keys are not saved as `pkcs8`
and public SLH-DSA keys not as `pkcs8-pem` or `pkcs8-der`.

### AttrText

Bytes and characters are their codes, and `escape`, `unescape`, `as_hex`, the
regular expression of hex strings, the two formats of dates and the names of
constants are translated literally, because the properties are about them.
`Show`, `Search`, `MakeNamed` and `Copy` are the commands that print text and
take it. Noted while modelling: a label such as `AB` is listed as `AB` but
searched, and copied, as the byte it spells in hex, the exception in
`FoundAsShown` and `CopyIsExact`; a label that is the name of a constant is
refused in a template; an empty or padded date comes back as zeros; a date with
letters makes `object-show` panic; an object of a vendor's key type can be
shown but not copied. `OthersAssumption` says that what other programs store
are bytes, and dates of the lengths of `CK_DATE` with any characters;
`AttrTextAssumption` that typed texts are lists of character codes and that
there are fewer objects than one-byte ids for `MakeNamed` to draw.

## Runs

| Run | Instance | Shows |
|---|---|---|
| `locked` | 2 processes, both lock; 7 batches; 4 invocations; 110 thousand states | what the lock file is for: names stand for one key, checked names stay free and found handles current through every failure, kill and retry; a batch uses the key it made; all commands refine `TokenStore` |
| `unlocked` | 2 processes, no lock; 4 batches; 3 invocations; 215 thousand states | what holds even then: a batch stops at its first error, a reported success is a whole key, a use was of an object of the given name and type |
| `live` | as `locked`, 3 invocations, fairness | every invocation ends, those that wait for the lock included |
| `doc` | 2 processes, both lock; 2 batches of their own; 3 invocations | violated: two comments in `helper.rs` say id *or* label, the code means id *and* label: a key is made, and the check for another id under the same label finds the name free |
| `spxef` | 2 labels, 2 algorithms, 13 requests, three of them `object-write`, 5 invocations, lock; 218 thousand states | replaced keys are never used, a list is exact, `generate` and `import` put two keys at most under a label, a new key can be loaded |
| `spxef_overwrite` | the spx commands alone, 4 invocations | violated: `--overwrite` does not overwrite, both keys stay and the label becomes ambiguous |
| `keyfiles` | 8 key pairs, one path, 4 commands | keys survive every encoding and mixed-up files are refused |
| `keyfiles_der` | same | violated: a DER file of an SLH-DSA key is never loaded |
| `spxkms` | 2 processes, 2 keys, 3 versions, pages of 2, 3 invocations, 2 changes by others; 4.2 million states | signatures, verdicts and lists are what was asked for, whatever changes between requests |
| `secrets` | 1 process, 4 first objects, 10 requests, 4 invocations, 1 change by others, every kind of HSM; 2.8 million states | values leave the token only as their owner allowed |
| `signfiles` | 2 processes, lock; an image of 10 cells; 20 requests, 3 invocations; 66 thousand states | an image signed in place verifies, a failed sign leaves it alone, RSA signs hashes only |
| `attrtext` | 3 objects out of 8 others, 12 typed names; 72 thousand states | shown text finds and copies what it was shown of; names stay apart |

**Bounds.** `MaxRuns` bounds the number of invocations, and with it the number
of objects. Three are needed for a retry to meet what a killed import left
while a third process waits; four let a destroy come between. Two processes
suffice for every pair of interleaved commands, two ids and one label besides
`""` for keys that share a label, an id, both or neither. The batches in
`MCHsmTool` are chosen so that every kind of command meets a key of the same
label, of another type, half made or half destroyed. `Procs`, ids and labels
are not declared symmetric because the batches name them. Deadlock is not
checked: after `MaxRuns` invocations the system rests.

In `spxkms` a page is one version shorter than a key may have, so that a key
outgrows it; two changes are what it takes to disable a version and rotate to
another between two requests, and three invocations to make a key, sign and
verify. Processes are interchangeable there, no request names one, so they are
declared symmetric. In `secrets` four invocations import or unwrap a key, wrap
it, and read it back under another template; one change hardens, renames or
forbids a key between any two calls. In `spxef` five invocations make a key,
overwrite it, add files beside them and try once more. In `signfiles` the image has room for two signatures of which
one request covers the other's range, and 3 invocations sign both and verify.
`keyfiles` needs four commands for generate, export, import and export again,
with a pair for each kind the conversions tell apart: two ML-DSA sets, and
SLH-DSA sets of equal and of different lengths. In `attrtext` three objects let
a name, its hex spelling and a copy lie side by side; the labels are the ones
on which codecs differ.

**Fairness.** `FairSpec` asks weak fairness of the steps of a running process
(the operating system runs it and HSM calls return, with whatever answer) and
strong fairness of `AcquireLock`: `flock` keeps its waiters in a queue, so a
process that waits while the lock is free again and again is granted it.
Nothing asks for a `Start` or a `Crash`. `InvocationEnds` rests on loops being
over the handles found once, of which one is used up per step.

**Why the properties can fail.** Each property of a passing run has a plausible
slip of the code that breaks it (`mutants` in `PROJECT.json`, the definitions
commented "Slip"): a lock that is shared, never released or removed by a
waiter; an `exec` that goes on after an error; a check of the name that looks
at private keys only; a label that is not stored; a loop that returns early; a
search without the key type; halves with different ids; the oldest version of a
key taken for the newest, the mode of a template for that of a version, a
verification whose result is dropped; a key template that leaves
`CKA_SENSITIVE` to the HSM, a mark taken for a value, a value merged before the
user's template, a wrapping key searched for without its use; a signature one
cell too far, an image emptied before its checks, one mechanism for two domains;
a legacy key cut at the wrong end, a second decoder left out;
small hex letters read as capital ones, a backslash that is not escaped, a date
without its dashes, names compared as text.

## Proofs

Eight modules hold proofs. Their theorems are about every set of processes and
requests and every bound that the named assumptions allow (in `AttrText`, up to
127 objects). TLC has checked the inductive invariants below on the instances
of the runs as well.

| Theorem | Statement | Assumes |
|---|---|---|
| `HsmTool_proofs!TypesHold` | `Spec => []TypeOK` | the named assumptions on constants |
| `HsmTool_proofs!Exclusion` | `Spec => []MutualExclusion` | the same |
| `HsmTool_proofs!NameHeldFree` | `Spec => []NameStaysFree` | `AllLock` |
| `HsmTool_proofs!OneKeyPerName` | `Spec => []NamesOneKey` | `AllLock` |
| `HsmTool_proofs!NoStaleHandle` | `Spec => []FoundIsCurrent` | `AllLock` |
| `HsmTool_proofs!StopsAtError` | `Spec => []BatchStopsAtError` | the named assumptions |
| `HsmTool_proofs!WholeKeyOnSuccess` | `Spec => []SuccessIsWholeKey` | the same |
| `HsmTool_proofs!UsedAsNamed` | `Spec => []UsesWhatItNames` | the same |
| `HsmTool_proofs!FreshKeyFound` | `Spec => []FreshKeyIsUsed` | `AllLock` |
| `HsmStore_proofs!Implementation` | `Spec => ImplementsTokenStore` | `AllLock` |
| `SpxEf_proofs!SpxTypesHold` | `Spec => []TypeOK` | the named assumption |
| `SpxEf_proofs!LatestKeyUsed` | `Spec => []UsesLatestKey` | `Locking` |
| `SpxEf_proofs!NewKeyLoads` | `Spec => []NewKeyIsLoadable` | `Locking` |
| `SpxEf_proofs!TwoMadeAtMost` | `Spec => []AtMostTwoMade` | `Locking` |
| `SpxEf_proofs!ListShowsAll` | `Spec => []ListIsExact` | `Locking` |
| `SpxKms_proofs!KmsTypesHold` | `Spec => []TypeOK` | the named assumption |
| `SpxKms_proofs!NewestUsed` | `Spec => []UsesNewest` | the same |
| `SpxKms_proofs!SignedAsAsked` | `Spec => []SignsAsAsked` | the same |
| `SpxKms_proofs!VerdictHolds` | `Spec => []VerdictIsRight` | the same |
| `SpxKms_proofs!ListHasAll` | `Spec => []ListIsComplete` | the same |
| `SecretKeys_proofs!SecretTypesHold` | `Spec => []TypeOK` | the three named assumptions |
| `SecretKeys_proofs!PlainlyAsked` | `Spec => []NoUnaskedPlaintext` | `SecretKeysAssumption` |
| `SecretKeys_proofs!ShowsNoSecretEver` | `Spec => []ShowsNoSecret` | the same |
| `SecretKeys_proofs!WrapsAllowed` | `Spec => []WrapsWhatMayLeave` | the same |
| `SecretKeys_proofs!ImportsFile` | `Spec => []ImportsTheFile` | the same |
| `SignFiles_proofs!TypeHeld` | `Spec => []TypeOK` | the named assumptions |
| `SignFiles_proofs!OnlyHashesRsaSigned` | `Spec => []RsaSignsHashes` | the same |
| `SignFiles_proofs!DomainsStayApart` | `Spec => []DomainsApart` | the same |
| `SignFiles_proofs!SignedImagesVerify` | `Spec => []SignedImageVerifies` | `Locking` |
| `SignFiles_proofs!FailuresLeaveImage` | `Spec => []FailureLeavesImage` | `Locking` |
| `KeyFiles_proofs!KeyFilesTypes` | `Spec => []TypeOK` | the named assumptions |
| `KeyFiles_proofs!GenuineObjects` | `Spec => []ObjectsAreGenuine` | the same |
| `KeyFiles_proofs!SavedIsReadBack` | `Spec => []ReadsBack` | the same |
| `KeyFiles_proofs!NothingMixedUp` | `Spec => []MixedUpIsRefused` | the same |
| `AttrText_proofs!UnescapeEscape` | `Unescape(Escape(a)) = {a}` for every `a` of bytes | nothing |
| `AttrText_proofs!HexReadsBack` | `ToBytes(Str(AsHex(a))) = {a}` for every `a` of bytes | nothing |
| `AttrText_proofs!DateReadsBack` | a printed date is read as the same date | nothing |
| `AttrText_proofs!Typing` | `Spec => []TypeOK` | the two named assumptions |
| `AttrText_proofs!Finding` | `Spec => []FoundAsShown` | the same |
| `AttrText_proofs!Copying` | `Spec => []CopyIsExact` | the same |
| `AttrText_proofs!Naming` | `Spec => []NamesApart` | the same |

`AllLock` and `Locking` say that every process passes `--lockfile`. In `HsmTool`
the theorems that assume it are false without it, as TLC finds at once; those
about the image in `SignFiles` too. The commands on Cloud KMS and on secret keys
need no lock for what is proved of them: others may act between any two of
their steps.

### HsmTool

*Types.* `TypeOK` is not inductive: taking the next command of a list needs the
list to have one, and making an object needs its id to be drawn. `TypeInv` adds
`AtCommand`, which says so of each place in the code, and is proved by one
lemma per action.

*Exclusion.* `LockInv` says that a running locker is the holder. Only
`AcquireLock` makes one running, when there is no holder, and only the holder's
own end releases.

*Names.* `NameInv` is the induction. `NamesOneKey` alone is not kept by the
second call of an import, which makes an object of a name that is taken: by the
first half. So `HalfWay` says what a key in the making has done and has left,
`NameStaysFree` that nobody else has an object of its name, `Cleared` that
nobody else is half way in anything, and `Fresh` that random ids are new. With
`LockInv` only one process is inside a command, so its own steps are all that
can disturb them.

*Handles.* `FoundIsCurrent` follows with `LockInv` and `TypeInv`: between a
search and the last use of what it found, only the process that searched can
change the token, and it removes from its list what it destroys.

*Replies.* The three properties of `ReplyInv` are about replies that were given
some time ago, so they must follow from what the process knew when it gave
them, lock or no lock. `WorkInv` is that knowledge: nothing of a key is made
and all its calls are left, or the first of two has made its half (`HalfWay`);
what is made bears the command's name (`NameGiven`); the handle in use is one
object that the command's search selects (`OneInHand`). No action of another
process touches any of it, because it is about what this process was told and
not about the token. `SuccessIsWholeKey` did not say of what key type the new
objects are; the proof of `FreshKeyIsUsed` needed it, and now it does.

*The fresh key.* With the lock, `OnlyOwnKey` says that all that a search by the
name of a key being made finds is what was made of it, and that this stays so
until another command of the batch follows. It needs `NamesOneKey`: an object
of the same id and label that is no key, or that came earlier, would be in the
way.

*Refinement.* `HsmInv` puts these together with `ActedMatch`, that a loop has
acted on objects its search finds. Under the lock at most one process is inside
a command, so the store a user sees, `Visible`, is the token without what that
one has made so far, or with what it has destroyed so far (`VisibleAlone`). Then
each action is a step of the store: the create calls of a key, the visits of a
loop and the searches that find something change nothing that is visible; the
last create call is `Make`, the end of a loop `Destroy` or `Show`, an error
`Reject` or `Break`, and a kill `End`, with the half key or the half destroy it
leaves as `Partial`. The abstract command is the one at hand, and the objects
of its reply are compared with `Visible` before the step. That the two
specifications speak of the same commands and searches, each having its own
instance of `Token`, is a lemma (`SameCommands`, `SameSearches`).

### SpxEf

`KeyInv` is the induction. `Locked` leaves only one process that is not idle
(lemma `Alone`), so a step moves nobody else. `LatestStored` says that the last
key made under a label is on the token. With it, `Loading`, that the file a
load has found is the only one of its label, gives `UsesLatestKey`: it can only
be the last one. `Making` says that the label of a key to be written is free,
or has one file with `--overwrite`, whoever made it, and `AtMostTwoMade` counts
on from there with the cardinality theorems of the library. A file that
`object-write` adds is new (`MadeBefore`), so it is none of those counted, and
it becomes the last key stored (`LatestStored`) if it is one. `Listing` says that what a list
has shown is what it has been through of the keys there are.

### SpxKms

`TypeInv` adds `Place`: the version a process has chosen exists and has a mode.
In `KmsInv`, `Newest` says that no version usable since the command began is
newer than the one chosen, as far as the server's first page goes. It is about
the history variable `steady`, which others can only shrink, so no change they
make disturbs it. That `Max` of a list of versions is its greatest is proved
from the well-foundedness of `<` on the natural numbers. A signature carries
the version it was made with, which is why a verdict can be compared with what
was signed (`Genuine`), and a list goes through its keys once (`Listing`).

### SecretKeys

`SecretInv` is the induction. `TokenInv` says that an object that is not
sensitive has a value that somebody asked to be readable; a key is made
sensitive unless its template says otherwise (lemma `MakeGrows`). An object may
be hardened, renamed and put to another use, and stays what it is (`Changed`,
lemma `ChangeGrows`); so what a process has read of it is at most too soft,
never softer than when the command began: `Picture` says so, and `Value` that a
value in the picture belongs to an object that was readable at the call before.
`Names` says that every command under way knows the keys that may wrap now; so
the key that `FindWrapper` finds is known to it with the name it was searched
by, and stays so (`NamesKept`) until `WrapKey`, whatever `Change` does to the
key (`Wrapping`). Its class and type, which `Change` cannot touch, are still
those of the mechanism (`CanWrap`). `ProgressKept` is the lemma
that makes other processes harmless. TLC checks one process with other programs;
the proof has any number of both.

`TypeOK` needs more than types: that what is wrapped is a value, the object
must be of a class that has one, at both looks at it (`HasValue`), and that it
is wrapped under a value, the wrapping key must have the parts of its class
(`HasItsParts`, lemma `MaterialIsValue`). A made key has them whatever the user's template says (lemma
`MadeIsKey`), and no other program takes them away.

### SignFiles

*What is signed.* `DataInv` holds with or without the lock. It says of each
place in the code what the process has in hand (`Place`), and of every signature
ever made that it shows the data it is over and, for SLH-DSA, its domain
(`Honest`). An RSA key signs nothing but the DigestInfo of a hash because
`sign` is reached only through `HasHashSize`; the formats are split into
those that hash and those that take bytes as they are. That two domains never
share a signature is read off the mechanism in it. Since ranges, slices and
reversals are all cuttings of lists, the proofs rest on a few lemmas on lists
(`PartOfList`, `ConcatList`, `ReverseList`, `ListEqual`) that are proved from
the definitions, and on `Reversed` undoing itself.

*The image.* `ImageInv` needs the lock. `ImageOf` follows one process from the
image it began with, `before`, to the copy it is about to write, `Patched` from
`before`: `ReadAgain` reads what `ReadInput` read, as nobody else writes in
between. Two lemmas carry the property: a signature put into a range is found
there (`PatchedThere`), and a range that does not overlap it is left alone
(`PatchedElsewhere`). A command stays in `claims` only while neither its range
nor its data was overlapped by a later one, so with `SliceDecides`, that what is
prepared from a slice depends on the slice only, it goes on to verify.

### KeyFiles

`KeyInv` says that every object is a half of a pair (`Genuine`) and that every
file contains the half it is known to hold, in one of the forms that the save
functions, the wrapping commands or other tools write (`Contains`). Per loader
and form a lemma says what comes out: the key that went in, or nothing. What
could be mixed up is kept apart by three facts that are lemmas of their own:
names of algorithms are shared by SPHINCS+ and SLH-DSA keys only (`OneType`),
ML-DSA parameter sets differ in length (`LengthTells`), which is all that the
conversion of an object without a parameter set has to go by, and the longer
legacy file is cut to the key behind the copy (`SecondOfTwo`). SLH-DSA and
SPHINCS+ files differ in standard, and in the object identifier where an HSM
writes the latter like the former.

### AttrText

*Recursive codecs.* `Unescape`, `Parse` and `FlattenSeq` are recursive
functions, which TLA+ defines as some function that satisfies the equation. To
use the equation one must show that such a function exists (`UnescapeDef`,
`ParseDef`, `FlattenDef`): by induction on how much of it there is. The library's
induction theorems take an operator as a parameter, which the provers cannot
instantiate; `Induct` states induction for a set instead, and is proved from the
well-foundedness of `<` on the natural numbers. `FlattenParts` then says where in
a concatenation each part lies.

*Round trips.* `ReadsBack` says that where a text has what `escape` writes for
one byte, `unescape` reads this byte and goes on right behind it; no two named
bytes have the same letter, and none has the `x` of a hex escape. From there
`UnescapeEscape` is an induction on the bytes that are left, at the places that
`FlattenParts` gives. That the result is the singleton of the bytes says three
things: it is no error, it is these bytes, and so no two byte strings are
escaped alike (`EscapeApart`). `HexReadsBack` does the same for ids, where the
text must also look like hex, and `DateReadsBack` for dates: a part of two
characters is a number below 100, one of four below 10000, so the format never
needs more digits than its width and the slices of `ToDate` are those that were
written. `ToBytesTyped` is about every text, shown or typed: what is read from
it is bytes.

*The invariant.* `IInv` has the three properties, that objects are well formed,
`Numbered`, that every object has its own number and none is above their count,
and `ShownTrue`, that what is shown is the map of a well-formed object whose date
can be printed. Making an object is one lemma (`MakeKeeps`): a copy fits because
of the round trips and because a text that happens to be a constant's name is
read as neither bytes nor a date (`TextOrName`); a named object because the
search for its bytes found nothing. `CopyIsExact` once allowed any label where
the shown one looks like hex; the proof says which it is (`Retyped`), and now the
property does.

### What is left to TLC

- Liveness, `InvocationEnds` of `HsmTool`: it needs reasoning about `ENABLED`
  that the proof system does not do. That a waiter is granted the lock or killed
  is a part of it.
- The three runs that show a violation.

All other properties of the runs are theorems.

## Plan

1. `HsmTool`: spx commands inside batches, `mldsa-export-csr` with its two
   searches, user templates of key pairs.
2. `SigningFlow`: the Bazel rules, from keyset and key settings to the actions
   and their inputs, refined to "every requested signature is made with its
   own tool and attached to the image it was made for".

## Not modelled

- The Acorn binding: every method is one call of a vendored library and the
  copy of its answer. What the library promises of its buffers is not here.
- Profiles, `token-list`, certificate requests: they read, print, or sign once
  what a library crate encodes.
- The signing rules (`signing/*.bzl`): sequential and evaluated by Bazel; see
  the plan.
- DER, PEM and the SPHINCS+ algorithm: library crates and C code.
- Numbers, booleans and the generated tables of constants of `util/attribute`.
- Vendored patches, scripts and build configuration.
