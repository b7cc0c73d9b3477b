# A verification development for simplefin-aggregator

simplefin-aggregator is a small server that stands between SimpleFIN client
apps and several SimpleFIN providers. An operator claims a one-time setup token
from each provider with the `claim` command, issues setup tokens to client apps
with `app new`, and runs `serve`. A client app spends its setup token at the
server, and from then on asks it for accounts; the server asks every provider
and merges the answers.

This directory holds TLA+ modules that model the parts of it whose correctness
depends on interleavings, failures and power cuts, the TLC configurations that
check them on small instances, and proofs, checked by TLAPS, that the most
important properties hold for every instance. Paths below are relative to
`src/simplefin_aggregator/`.

## The system

### Components, their state and their operations

| Component | Source | State it keeps | Operations |
|---|---|---|---|
| State files | `state_file.py` | one JSON file per store, a `.lock` sidecar, temporaries | `load_state_file`, `save_state_file`, `update_state_file`, `check_can_save` |
| App tokens | `app_tokens.py` | `aggregator_creds.json`: per app key an unclaimed token or claimed credentials, as digests | `load_app_tokens`, `update_app_tokens`, minting, spending, matching |
| App commands | `cli.py` | none of their own | `app new`, `app regen`, `app revoke`, `app list` |
| Claim endpoint | `app.py` | none of its own; a thread of the pool while it runs | `POST /simplefin/claim/{token}` |
| Client authentication | `auth.py` | none; reads the store on every request | `require_client_auth` |
| Accounts endpoint | `app.py`, `transport.py`, `provider_clients.py`, `provider_response.py` | one HTTP client per provider | `_route_requests`, `fetch_all`, `fetch` |
| Merging | `merge.py` | none | `merge` |
| Account id namespacing | `config.py`, `merge.py`, `provider_resolution.py` | the prefixes of the config, fixed for the life of the server | `_check_provider_prefixes`, `_prefixed_accounts`, `resolve_providers_for_account` |
| Config file | `config.py` | `config.toml`, read once | `load_config` |
| Provider claim command | `cli.py`, `provider_access_urls.py` | `provider_creds.json`: an access URL per provider key | `claim` |
| Provider registry | `provider_registry.py` | a fixed list, and the custom providers of the config | `find_provider`, `merged_providers`, key checks |
| Server life cycle | `cli.py`, `app.py` | config and access URLs, each read once at start-up; the open clients | `serve`, `create_app`, its lifespan |
| URL validation | `url_validation.py` | none | `parse_root`, `validate_claim_url`, `validate_access_url` |
| Access and setup URLs | `access_url.py`, `setup_token.py`, `config.py` | none | `build_access_url`, `build_setup_token`, `_validate_base_url` |
| Access log redaction | `access_log.py` | a filter on uvicorn's access logger | `install_access_log_redaction` |
| Request counter | `request_counter.py` | a count per provider and UTC date | `record` |
| Manual verification script | `../../scripts/manual_verify.py` | a directory, a server of its own, a port | `main`, `run` |

### How they interact

The commands are processes of their own; the server is one process with an event
loop and a pool of threads. They share nothing but the state files. All writers
go through `update_state_file`: a `flock` on a sidecar that is held over reading,
changing and replacing the store. Readers (`auth.py` on every request, `app
list`, `serve` at start-up) take no lock. `claim` writes the store of access URLs
that `serve` reads; both match it against the roots of the config, each as it read it. The claim endpoint runs its update in a
pool thread, and authentication its read. The accounts endpoint calls the
providers concurrently and waits for all of them; its calls share the clients and
the counter of the process. `url_validation.py` judges the same access URL when
`claim` gets it and when `serve` starts, each under the root the config has then.
The setup token and the access URL that a client app gets are both made from
`base_url`, and must lead it back to the routes of `app.py`. The verification
script drives all of this from outside, through commands, a child process and a port.

### What is hard about it

* *Interleaving.* Two writers, each of which writes the store whole; readers
  that hold a file open over replacements; a claim and an `app regen` racing for
  one record; two claims with one token.
* *Crash and power cut.* Between writing, syncing, renaming, syncing the
  directory, unlocking and reporting, each leaves something else on the disk.
* *Partial failure.* Any step of a save; one of several providers; a store that
  cannot be read while the server runs.
* *Ordering.* The providers answer in any order.
* *Waiting.* The lock has no timeout, and claims that wait for it occupy the
  pool that authentication needs.
* *Ambiguity.* An account id can carry several prefixes.
* *Start and stop.* `serve` reads three files one after the other while they may
  change, and keeps what it read; it closes its clients while requests may wait
  on them.
* *Text that means something.* A dot segment, an encoded slash, a doubled slash, a
  colon in a password: what is compared, stored, sent and taken apart again must
  be the same thing.
* *Checks in an order.* The config's checks come one after the other, and some
  rely on others; the first that fails is what the operator is told.
* *A spent token.* A provider sells its access URL once. Between the POST and the
  save the claim may time out, die, or be given something it cannot use, and
  meanwhile the config it was checked against may be edited.

What makes each part correct: for the state files, that no update is lost, none
is torn, a failed one leaves nothing and a durable one stays; for the tokens,
that each is spent once, that what was handed out works until it is taken away,
and that what was taken away is gone; for authentication, that only a live pair
is let in; for the accounts, that ids route to the provider they came from and to
nobody else, and that a provider's failure costs its own accounts only; for
`claim` and `serve`, that what was bought is stored or its loss was seen, and that
only what its provider's root vouches for is stored and served; for a running server,
that it is of one config and one set of access URLs, that nothing waits on a closed
client, and that its log hides each claim; for the config, that exactly the sound
files are accepted; for the URLs, that they lead where they should and nowhere else;
for the script, that "Done" is true and nothing is left behind.

## The modules

| Module | Models | Uses |
|---|---|---|
| `AtomicStore` | what `update_state_file` promises: one atomic update per call | |
| `StateFile` | `state_file.py`, one action per system call | `AtomicStore` (refinement) |
| `AppTokens` | `app_tokens.py`, the app commands of `cli.py`, the claim endpoint of `app.py`, `auth.py` | what `StateFile` shows |
| `TokenRegistry` | what app commands, claims and logins promise together: one registry of live secrets | |
| `AppRegistry` | the refinement of `TokenRegistry` by `AppTokens` | `AppTokens`, `TokenRegistry` |
| `Namespacing` | prefixes: `config.py`, `merge.py`, `provider_resolution.py`, `_route_requests` | |
| `Accounts` | `GET /simplefin/accounts`: `app.py`, `transport.py`, `merge.py` | `Namespacing` |
| `ProviderClaim` | `claim` of `cli.py`, `provider_access_urls.py`, the start-up of `serve` in `app.py` | what `StateFile` shows |
| `Serve` | a `serve` process: `cli.py`, `create_app` and its lifespan, `access_log.py`, `request_counter.py`, uvicorn as it is used | what `Accounts`, `AppTokens` and `ProviderClaim` model |
| `ConfigLoad` | `load_config` and `Config`: `config.py`, `provider_registry.py` | `Namespacing` |
| `UrlMatching` | `url_validation.py`, and where a claim and a server send what it accepts | |
| `ClientUrls` | `access_url.py`, `setup_token.py`, `_validate_base_url`, and a client app that uses the URLs | |
| `ManualVerify` | `scripts/manual_verify.py`, against any server and any user of the port | |
| `MCAppTokens`, `MCAccounts`, `MCProviderClaim`, `MCConfigLoad`, `MCUrlMatching`, `MCClientUrls` | instances for TLC; the others need none | |
| `StateFileProofs`, `NamespacingProofs`, `AccountsProofs`, `ProviderClaimProofs`, `ConfigLoadProofs`, `UrlMatchingProofs` | theorems about the module of that name | |
| `AppTokensProofs` | theorems about `AppTokens`, `AppRegistry` and `ClientUrls` | |
| `ServeProofs` | theorems about `Serve` and `ManualVerify` | |

Operators whose comment starts with *Mutant* are not part of the specifications.
Each is a definition with a plausible mistake put in, kept beside the definition
it changes; substituting it makes one named property fail, which is the evidence
that the property can fail.

### StateFile

`Calls` are calls of `update_state_file`, each a process or a thread that runs
once. `pc` is the system call the call is about to make. The contents of a file
are abstracted to the set of calls whose edit they carry. A call writes at most
one temporary, so the temporary is named by the call: `file[c]` is its data and
how far it got (torn, in the page cache, on the disk), `store` is the file the
path names now, and `entry` the one the directory on the disk names. `sidecar`,
`fd` and `held` are the lock: the inode at the lock path, the inode each call
has open, and the calls that were granted the lock. That the lock belongs to an
inode and not to a path is kept, since the comments of `_hold_lock` turn on it.

The actions follow the code line by line: `OpenSidecar`, `Flock`, `Load`,
`Edit`/`Raise` (the caller's block), `MakeTemp`, `Write`, `Fsync`, `Rename`,
`SyncDirectory` (best effort), `Close`. `Fail` is any `OSError` that the code turns
into a `StateFileError`, with both `finally` clauses: the descriptor of the lock is
closed, and the temporary unlinked or, since that is best effort, left behind
(`UnlinkTemp`). `Die` is a kill. `ReadOpen` and
`ReadRest` are a reader's two steps. `Writeback` and `PowerCut` are the kernel
and the machine: a power cut keeps the directory entry that reached the disk
and only those data blocks that were flushed, and may lose the sidecar.

`AtomicStore` has the same calls with one atomic step `Apply`. The refinement
maps the visible and the persisted contents, and puts `Apply` at `Rename`.

### AppTokens

A secret is drawn afresh each time, so it is named by the call that mints it: a
command in `Commands` names the setup token it issues, a claim in `Claims` the
username and password it issues. A record is the secret it recognises. Every
update has the four steps that can be told apart from outside: take the lock,
load and change (`AppNew`, `AppRegen`, `AppRevoke`, `SpendSetupToken`); rename
(`Save`); sync the directory and unlock (`Release`); report (`Report`, `Answer`).
Taking these as the only steps is what the refinement of `AtomicStore` by
`StateFile` licenses. `durable` is the version a power cut goes back to.
`DispatchClaim` takes one of `PoolSize` threads; `Authenticate` needs one.

`retired`, `known`, `dead`, `late`, `unsynced` and `undone` are history variables:
no action depends on them, and they let a property speak of what somebody was told. `unsynced`
holds the updates whose directory sync failed, which the code suppresses, until a later
sync, of any update, or the kernel's own write-back makes them good. `undone` is what no
promise covers: the secrets that a power cut lost or brought back of the updates in
`unsynced` at that moment, and of no other.

`TokenRegistry` is what all of this looks like from outside: each command, claim and
login takes effect on the registry in one step or is refused for what it holds at
that step; only a power cut takes back what had not reached the disk. `AppRegistry`
maps `AppTokens` to it: a call is `asked` up to the rename and `effective` after it,
so `Save` is the one step that changes the registry, and everything a call does
under the lock is a stutter.

### Namespacing and Accounts

`Namespacing` is pure. A text is a sequence of characters, and `prefix` maps
each configured provider to its prefix. `PrefixesOK` is the check of the config,
`Owners` the longest-prefix rule with its ties, `Routed` the split of a request.

In `Accounts` the initial states are all configs that pass the check, over the
prefixes in `PrefixPool`. `Arrive` routes a request; `Fetch` is one provider's
answer, usable or not, with its accounts in any order; `Respond` is `fetch_all`
returning, `merge`, and the encoding at its end, which fails for text that is
valid JSON and not valid UTF-8. The answer keeps, beside each exposed id, which
provider it came from and what that provider calls it. `errors` is the array of
that name, which holds what the providers themselves reported and nothing else: one
that failed or answered unusably is logged and adds none. `logged` are the ids the merge warns of as shown twice.

### ProviderClaim

An access URL is named by the setup token that bought it, and `url[t]` is its
origin, which stands for everything `_check_matches_root` compares; `Garbled` is an
answer that matches no root. `Claims` are runs of the command. `Start` and
`RefuseStart` are what it checks before it asks, `Post` and `RefuseToken` the choice
of a provider and the match of the claim URL, `Timeout` and `Receive` the outcome of
the POST, `Validate` the match of the access URL, `Save` the locked update of the
store up to its rename, `Report` the rest. A claim uses the roots it read at its
start (`sees`). `Redeem` is the provider: a POST can arrive after its claim has
given up, sells the access URL at most once, and its answer may be lost.
`ReadConfig` and `StartServer` are the two reads of `serve`, between which the config
(`EditConfig`) or the store may change. `replaced`, `unsynced` and `undone` are
histories, the last two as in `AppTokens`: of the claimed access URLs, those whose
directory sync failed and that no sync has made good, and those of them that a power cut lost.

### Serve

One process after another, with everything around it that may change at any time:
claims (`Claim`), the config file (`EditConfig`), the app token store (`AppsChange`)
and the clock (`ClockChange`, also back). The app token store is good, unparsable, in a
directory that may not be written, or in one that may and still cannot be saved to,
since the disk is full or the lock file cannot be opened. `Usable` is what the start
looks for: `check_can_save` makes the directory and asks for its mode, so it finds the
second and the third, and starts on the fourth.
An access URL is the number of the claim that bought it. The start is one action per
step of `serve`: `ReadConfig`, `CheckApps` or `RefuseApps`, `BuildApp` or
`RefuseUrls`, `InstallRedaction`, `Lifespan`, `Bind`; between any two the world may
change or the process be killed. `named` and `held` are what the process took from
the files, `clients` its open clients, `counts` the counter. Requests come as
claims, accounts requests or strays (a `GET` of a claim path). `Accept`,
`ClaimToken`, `RefuseStray`, `Admit`/`TurnAway`, `Send`, `Receive` and `Respond` are
what happens to them; a fetch keeps the access URL, the date and the number it went
out with. `Respond` answers 200, or 500 for a text that cannot be encoded, as in
`Accounts`; a claim that needs a store that cannot be saved to is answered 500. `Stop`, `Drain`, `Close` and `Exit` are uvicorn's shutdown and the end of
the lifespan; `Crash` is a kill or a second SIGINT, and takes all memory with it.
`since` (what had been claimed when the process read its config) and `fault` (whether
its check of the app token store missed a fault, or one came since) are histories. That uvicorn waits for open requests before the
lifespan goes on is taken from how it is configured, with no shutdown timeout.

### ConfigLoad

Each initial state is a config file, or a `Config` built in a program with its
prefixes given, as the tests do. `Validate` is pydantic's pass over the fields, which
collects all faults; `Merge` makes the list of built-in and custom providers and ends
at the first bad or taken key; `CheckKeys`, `Build` (the default prefix, the key and
a colon) and `PostInit` are the rest, the last of which checks merge and keys again
and then the prefixes by way of `Namespacing`. `blame` is what the load was
rejected for, `prefix` the `Config` it gave.

### UrlMatching and ClientUrls

A character is a pair: what it is, and how many times over it is percent-encoded,
so that httpx2's normalisation, `unquote` and a server that decodes once more are
all subtractions. `UrlMatching` takes a URL through its life: posted to, or stored
and probed; and after an edit of the config, matched again by `serve`, and asked for
accounts. The reference definition (`Belongs`, `Resolved`) is by segments, and
independent of the string comparison the code makes.

`ClientUrls` issues a setup token under a `base_url` the config accepts, has a
client take it apart as `urlsplit` does, a proxy at `base_url` pass on what is
below it, and the same with the access URL it gets. base64 is left out. Its behaviours are `ClientSpec`, those of `ManualVerify`
`ScriptSpec`, so that one module can speak of them and of another specification.

### ManualVerify

`pc` walks through the script; a raised error or Control-C goes to the innermost
`finally` or `with` (`Leaves`). The program's own commands are one step each that
succeeds or fails. The server under test is free to have any of the `Defects`, not
to start, or to die; another server may hold the port, which the poll cannot tell
from its own. Three assumptions limit the model: the user presses Control-C once and
not while the directory is being removed, nobody kills the script outright, and
whoever accepts a request answers it, since `urlopen` has no timeout there.

## What the runs check

| Run | Instance | Distinct states | Shows |
|---|---|---|---|
| `StateFile` | 3 calls, 1 reader, 2 inodes | 242,078 | no torn store, no lost update, durability, clean failure; refinement of `AtomicStore`; every call returns |
| `AppTokensSafety` | 2 keys, 2 commands, 2 claims, 1 request, 2 threads, sync may fail | 476,697 (symmetry) | each secret spent once, kept until taken away, then gone; refinement of `TokenRegistry` |
| `AppTokensLive` | 1 key, 2 commands, 2 claims, 1 request, 1 thread, sync works | 221,530 | every command, claim and login ends |
| `AccountsSafety` | 3 providers, prefixes blank, `a`, `ab`, `b`, `c`, up to 2 ids | 2,837,053 | routing, containment of failures, order, relayed errors, collisions |
| `AccountsEncoding` | the same, with no repeated ids and no errors of the providers' own | violation | one provider's text costs the whole answer |
| `ProviderClaimSafety` | 2 claims, 2 providers, 2 tokens, 2 origins, sync may fail | 1,651,336 (symmetry) | what was bought is stored or its loss was seen; what is stored and served was vouched for |
| `UrlMatching` | every path up to 6 characters over letters, dots, slashes and spaces, plain and encoded; 8 forms of root | 72,500 | what is sent stays under its root; nothing of the provider's is refused |
| `UrlDoubleSlash` | the same | violation | under a root that ends in `//`, what is fetched need not start with it |
| `ConfigLoad` | up to 3 providers and 2 custom ones, over good, bad, repeated and overlapping keys and prefixes | 364,738 | exactly the sound files are accepted, the others blamed rightly |
| `Serve` | 1 provider, 2 requests, 2 claims, 2 days | 114,214 | one snapshot, open clients, the counts; what the start looks for is found there; a stop ends; what was accepted is answered |
| `ManualVerify` | 3 polls, 2 accounts of each provider, answers of up to 3 | 84,696 | "Done" is true; nothing is left behind; the script ends |
| `ClientUrls` | `base_url`s with every end of a path; credentials up to 2 characters | 677,760 | URLs lead back, with the credentials issued |

The properties, by module:

* `StateFile`: `NeverTorn` (now, through a file held open, and after a power cut),
  `SavedStays` (a returned update is in the store unless a power cut undid it),
  `HardenedStays` (after a successful directory sync not even then, nor any update the
  synced one found in the store: one whose own sync failed is made good by the next),
  `RaisedLeavesNothing`, `AtomicUpdates`, `EveryCallReturns`. That the lock excludes,
  `MutualExclusion`, is proved; `SavedStays` fails without it.
* `AppTokens`: `SpentOnce`, `HandedOutIsRecognised` and `DeadStaysDead` (a power cut
  excuses only what an update did that could not sync and no later sync made good),
  `OnlyLiveSecretsServed`, `EveryCallEnds`; in `AppRegistry`, `ActsAsRegistry`.
* `Accounts`: `NoNamedIdLeaks`, `ShownIdsRouteBack`, `FailureIsContained` (accounts and
  errors of the others are all there, once, and the failure adds nothing), `OnlyBlanksCollide`
  (an id shown twice is logged, and only blank prefixes allow it), `ConfiguredOrder` (of
  accounts and of errors), `OnlyAskedIsShown`.
* `ProviderClaim`: `ClaimedIsKept` (with the same one excuse), `SpentIsAccountedFor` (a refusal or a 403 never
  hides a lost access URL, which is why the POST must not be sent twice),
  `StoredWasVouchedFor`, `ServedIsOwn`.
* `Serve`: `OnlyOpenClients`, `OneSnapshot` (a claim that returned before `serve` was
  run is never overlooked, a later one never half used), `NumberedInOrder`,
  `FaultsAreFoundAtStart` (good credentials are turned away only for a fault that came
  after the check, and a claim fails only for such a fault or one the check does not look
  for), `StopEnds`, `AcceptedIsAnswered`. Proved and not run: `OnlyClaimsAreHidden`.
* `ConfigLoad`: `BlameIsDeserved`, `EveryIdFindsItsProvider`, `AcceptedIfSound`.
* `UrlMatching`: `SentUnderRoot` (also if the server decodes and resolves the path),
  `SentOnBoundary`, `SentInPrivate`, `RefusedForCause`.
* `ClientUrls`: `TokenReachesClaim`, `CredentialsSurvive` (and never go in the clear to
  another machine).
* `ManualVerify`: `DoneMeansVerified`, `NothingLeftBehind`, `ScriptEnds`.

The type invariants `TypeOK` are theorems, and no run needs to check them.

### Bounds, and why they are enough

Each call, claim and request runs once; a caller that tries again is another
member of the set. Two calls are enough for any race between two writers; the
third in `StateFile` lets one wait on a sidecar that a second has opened
and a third is holding, which is what unlinking it would break. Two inodes
suffice because the sidecar can be created anew only after nobody has the old one
open. The calls are not symmetric in a run that checks liveness. Two commands on
two keys allow any two of `new`, `regen` and `revoke` in sequence with two claims
racing for the tokens they mint, and halves of two logins to be mixed. Pools of one
and two threads are where a wait can fill the pool. The safety run lets the directory
sync of each update work or fail, so a power cut meets updates that could sync, updates
that could not, and updates that a later sync has made good; only those of the second
kind are excused. The live run has a sync that works.

`PrefixPool` has a blank prefix, two prefixes of which one starts the other and
two more, so that there are configs in which no prefix is blank and an id can
belong to nobody; the providers' own ids include ones that look like
a prefixed id of somebody else, and ids that two providers have in common. Two ids in a
request can go to one provider, to two, or to nobody. In `AccountsSafety`
providers may send an id twice, and text that cannot be encoded.

Two claims are enough for two to save at once, for one token to be presented
twice, and for one access URL to replace another; two providers of which the
config names one let a token be claimed for the wrong one, and two origins let
both providers have the same root or different ones.

`Serve` needs two claims for one to replace what a running server uses, two requests
for one to be served before and one after it, and two days for the clock to leave a day
and come back to it. One provider is enough for what is checked of each by itself; mixtures
over several providers, and edits of the config that change which there are, are covered by
`ServeProofs`, which holds for any number. The requests of a process run once each, those of
the next are new. One server at a time: a second one cannot bind the port. In `UrlMatching` six characters
hold two segments that each are a dot segment, plain or encoded, and a third to
land in; in `ClientUrls` two characters are enough for each delimiter to be the
first, the last or the only one of a credential. `ConfigLoad` has three providers
for a fault between the first and the last, and two custom ones for either to be
taken. In `ManualVerify` three polls tell the first, a later and the last apart.

Deadlock is not checked where every call runs once and the system then stops; it is
checked in `Serve` and `ManualVerify`, where the world always goes on.

### Fairness

`StateFile`: `WF` on what a call does by itself, which is a running process or
thread. No fairness is assumed of who gets the lock: the calls are finitely many.
Nothing is assumed of failures, kills or arrivals.

`AppTokens`: `WF` on the steps of a command and of a claim and on authentication,
for the same reason and because the event loop and the pool serve what is queued.

`Serve`: `WF` on the shutdown, on the handling of each request and on each fetch's
end: there is one event loop, and `provider_clients.py` gives every client a timeout of 30
seconds. The timeout is per operation and not for the whole answer, so a provider that
sends a byte every 29 seconds can take longer than that; fairness then says that it ends,
which the client does not enforce. Nothing is assumed of the start, of claims or of the
operator, who may never stop it.

`ManualVerify`: `WF` on the script's steps, which includes an answer to each request
(an assumption: see *ManualVerify* above), and on a server that has been told to stop.
Nothing says that a server ever listens.

## What is proved

TLAPS proves every invariant that a passing run checks, and both refinements, for all
values of the constants that meet the named assumptions. Those say what type each
parameter has, that sentinels differ from real values, that sets of names are disjoint
(`Commands`, `Claims` and `Requests`; `Prefixed` and `Bare`), and what `quote` leaves
alone. Four say more than that, of code outside this repository or of what is finite: a
provider holds finitely many accounts (`Accounts!TextAssumption`); finitely many providers are built in
(`ConfigLoad!FilesAssumption`); the slash that ends the host of a URL is the first one
after its scheme (`UrlMatching!AuthorityAssumption`, as `urlsplit` cuts); and the host
of a `base_url` has neither a slash nor an `@`, and its path starts with a slash if
there is one (`ClientUrls!BasesAssumption`, likewise).

**`StateFileProofs`.** All safety properties of `StateFile`, and the refinement of
`AtomicStore`. The inductive invariant says which calls have a descriptor open
and hold the lock, that every open descriptor is on the inode now at the lock
path (which makes the lock on an inode a lock on the path, and is why
`MutualExclusion` alone is not inductive), that a call between `Load` and `Rename`
has a draft that is the current store and at most its own edit, and how far the
temporary of a call is at each `pc`. `Refinement` maps each step: `Rename` to
`Apply`, `SyncDirectory` and `Writeback` to `Persist` or to nothing, a power cut to a
power cut, all others to a change of the call's state or to nothing.

**`AppTokensProofs`.** All safety properties of `AppTokens`. The argument: a
recognised secret is recognised only at the key of the call that minted it
(`Provenance`), so an update that takes it out takes it out everywhere (`Gone`);
no two updates take out the same secret (`ReplacedOnce`); what an update put in
stays until one takes it out (`Kept`), in the durable version too once the update
has synced; while an update is in `unsynced` it may be missing there, and a power cut then
puts what it loses on record as `undone`. `Kept` and `Gone` need both versions because a power cut swaps one
for the other. `Refinement`: `AppTokens` implements `TokenRegistry`. Each rename
is one effect; a call that fails under the lock had a cause the registry shows, which
needs that the draft was read from the store as it still is (`LockFacts`).
Of `ClientUrls`, `TokenArrives` and `CredentialsArrive`: a URL is taken apart at the
first slash, the last `@` and the first colon (`Apart`), and each is the one the server
put there, because `quote` leaves no delimiter in a credential (`Quoted`) and a host
has none; so credentials, host and path come out as they went in, and below
`base_url` the proxy passes on just what the route expects (`Below`).

**`NamespacingProofs`.** Over any texts and any config that passes the check:
`OneOwner`, an id has one owner or all its owners have a blank prefix;
`RoundTrip`, the id under which an account of a provider with a named prefix is
shown belongs to that provider alone, which gets back its own id; `NamedApart`, two
providers never show the same id unless one has a blank prefix; and `ShownRoutesBack`,
a request for a shown id asks the provider that showed it, by its own id. The module
also has the lemmas about sequences that the others use: induction up to a bound, as a
statement about sets (`Least`, `Climb`), and where each part of a flattened sequence
is in the whole (`Laid`).

**`AccountsProofs`.** All safety properties of `Accounts`. `merge` flattens the answers
of the providers in the order of the plan. `Laid` gives each part its place, so
`MergedLayout` names, for each account of the answer, the provider and the place in
what that provider sent; `FailureIsContained` and `ConfiguredOrder` are read off the
places, and `ShownIdsRouteBack` off what `ShownRoutesBack` says of one id. The invariant
says that the plan is the config's order of the routed providers (`PlannedFacts`), that
what came is what the asked providers may send (`BodyFacts`), and that the answer is
what `merge` makes of it; the properties follow from it for one state.
`NoLeak`: no provider is asked about an id that a provider with a named prefix has
exposed, unless it is that provider's own.

**`ProviderClaimProofs`.** All safety properties of `ProviderClaim`. A provider sells
an access URL once, so at most one claim was answered with it (`OneBuyer`), and it
is stored under that claim's provider only (`AllVouched`, `StoredOnce`). Only
because of this does replacing an entry take the access URL out of the store
altogether, which `SavedIsKept` needs; it also says that what was claimed is on the
disk unless it is in `unsynced`. `Accounted` names the claim whose POST bought the
access URL: that one was not answered 403, and stays on record until it has saved.

**`ServeProofs`.** All safety properties of `Serve`, for any number of providers,
requests, days and claims. What the process resolved is no older than the store was
when it started (`Snapshot`), its clients are for just that while it may send
(`Connected`), no request is left when it closes them (`Quiet`), what a request asked
is of the process's own config (`Asked`), and each fault of the store now
is accounted for, as one that the check missed or that came since (`Explained`,
`Accounted`). `NumberedInOrder` is inductive by itself: each number up to
the count was given once, and the next one to nobody. Of `ManualVerify`, `DoneVerifies`
and `NothingStays`: the invariant says when the script's own server has the port and when it was told to stop
(`OwnServer`), that the directory is there from its making to its removal
(`OwnDirectory`), what became of the app (`OwnApp`), and what each check passed so far
has found (`Found`). No other server can have redeemed the token, so once it is
redeemed what was found is true of the script's own server, or that one has died since. What
is asked of an account needs that the accounts the script picks out of a list are members
of it, and the first of their kind.

**`ConfigLoadProofs`.** `BlameHolds`, `EveryIdResolves` and `AcceptsTheSound`, for any
file over any alphabet: the checks in the order the code makes them leave only faults that are
there, every `Config` passes the check that `RoundTrip` needs, and the load ends with a `Config`
exactly if the file is sound. `Sound` says what a good file is, of all entries at once; the code
finds faults one kind at a time, in lists and counts. So the proof shows for each check
that it faults no sound file, two of them by counting (keys are distinct exactly if there are
as many as entries, `AllCounted`) and by comparing prefixes in pairs (`InPairs`), and that a
file none of them faults is sound. `Known` says which checks have been passed at each stage.

**`UrlMatchingProofs`.** All properties of `UrlMatching` but the one a run refutes, for roots
and URLs of any length. `PrivacyHolds` and `BoundaryHolds`: if a text that ends in a slash is a prefix of
another with a slash put after it, it is one of the other itself or the other is the first
without that slash. `CauseHolds`: what the code accepts by comparing characters is what
belongs to the provider segment by segment (`ValidIsBelongs`). It lays out a text in
the pieces between its slashes (`Pieces`), and shows that one text starts another up to a
slash exactly if its pieces are the other's first (`PiecesOfStart`, `StartOfPieces`), and
that a dot segment found by position is a piece of dots (`DotsInPieces`). `UnderRootHolds`:
no piece after the root's is one of dots, since it would be in the path that
`HasDotSegment` has searched (`NoDotsSent`, where the root reaches into the path,
`OriginIsRoots`), and who goes on from a directory by other pieces stays under it
(`StaysUnder`).

## What is only model-checked

The liveness properties `EveryCallReturns`, `EveryCallEnds`, `StopEnds`,
`AcceptedIsAnswered` and `ScriptEnds`: liveness under fairness is out of reach of the
provers used here. That an accounts request and a provider claim end is checked as far as
`Serve` has them; `Accounts` and `ProviderClaim` state no fairness. That `AppTokens` may
take an update as four steps, and `ProviderClaim` as two, rests on `StateFile` refining
`AtomicStore`; they are not composed in one module. `Serve` likewise takes a claim or
a fetch as one step where `AppTokens` and `Accounts` say what it consists of.

## Disagreements found

Two that a run shows:

1. `merge` encodes the answer as UTF-8 without allowing for a lone surrogate that
   `json.loads` accepts in a provider's text. The request is answered 500, and the
   accounts of all providers are lost (`AccountsEncoding`). The README and a
   comment in `app.py` say 200 whatever a provider sends.
2. Under a custom root that ends in `//`, an access URL that ends in a single slash
   matches, since a slash is added before the comparison, and what is fetched then
   does not start with the root (`UrlDoubleSlash`). `url_validation.py` says that the
   string compared is the string fetched. The other properties of `UrlMatching` are
   stated for the roots without this ending.

Two that are plain from the code, which the models have and allow for:

3. The directory sync is best effort, so a saved update can be lost to a power
   cut after its secret was handed out. `_sync_directory` explains the choice;
   `docs/ARCHITECTURE.md` says of the claim that persisted means it survived a power
   cut. `unsynced` and `undone` in `AppTokens` and `ProviderClaim` are exactly this.
4. An unreadable store answers good credentials with 403. The README reserves 403 for
   credentials that are wrong; `docs/ARCHITECTURE.md` describes what the code does.

## What is not modelled

The probe at the end of `claim` beyond its URL: it only warns. Wording, permissions
and permission warnings, labels and times, `app list`'s table. Query parameters other
than `account`, which are passed on unchanged. Of a URL, what no check depends on:
fragments, the forms of an IPv6 address, punycode, what httpx2 refuses by itself.
base64 of a setup token. That `install_access_log_redaction` installs no second filter
if it is called twice, which one process never does. uvicorn's keep-alive and its
limits; it is modelled as far as `serve` relies on it. Two calls of `update_state_file`
nested in one thread, which the docstring rules out and no code does. A blank prefix
lets one provider's ids be asked of another; the architecture document concedes it, and
`NoNamedIdLeaks` says exactly how far it goes. Packaging has no state.

## Plan

1. *Done:* `AtomicStore`, `StateFile`, `AppTokens`, `Namespacing`, `Accounts` and
   `ProviderClaim`, with their proofs; `UrlMatching`, `ConfigLoad`, `TokenRegistry` with
   its refinement, `Serve`, `ManualVerify` and `ClientUrls`; the errors and the collision
   log of `Accounts`.
2. *Done:* every invariant that a run checks, as a theorem; the lemmas about flattened
   sequences and about texts cut at a delimiter that this needs.
3. `AppTokens` over `AtomicStore` itself, so that the four steps of an update follow
   from the refinement and not from its reading; likewise the two of `ProviderClaim`.
4. `Serve` as an abstraction of `Accounts`: a fetch and a response there are the ones here.
