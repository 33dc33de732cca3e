# TLA+ verification of frihet-mcp

This directory holds TLA+ models of the parts of frihet-mcp whose correctness
depends on the order of events, the TLC runs that check them on small
instances, and TLAPS proofs of their invariants for every value of the
constants. Paths below are relative to the root of the repository; `rw/` stands
for `workers/remote-mcp/src/`.

`PROJECT.json` relates every definition to the lines it models, lists the
runs with what each one checks, one mutant per property (a plausible bug in a
definition which makes TLC find that property violated), the hazards of the
code and the theorems.

## The system

frihet-mcp connects MCP clients (assistants) to the Frihet ERP API. The npm
package (`src/`) is an MCP server with an HTTP client; the remote worker
(`rw/`) serves the same tools over OAuth: a login provisions an ERP API key,
stores it in an OAuth grant, and revokes it when the grant is replaced, revoked
or replayed. A call of a tool goes through this chain:

```
 MCP client --> remote worker: fetch ---- /authorize, /callback ----> login callback ----> authorization state store (Durable Object)
                  |                                                        |--> provisioning authority (keys), OAuth provider (grants, KV)
                  |---- /token, /revoke ----> token endpoint ----> token family (the same Durable Object class)
                  |                                |--> OAuth provider (grants, KV)
                  `---- /mcp ----> session binding ----> FrihetMCP (Durable Object of the SDK)
                                                               |
 stdio client --> src/index.ts ------------------------> server composition, tool exposure, profiles
                                                               |
                                                        tools --> API client --> edge proxy --> Frihet ERP API
```

### Inventory

| component | state it keeps | operations | interacts with | what is hard | what makes it correct |
|---|---|---|---|---|---|
| authorization state store, `rw/oauth-state-store.ts` | one record per login (lease, arming, unproven attempts, counters, winner), a replacement outbox, an alarm | PUT /state, /reserve, /attempt, /commit, /release, alarm | called by the login callback; its alarm calls the provisioning authority | a lease is taken over while its holder runs; an alarm awaits the authorities before it writes and the object may stop in between; operations come between a commit and its alarm | what is stored stays readable, work has an alarm, a commit is final, everything is deleted in the end |
| login callback, `rw/auth-handler.ts`, `rw/oauth-provisioning.ts` | the local variables of one request | GET /authorize, POST /callback: reserve, reconcile, arm, provision, list, complete, commit (twice), replace, release | store, authority, provider | lost, late and unexecuted calls, two requests of one login, an alarm that runs between two calls of a request | one code and one live key per login, no key that nobody remembers, prior grants retired only by a login that won |
| token family, `rw/oauth-state-store.ts` | one record per grant (live credential, spent ones, a lease, a tombstone), a cleanup intent, an alarm | PUT, /begin, /check, /status, /commit, /abort, /revoke, /supersede, alarm | called by the token endpoint and the login callback; its alarm calls the authority and the provider | writes torn by a crash, a cleanup of two halves | a tombstone lasts until the tokens expire, a cleanup ends only when both halves are acknowledged |
| token endpoint, `rw/oauth-token-family.ts`, `rw/index.ts` | the local variables of one request | /token (code, refresh), the policy pause of the Claude host, /revoke, the access-token guard | family, provider, KV | eventually consistent KV, two accepted refresh tokens, lost answers, replays | a credential is exchanged once, only the newest is usable, a replay ends the family and is never answered "try again later" |
| API client, `src/client.ts`, `src/retry-after.ts`, `src/fetch-no-redirect.ts`, outcomes of `src/tools/shared.ts` | per call: attempts, idempotency key, time slept | request, fetchRaw, requestDocument, handleToolError | tools above, edge proxy and API below | an aborted attempt executes later; waits beyond a timer | a write happens once, its outcome is reported honestly, waits are honoured, calls end |
| API edge proxy, `workers/api-proxy/worker.js` | none | forward a request and an answer | API client, API | drops headers, answers 502 for an aborted upstream call | what the client relies on passes |
| MCP session binding, `rw/mcp-session-binding.ts`, guards of /mcp in `rw/index.ts` | none; the tag in a session id, the props in a session object | bind, unbind, check of family, profile and policy, init() | the SDK's Durable Objects, the token family | a session outlives its login, a revocation and a change of the policy | a session serves the login it was opened by, on its host, while that login is good |
| bounded request bodies, `rw/bounded-request-body.ts` | bytes read so far | read up to a limit, rebuild the request | the worker, before the OAuth provider and before a tool call | declared and actual lengths, the chunk that passes the limit | never more than the limit, never a body that is not what was sent |
| remote worker routing and access profiles, `rw/index.ts`, `rw/oauth-profile.ts`, `rw/claude-public-surface.ts`, `rw/openapi-safety.ts` | none | one request: about twenty checks in order, the token form, the grant of an exchange, the choice of profile | all of the worker | the worker and the OAuth provider read paths and forms each in its own way | no route without its guard, no document of another host, no exchange the family does not guard |
| login page and public documents, `rw/login-page.ts` ... | none | render | - | - | - |
| reviewed tool profiles, `src/openai-profile.ts`, `src/claude-profile.ts`, `src/google-profile.ts`, `src/muse-profile.ts` | none | wrap a tool: allow-list, hints, confirmation, forced drafts, contract, outcome guidance | tools, server composition | the outcome of a call whose answer is lost or does not fit | nothing changes without consent; the guidance is right for what happened |
| tools, `src/tools/` | none | 156 tools of one to three requests | API client | the few that send several requests; hints kept by hand | hints are true of what the handler sends |
| tool exposure and server composition, `src/capability-truth.ts`, `src/tool-exposure.ts`, `src/server-composition.ts`, `src/fiscal-aliases.ts` | the catalogue, none after start | wrap registerTool once per profile, register, alias | tools, profiles | the order of the wrappers | every surface and its discovery tools say the same, and say what is so |
| daily operational brief, `src/workflows/daily-operational-brief.ts` | none | five reads, then the activities of some clients; classification, sums | API client | no snapshot; cents | coverage and amounts claim no more than was read |
| prompts, resources, onboarding; observability; demo client and canary; release tooling, plugins, documentation | static | - | - | - | - |

### Where it is hard

* *Interleaving.* A Durable Object handles one event at a time only between
  awaits, so its handlers and its alarm run under `blockConcurrencyWhile`
  (`rw/oauth-state-store.ts:1365`): no operation of the object comes between the
  read and the write of another, nor between those of an alarm. But the alarm
  awaits the authorities, and meanwhile the requests of the worker, the authority
  and the provider go on: a POST arrives late, a grant is written that the alarm
  just had deleted. Requests of one login or one grant race freely.
* *Unreliable delivery.* Every call between the request, the object, the
  authority, the provider and the API can fail before it was executed, after
  it, or be executed after its caller has given up.
* *Crashes.* A request of the worker may stop anywhere. A Durable Object may
  stop between two writes of one handler and loses its memory, not its storage
  or its alarm.
* *Stale state.* The OAuth grant lives in an eventually consistent KV.
* *Time.* Leases, states, families, keys and tokens expire at different times;
  waits have budgets and limits of what a timer can hold.

The full list, at the lines where each one bites, is in `PROJECT.json` under
`hazards`.

## The modules

| module | models | state | actions |
|---|---|---|---|
| `OAuthStateStore` | the Durable Object of one login | `status` ... `committedBy` are the stored record, `outbox` the stored replacement outbox, `alarm`, `job` what a running `alarm()` awaits | `PutState`, `Reserve`, `Arm`, `Commit`, `Release`, `AlarmFires`, `JobAnswer`, `JobFinish`, `StoreCrash`, `Tick` |
| `OAuthCallback` (extends it) | the requests to POST /callback, the authority and the provider's grants | `pc`, `todo`, `proven`, `listed` are a request's local variables; `auth`, `posts` the authority; `grants` the provider; `lateCommit` a commit still on its way | one per await of the handler, `ReserveState` to `ReleaseState`; the authority's `Mint`, `RejectProvision`, `FailProvision`; `LateCommit` |
| `OneShotAuthorization` | what one login promises | `holders`, `winner`, `answered` | `Acquire`, `GiveUp`, `Win`, `Answer` |
| `OAuthTokenFamily` | the Durable Object of one grant's family | the stored record, the spent credentials, `cleanup`, `alarm`, `job` | `Initialize`, `Begin`, `Commit`, `Status`, `Abort`, `Revoke`, `Supersede`, `AlarmFires`, `JobAnswer`, `JobFinish`, `FamilyCrash`, `Tick` |
| `OAuthTokenExchange` (extends it) | the token endpoint, /revoke, the access-token guard, the provider's grant in KV and the bound key | `rpc`, `presents` per request; `kv`, `past` the KV and what a stale read may return | one per await of the exchange, `Present` to `CallCheck`; `RevokeToken`, `UseAccessToken`, `CleanupGrant`, `CleanupKey` |
| `TokenChain` | what the credentials of one grant promise, without requests, leases or alarms | `links`, `tried`, `pending`, `revoked`, `expired` | `Start`, `Answer`, `GiveUp`, `Revoke`, `Refuse`, `Expire`, `Forget` |
| `ApiClient` | request, fetchRaw and requestDocument with their retries, the API, the edge proxy, the result a tool reports | `at`, `req`, `wait` per call; `wire`, `answers`, `effects` the API's side | `Start`, `RejectLocally`, `FetchFails`, `RateLimited`, `Retry`, `Refused`, `KeyInProgress`, `ServerFails`, `Succeeds`, `ReadFails`, `Execute` |
| `OneCall` | what the writes of the client promise, without attempts, limits, timers or retries | `intent`, `may`, `changes`, `told` | `Ask`, `AskAgain`, `Lapse`, `Happen`, `Tell` |
| `SessionBinding` | the guards of /mcp, the ids handed to clients, the session objects of the three hosts, logins with revocations and the admission policy | `props`, `ended`, `admitted` the logins; `object` the session objects, `tags` the ids handed out; `req` the requests; `reached` is history | `LogIn`, `EndFamily`, `ChangePolicy`; `Send`, `Guard`, `OpenSession`, `UseSession` per request |
| `PolicyPause` (extends `OAuthTokenExchange`) | exchanges of users whom the admission policy holds back, beside the others | `at`, `shows` per held request; `late` is history | `Arrive`, `CallCheckHeld`, `CallStatus`, `CallCreate`, `CallRevokeHeld` |
| `WorkerRouting` | `fetch` of the worker: one request and its reply | `asked`, `reply` | `Ask`; `Route` is the sequence of the checks, `Provider` what is left to the OAuth provider |
| `RemoteWorker` | `SessionBinding` beside `WorkerRouting` | | `SessionStep`, `AskStep` |
| `ReviewedGrant` | the checks and lifetimes of a grant that is exchanged | none: operators | |
| `ToolCatalogue` | the 156 tools: hints, requests, refusals | none: one record per tool | |
| `ClientEndpoints` | the methods of `FrihetClient`: verb, resource, effect | none: one record per method | |
| `ToolSurface` | the profiles, the wrappers of registerTool, the discovery catalogue, the aliases | none: `RegisterMcpSurface(s)` is what the surface `s` shows, `Offers` what `ToolCalls` is given | |
| `ToolCalls` | a tool of a surface, called once or repeated | `offer`, `given`, `step`, `answer` the call; `effects`, `wire`, `vendors` the ERP | `FirstCall`, `RepeatCall`, `Served`, `Lost`, `Refused`, `Missing`, `LateEffect` |
| `BoundedBody` | the reader of one body under a limit | `declared`, `sizeBytes`, `kept`, `sent`, `reading` | `Open`, `ReadChunk`, `BreakOff`, `Finish` |
| `RemoteCalls` | `ToolCalls` behind `BoundedBody` | | `ReadBody`, `RemoteFirstCall`, `AfterwardStep` |
| `DocumentAmount` | resolveDocumentAmount and the sums of amounts | none: operators | |
| `DailyBrief` (extends it) | the reads of a brief while the ERP changes, and its report | `existing`, `status`, `changes` the ERP; `pages`, `inspected`, `crm` the reads; `stable` is history | `Read`, `ChooseClients`, `ReadActivities`, `Report`, `ReadFails`; `Create`, `Remove`, `Move` |
| `*Proofs` | the theorems of the module they are named after; `OAuthTokenExchangeProofs` also those of `PolicyPause`, `RemoteWorkerProofs` those of `SessionBinding`, `WorkerRouting` and `ReviewedGrant`, `RemoteCallsProofs` those of `ToolCalls` and `BoundedBody`, `DailyBriefProofs` those of `DocumentAmount` | | |
| `MC*` | the values TLC gives the constants | | |

How the code maps to the models:

* **A handler is one step where the object says so.** The store and the family
  run each `fetch` in `blockConcurrencyWhile`, and `alarm()` too. It awaits the authorities,
  so it is a first step (the transaction that sets the next alarm), one answer at
  a time, and the write of what was proven. No operation of the object is enabled until it is
  over (`job`); what others do is, and `StoreCrash` or `FamilyCrash` can come before each step.
* **A crash between writes.** The family's two handlers that write twice outside a
  transaction have the reply "crashed" with only the first write done. PUT /state
  also writes twice; the model keeps the two together, because no login id leaves
  the worker unless the request answered.
* **deleteAll keeps the alarm**, as the worker's `compatibility_date`
  (`workers/remote-mcp/wrangler.toml:3`) makes it.
* **Names for random values.** The `leaseId` and the `correlationId` are drawn
  together in /reserve; both are named by the request. So is the refresh token that
  an exchange obtains. A credential of the family stands for its hash, which
  covers its kind.
* **A call and its answer are one step with four outcomes**: executed and
  answered, executed with the answer lost, never executed, and, where it makes
  a difference, executed after the caller gave up (`posts`, `lateCommit`, `wire`).
  A request that stops is one that takes no further step.
* **Backoff** (`cleanupBackoffMs`) is any member of `RetryDelays`.
* **KV is eventually consistent**: a read returns the grant or any earlier record of
  it. The provider accepts the current refresh token and the one before, refuses
  everything after `GrantExpiry`, and writes without looking again. The provider
  package, the authority and the ERP API are not part of the repository; they are
  modelled from how the code calls them and are marked external in the map.
* **The API** executes an attempt at most once and answers a repeated
  idempotency key from what it saved (`X-Idempotent-Replayed`,
  `IDEMPOTENCY_REQUEST_IN_PROGRESS`). A 4xx means that the attempt was not taken.
  Of the calls in `EarlyLimited` that holds of a 429 as well; a 429 may also answer
  an attempt of the others that is executed. Time is in abstract units; the API's and
  the client's clocks agree.
* **Sessions.** A login, its grant and its key share one name; logging in again is
  another login, of the same user or not. A fingerprint and an HMAC are records of
  what they cover. Clients may present any raw id with any tag ever handed out, on any
  host. The hosts share KV and signing secret in the model, the mistake that
  `FrihetMCP.init` guards against; which tokens the OAuth provider would refuse by
  itself is not relied on. An object that was evicted starts again with the props it stored or with
  those of the request, for the repository does not settle which. Full-host
  logins are legacy grants, which name no profile, or API keys sent directly. "POST"
  is any method but DELETE. The policy is read when the request arrives; of a
  refused request only its status is kept.
* **Routes.** A route keeps no state, so that `Route` is a function of the profile and
  the request, and each check of `fetch` is an operator that gives a reply or passes.
  A path is a name and a spelling (plain, escaped, in capitals, with a slash); a form
  has a sequence of values per parameter, which is what a repeated parameter is.
  `client_secret` and `token_type_hint` are treated like `client_id` and left out, and
  so is a client named by a Basic header. The provider's reading of a form
  (`ProviderDoes`) takes any of the values of a repeated parameter.
* **Tools.** A request of a handler is a method of the client; whether the ERP adds,
  sets or removes something is the ERP's side and external, taken from
  what the repository's comments, descriptions and tests say of the endpoints: a payload that
  carries an amount to move, and an answer with what remains, is a movement. What leaves
  the ERP with a write (an event, an email, a filing, money) is taken from
  `EXTERNAL_SIDE_EFFECTS` (`DeliveringTools`); for `update_vendor`, the pause and resumption of a
  recurring invoice and the verification of a domain it names no delivery, so that the runs say
  nothing of their place in `NON_IDEMPOTENT`. A request of
  unknown outcome may have taken effect, may still, or never will, which is what
  `ApiClient` shows of one. An offer is a tool of a surface, with the hints
  tools/list shows and those the discovery tools show.
* **A held exchange** (`PolicyPause`) comes after the provider has accepted its
  credential; one that the provider refuses is an exchange of `OAuthTokenExchange`.
* **Money** is in cents and rates in percent, so that `roundCurrency` is exact; the
  error of floating-point products before a rounding is left out.

## What the runs check

Sizes are distinct states, times those of two workers.

| run | instance | size | what it shows |
|---|---|---|---|
| `store` | 4 callbacks, 3 attempts, one prior grant, all lifetimes expire | 23 k, 6 s | Against callers that send any operation at any time: no sequence of operations writes a record that the reader rejects (and would delete with all it remembers); an armed lease never stands beside an unproven attempt; stored work has an alarm; one lease commits; every login and its outbox are deleted in the end. |
| `callback` | 2 callbacks, one prior grant, clock to 6 | 1.8 M, 100 s | At most one live key; no key is live that neither the store, nor the winner's grant remembers, before the horizon; a code is given with a live key; prior grants live until the commit; the outbox loses only acknowledged grants; the whole implements `OneShotAuthorization`. |
| `family` | 2 requests, 3 credentials, clock to 6 | 36 k, 7 s | A cleanup intent has an alarm; a revoked family stays revoked until its tokens are dead; a cleanup completes. Deadlock is checked. |
| `exchange` | 3 exchanges and a held one, clock to 3 | 6.5 M, 170 s | A credential is exchanged once, a replay revokes the family, a finished cleanup disabled the key, and no replay of a user whom the policy holds back is told to come back later, on stale reads, lost answers, dead workers. |
| `exchange_chain` | 3 exchanges, clock to 4, past the grant's expiry and the family's | 1.6 M, 60 s | The exchanges implement `TokenChain`: from the code on, each credential is tried for the next one once, a second try or a revocation ends the chain, and nothing is handed out after that, so that only the newest is usable. |
| `api` | 2 calls that may share a key, one behind a limiter that answers first, a budget and waits beyond a timer | 465 k, 120 s | A write intent changes the ERP once; a call never retries before the wait a server asked for; a failure that is not flagged as unknown changed nothing and never will; every call ends. The whole implements `OneCall`: one effect for an intent, one word for a call, which stays true. |
| `sessions` | 2 logins of one user, 3 hosts, 3 requests, 2 session ids; every request of `Sent` on every profile | 1.3 M, 75 s | A session id is of use only with the login it was handed to; a token reaches the sessions of its own host only; a revoked login reaches no session, open ones included, and one the policy holds back only closes them. Whatever the spelling, only an authenticated request for /mcp itself reaches a session; a reviewed host shows its own documents; what the provider exchanges or revokes is what the family guards. |
| `tools` | every tool of every surface, 2 calls, a limit of 3 bytes | 244 k, 7 s | Read-only tools change nothing; repeats of tools shown as idempotent add no record or movement and send out no second event, email or filing; answers are honest, and name a vendor left behind; nothing changes without consent where it is asked; discovery says what tools/list says; bodies stay within their limit. |
| `brief` | 8 sets of documents, 4 lists and the activities, pages of 2, one change | 121 k, 27 s | A brief that is not partial inspected every record that was there all the time; no total is made of amounts that are unknown or of several currencies; a discount is shared to the cent. |
| `callback_abort`, `exchange_gone`, `api_proxied` | small | few states | See the findings. |

Why the bounds are enough. Two callbacks show every pairwise race of one login; that
a lease may be taken over twice in a row is proved. Three exchanges are a chain of two rotations with a replay, or two replays of
one credential. Two calls of the API client suffice to share a key, and three
attempts each (`MaxRetries = 2`) to exceed the budget; of the waits a server asks for, one
fits the budget and one is beyond what a timer and a number can hold. Two logins are of one user, the
harder case for the binding: the fingerprints differ in the key alone. Lifetimes are small
numbers in the order of the real ones: a lease ends before a state, a state before
the horizon of its reconciliation, a grant's key (30 days) before a superseded
family (31 days). Clocks are bounded (`MaxNow`). In `store` it is at least the
state's lifetime plus the horizon plus the longest retry delay, so that what has to
be deleted can be. In `exchange_chain`
the grant expires before a family that was created without its expiry, so that the record
is used and forgotten after the grant; nobody is held back there, for `exchange` does that.
In `tools` a second call (`MaxTurn = 2`) is a repeat, and a third could only
add what the second did; a handler sends its write last, and one that writes reports what the write came to
(`WriteComesLast` and `WritersReport`, which TLC checks of every tool). In `sessions` a
routed request ends the behaviour, for a route neither reads nor changes what the sessions
keep. In `brief` one change (`MaxChanges`)
falls between any two reads. The other bounds are `MaxAttempts` (a constant of
the code), `MaxReplaced` and `MaxRetries` (also constants of the code).

`CHECK_DEADLOCK FALSE` stands where the system may stop: the clock of `store`,
`callback` and `exchange` is bounded, in `api` and `tools` all calls may be done, in
`sessions` all requests answered, and in `brief` the brief is made.
Symmetry is used over callbacks, exchanges, and logins with
their requests and sessions, never in a run
that checks liveness.

For each property of a passing run `PROJECT.json` lists a mutant: a
definition in the models whose comment starts with "Mutant". No specification
uses these; in the place of the definition they stand before, they break the property.

### Fairness

* `store`: weak fairness of the clock, of the alarm (a set alarm runs when it
  is due; the platform retries it), of the answers a running alarm awaits
  (every fetch has a timeout) and of the write that follows. Nothing is assumed of
  the callers, of what the awaited calls answer, or of crashes: the alarm of the horizon
  deletes what is left.
* `family`: the same, and strong fairness of the positive answer of each authority,
  for a revocation is idempotent and retried for ever. Without it nothing could be
  said of an authority that is down for good. Crashes may occur
  any finite number of times (`CleanupCompletes` assumes that they stop).
* `api`: weak fairness of the end of an attempt (the abort timer fires) and
  of the end of a sleep.

## What is proved

All theorems hold for every value of the constants that satisfies the named
assumptions of the modules: any number of callbacks, requests and calls, any
lifetimes in the stated order, any bound of the clock.

**Store** (`OAuthStateStoreProofs`). `StoreInv` adds to the checked invariants that
the lease is that of a request which drew it (`LeaseIsItsHolder`, `NamesMinted`), that
what a running alarm awaits is in the record it read (`JobMatchesRecord`), and that a
winner's state is not pending (`WinnerEndsPending`). Without `NamesMinted` the counter of
attempts could not be compared with the attempts recorded, which is what keeps the
record readable; without `JobMatchesRecord` an answer could remove an attempt that was
never asked. One lemma per operation shows that it keeps `StoreInv`; `CommitIsFinal`
follows because the leases ever drawn only grow.

**Callback** (`OAuthCallbackProofs`). `CallbackUsesStore` shows that the protocol takes
steps of the store or none, so `StoreInv` holds under it. `CallbackInv` adds three parts.
`KeyInv`: a request that may hold a key is pending in the record, has won, or its horizon
is past (`RiskIsTracked`); at most one request is at risk (`OneAtRisk`), because one is
armed only when every earlier attempt was proven dead, and what is proven is tombstoned
(`ProofsAreTombstones`, against a POST that arrives late). `WinInv`: a request is revoked by
others only once its lease is gone (`TodoIsSuperseded`), so the winner's key is kept.
`GrantInv`: what is listed and queued was written before, and never is the winner's own.
`OneLoginOneCredential`, `NoCredentialIsForgotten`, `IssuedCodeIsUsable` and
`PriorGrantsOutliveFailedLogins` are read off it, for any number of requests, takeovers,
crashes and lost or late answers; `OutboxLosesNoGrant` and the refinement of
`OneShotAuthorization` (`CallbacksImplementOneShot`) go through the actions one by one.

**Family** (`OAuthTokenFamilyProofs`). `FamilyInv` adds `CleanupIsOfTombstone` (an
intent belongs to a revoked record), `JobIsOfCleanup` and `OutlivesGrant` (a
record expires no earlier than the tokens it refuses). The last is what the tombstone's
theorem rests on, from `GrantExpiry <= FamilyTTL <= SupersedeTTL`.

**Exchange** (`OAuthTokenExchangeProofs`). Every step of the token endpoint is a step
of the family or a stutter (`ExchangeImplementsFamily`), so the family's theorems hold
under it. `ExchangeInv` then says, of each place an exchange can be in, what the family
and the KV hold of the credential it presents: `CoreInv` for the single use,
`KeyInv` for the key. `OneUsableCredential`, that only the newest credential can start an exchange
while the grant lasts, is a conjunct of `CoreInv` and proved (`OnlyTheHeadIsUsable`), and on no
run of its own: `exchange_chain` checks more.

`ExchangesFormAChain` is the refinement of `TokenChain`: the pairs of a released exchange and
what it presented are the links, those of the exchanges that may still answer (`Answering`: they
hold the lease and have, or may still get, what the provider wrote) the pending try. Most steps
start and answer nothing, and one lemma shows of all these that they end, forget or keep what the
chain has (`QuietStepOfChain`); /begin and /commit have one each. It needs of `ExchangeInv` that
the lease is of the current credential and that what was used is spent. `ChainsHaveOneHead` is
about the chain alone: of all credentials handed out at most one is untried. With the
refinement that becomes `OneCredentialIsUnused` of the token endpoint, which holds past the
expiry too.

**Policy pause** (`OAuthTokenExchangeProofs`). A held request is one more caller of the family
that mints nothing, so it keeps `ExchangeInv` (`PausesKeepTheExchange`) and is no try of
the chain (`PausesKeepTheChain`).
`PauseInv` adds to it that a credential spent before its request came is never taken
for the current one, and that a request which judges a family found it stored
(`JudgedIsStored`). It rests on `FamilyRemembers`: as long as the grant lasts, what
was spent stays spent and what was stored stays stored.

**API client** (`ApiClientProofs`). `ClientInv` relates a call to the attempts it left
behind: attempts carry their call's key, fresh keys are never drawn twice, a key
executes once, a call of `EarlyLimited` that sleeps or sends again left no attempt
behind that a 429 answered. `ServerWaitStaysHonored` assumes that the client talks to the
API directly; the assumption is in the theorem, and finding 3 shows what happens without it.

`CallsImplementOneCall` is the refinement of `OneCall`: a call's intent is the key of its write,
it may still take effect while one of its attempts is on the wire, and its word is what
handleToolError makes of its result (`Told`; "unknown" also where a 429 does not say that the
attempt was not taken). The three shapes of a step go to `Ask` or `AskAgain`, to `Lapse` or
`Tell`, and to `Happen`. A call that sent nothing is no write (`UnsentIsRead`), and `ClientInv`
gives what `Tell` needs of each word. `WordsAreKept` is about the abstract calls alone.
`ReportsAreFinal`, an action property, says that no step goes on with a call that was reported.

**Sessions** (`RemoteWorkerProofs`). `SessionInv` says that every tag handed out is the
fingerprint of an existing login, that a session object's id carries its owner's tag
(`ObjectsAreTagged`: without it, an id that unbinds for a login would say nothing of the
object behind it), that a request carries a tag only if it was handed out, and that what
passed a guard satisfied it when it was sent. The three invariants of the sessions follow for
any number of logins, users, requests and sessions.

**Routes** (the same module). `Route` is the first reply of a sequence of checks, so that a
request which a check did not let pass has that check's reply, and one that came to a later
check passed all before it (`RouteIsACheck`, `PassedRoute`). What is said of a route is then
said of one check: of sessions (`SessionRoute`), of what is shown (`ShownOnReviewed`), of the
token endpoint (`TokenRoute`). `TheGuardAndTheProviderAgree` needs that a form which was
allowed has one reading (`OneReading`), proved for forms of any length and any words. The
composition with the sessions is `WorkerKeepsSessions`: no routed request changes what they keep.

**Grants** (the same module). Whatever the grant says, the tokens of an exchange
are dead a minute before the key they carry, and a grant that one reviewed host
exchanges the other one refuses. These are lemmas about the operators, for all inputs.

**Bodies** (`RemoteCallsProofs`). `BodyInv` relates the bytes counted, kept and sent; the
limit is exact for every limit, every declared length and every way a body is split.

**Tool calls** (the same module). The theorems are about any set of offers that satisfies
`WriteComesLast` and `WritersReport`, not the catalogue alone. `CallInv` says that a handler
which still sends has changed nothing, because its write comes last, and that an answer tells
what its result was made of. `AskInv` says that each change was asked for the way its tool
requires, and that a call is repeated only on a hint that was shown. `VendorsAreDisclosed`
follows from these. The other theorems carry a condition on the offers and name it:
`HintsFit` (a tool that writes is not shown as read-only, one that adds or sends out
something not as idempotent, but for the two `AmountMovers`)
for `ReadOnlyIsKept`, `RepeatsAreHarmless` and `FittingCatalogueIsHonest`; `ConsentFits` (a
tool that writes is asked about, forced to a draft or shown as destructive, as the profile has
it) for `ConsentComesFirst`. Each condition is about one registration and no behaviour: it is
what a new tool has to be held against. That the tools of the repository meet it is what the
run `tools` shows, for an offer that does not meet it breaks the property within two calls:
a write that is served, and a repeat. `AnswersStayHonest` takes the invariant that is checked,
`[]ReadOnlyToolsChangeNothing`, as its condition instead.

`DiscoveryStaysTruthful` is about the surfaces themselves. It follows a registration through
`RegisterMcpSurface`: the profiles pass on whether it has an entry and a capability
(`AllowListKeeps`, `CapabilityKeeps`); the exposure records an entry last, of what it hands on
(`ExposureRecords`), so that an entry is what tools/list shows, whatever the tools are
(`WrappedIsListed`); an alias has no entry and the capability of its tool. It rests on two facts
of the tables, `UnavailableFits` and `DiscoveryNamesAreFree`, which `ToolSurface` assumes, so
that TLC evaluates them for all 156 tools. `RemoteCallsAreBoth` carries all of this to the
worker that reads the body first.

**Brief** (`DailyBriefProofs`). The argument counts: a page has as many different records as
there were when it was read, hence all of them, if it has as many as the total says
(`APageCounts`), and what is `stable` was among them; the clients inspected are all of a page
if they are as many as it is to cover (`AllWereInspected`). It needs that the collections share
no record and that the records are finitely many (`BriefAssumption`), and of the ERP that no
activity outlives its client.

**Amounts** (the same module). What the theorems say of a document's amount they say of sums
over its lines and its rates, for any number of both. The library's induction theorems cannot be
used here, so what they would give is proved from the definitions of the folds:
of a finite set for which a statement about sums fails there is a smallest part for which it fails
(`MinimalPart`, from the well-foundedness of strict inclusion), which has an element to take
away. That sums exist, that terms add up one by one and part by part (`SumAdds`, `DisjointPartsAdd`,
`ClassesAddUp`) and that shares rounded one by one stay within half a unit each
(`SharesStayClose`) then give `DiscountsAreShared`: the lowest rate, which takes what is
left, is as close to its share as the others allow. The same facts make a derived total an
amount (`DerivedTotalIsAmount`), on which `TotalsAreTrue` rests. `AmountAssumption` says of the
inputs what the code has checked when it derives a total: rates from 0 to 100, no negative
quantity or price, finitely many lines.

The type invariants of the store, the callback, the family, the exchange with its pauses,
the client, the sessions, the body and the calls are proved in these modules and spent on
no run.

### Only model-checked

* Liveness (`StateIsCleared`, `CleanupCompletes`, `EveryCallEnds`): TLAPS has no rules for
  fairness here.
* The facts of the 156 fixed records of the catalogue: `WriteComesLast`, `WritersReport` and
  `CatalogueAssumption`, which TLC evaluates, and `HintsFit` and `ConsentFits`, which the
  properties of `tools` show.
* That the three violations of the findings exist.

## Findings

1. **The alarm can retire the prior grant of an aborted login** (`callback_abort`).
   `rw/oauth-state-store.ts:1055-1058` says that the release of an aborted commit
   disarms the replacement outbox "so the user's prior working grant survives". The
   commit sets the alarm to the next millisecond (1024-1026), and the alarm drains
   the outbox while the holder, who lost both answers, still awaits its own revocations.
2. **A tombstoned family can leave its grant in KV** (`exchange_gone`). The
   provider writes the rotated grant after the cleanup deleted the old one; the
   exchange's own revocation joins the intent under way (664) with its
   half of the grant already done. `rw/oauth-token-family.ts:238-240` promises that the
   cleanup revokes grant and key. The tombstone still refuses the grant's tokens.
3. **The edge proxy drops `retry-after`** (`api_proxied`). `workers/api-proxy/worker.js:349`
   does not name it among the headers it passes; `src/client.ts:875-879` says that a
   server's wait is never shortened.

Also seen while modelling, and stated by no run:

* A 409 whose body cannot be read loses its code in the catch at `src/client.ts:593` and
  reads as a plain conflict; `src/openai-profile.ts:1651-1653` calls an in-progress
  answer ambiguous.
* `refund_sale` (`src/tools/pos.ts:139-206`) and `apply_deposit`
  (`src/tools/deposits.ts:203-238`) are shown as idempotent although a partial refund or
  application can be repeated, each a new request with a key of its own:
  `src/deposit-contract.ts:26-30` takes any positive amount and the test answers
  it with what remains (`src/__tests__/deposits-tools.test.ts:242`).
  `refund_deposit`, which is like them, is registered as not idempotent
  (`src/tools/deposits.ts:254`). `RepeatsAddNothing` leaves the two out by name
  (`AmountMovers`); without that TLC finds both.
* The Google and Muse surfaces do not pass through applyPublicCapabilityTruth, so that
  `create_invoice` and others are shown there as not open-world
  (`src/capability-truth.ts:9-10`).
* When a committed write returns what the output schema does not fit, surfaces other than
  OpenAI's answer with the SDK's plain validation error; `AnswersAreHonest` says so.
* A worker that stops between the provider's deletion of a grant and the revocation of
  its family leaves the key live until it expires (`rw/oauth-token-family.ts:824`).
* A held exchange whose own read of the grant is staler than the provider's ends a family
  whose credential is current (`rw/oauth-token-family.ts:448-467`), where
  `rw/index.ts:1116` means to preserve it: fail-closed.
* The lowest rate of a document can be left a base of minus one cent
  (`DiscountIsShared` allows half a cent per rate); a list without `total` makes the brief
  partial.
* describe_tool does not know the fiscal aliases.
* `rw/index.ts:1218-1219` rejects lookalikes of /mcp "before HEAD/OPTIONS/default routing
  can turn them into a 200", but `isMcpRouteConfusion` lets a path pass that decodes to
  /mcp (`rw/mcp-session-binding.ts:83-94`), so that HEAD /%6Dcp gets the generic 200 on the
  full and the OpenAI host (1334), a route nobody serves: every other method of it is
  refused. `WorkerRouting` has that answer; `SessionsSeeCanonicalRequests` speaks of
  sessions alone, and none is reached.

## Not modelled, and why

* Left out of the modelled components: paths, bodies and answers of the API client's
  endpoint methods and the validation of arguments; field lists, titles, texts and the
  formatting of tool results; groups and scores of the tool search; the texts of the
  daily brief; the 502 of the session binding for a response that changed identity,
  which no session object of the model sends. /abort of the family has
  no caller in the repository but is an operation of the object and modelled there.
* Partly modelled: the edge proxy (its documents and CORS answers are left out), the
  reviewed profiles (redaction and the reviewed output schemas are abstracted to
  whether a result fits), and the routing (headers, the 401 challenge, the choice of
  the API URL and the check of a served OpenAPI document are left out).
* The login page, the public documents, prompts, resources, onboarding,
  observability, demo client, canary and release tooling keep no state that another
  component reads, or are static.

## Plan

Done: the store, the callback and its abstract specification, the family, the token
endpoint with its policy pause, the API client with the proxy, the session binding, the
routing, bounded bodies, the tools with their profiles and composition, the daily brief, the
abstract chain of credentials and the abstract call; the proofs above.

Every safety property of a passing run is stated by a theorem.

Next, in this order:

1. `GrantReplacement`, the store's outbox against the families of the grants it supersedes.
2. Pure algorithms: `cleanupBackoffMs` and `parseRetryAfter` against reference
   definitions over bounded inputs.

The runs stay few: a new module shares the instance of a module it composes with where
it can.
