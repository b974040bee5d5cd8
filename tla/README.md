# Verification of osac-ux

TLA+ specifications of the OSAC user interface (the React SPA under `src/apps` and
`src/libs/ui-components`) and of the Go proxy in front of it (`src/proxy`): what the code does when
several tabs, requests, callbacks and servers act at once. TLC checks the specifications on small
instances; TLAPS proves the safety properties named below for every instance.

## The system

A browser runs the SPA in one or more tabs. The tabs share an origin: its cookies, its Web Locks and its
local storage. Each tab talks to the proxy, which serves the SPA, runs the OIDC code flow against
Keycloak, keeps the tokens in HttpOnly cookies, adds them to calls to the fulfillment service, and
bridges the console WebSocket to console-proxy. The proxy keeps no session: all session state is in the
browser's cookies, and changes only when a response arrives there.

| Component | State | Operations | Interacts with |
|---|---|---|---|
| Login hook (`oidc-login.tsx`) | loading, user, timer, expiry in sessionStorage | load, callback, refresh timer, logout | proxy session handlers, Keycloak (by navigation) |
| Proxy session handlers (`proxy/auth`) | none; token and auth-flow cookies; issuer and discovery caches | `/api/login` (GET, POST), `/info`, `/refresh`, `/api/logout` | Keycloak, fulfillment service |
| Console session hook (`useConsoleSession.ts`, `console-websocket.ts`) | state, error kind, attempt id, lock handle, socket | connect, take over, viewer error, cleanup, socket listeners | Web Locks, ticket cookie, fulfillment service, console-proxy |
| Console view (`VmConsoleView`, `VmConsoleTab`, viewers) | transport, loaded viewer, RFB or terminal | load viewer, render, report errors, switch transport | console session hook |
| Proxy console bridge (`consoleticket.go`, `consolews.go`) | none; the ticket cookie | move the ticket to a cookie, clear it, promote it at the handshake | fulfillment service, console-proxy |
| Security group page (`SecurityGroupDetailPage`, `SecurityGroupRuleModal`) | open dialog with a row's index, its mutation | add, edit, delete a rule; dismiss | query layer |
| Provisioning and resource wizards (`ProvisioningWizard`, `OSACWizardFooter`, `LeaveFormConfirmation`) | step, steps reached, form values, alert, error, pending, leave question | next, back, jump, pick, type, create, cancel, Escape, links, deep link | query layer, router |
| External IPs of a machine's or cluster's page | two dialogs, two queries, the requests under way | attach, detach, poll | query layer |
| Virtual network page: subnets | list, dialog, request | create a subnet, poll | query layer, CIDR arithmetic |
| Storage edit pages (`StorageBackendCreatePage`, `StorageTierCreatePage`) | the form and the copy it was filled from | open, type, save with an optimistic lock | query layer |
| API query layer (`api/`) | the query cache | list, get, mutate, invalidate, poll after create, update masks | proxy |
| Validation, CIDR arithmetic, filters | none | pure functions | forms |
| Pages, tables, charts, translations, mock backend, generated types | rendering only | | query layer |

What makes this hard: every `await` in a hook is a point where the view may be unmounted, the transport
switched, the tab closed or another tab may act; cookies and locks are shared by tabs that do not see
each other; responses are delivered in another order than they were computed; requests are lost; fire and
forget requests land at any later time; Keycloak ends or rotates what the browser still holds.

What correct means, component by component:

* *Console*: an abandoned attempt leaves neither a socket nor a lock behind; a view that shows no
  connection holds nothing; a live socket is covered by the resource's lock, so a tab loses its console
  only to a take over; no view says "Connecting" for ever.
* *Sign-in*: the cookies are those of one session; parallel logins do not disturb each other; a session
  that was signed out cannot be signed in to again; the page acts as the user it shows unless
  something explicit happened; every load and every logout ends.
* *Security group rules*: no rule is lost or changed that nobody asked to change; the page shows what it saved;
  every dialog ends.
* *Viewers*: what a viewer says is about the session it shows; it settles within its timers; the terminal shows what the
  guest sent from its first byte on, in that order, and a frame that cannot be converted does not end the output.
* *Wizards*: no resource is created twice, or from values that were not checked; a form is locked exactly while
  its create runs; what is typed is not given up silently; a form tells of its own last create and of no other.
* *External IPs*: the attachment that was picked is the one that is removed; the page does not offer what it has just done.
* *Subnets*: what one user creates does not overlap.
* *Storage edits*: a save undoes nobody else's; what is typed is kept.
* *Issuer caches*: nothing is used that was true longer ago than a lifetime and a fetch.
* *Query layer*: a created instance shows up or the poll gives up; an update mask names exactly the
  changed fields.

## Modules

| Module | Models |
|---|---|
| `ConsoleSession` | views of VM consoles in all tabs, the hook they own, Web Locks, ticket cookie, console-proxy |
| `ConsoleLifecycle` | what the hook promises its caller: the abstract specification that `ConsoleSession` implements |
| `AuthSession` | the SPA's login hook in every tab, the proxy's five session handlers, cookies, Keycloak |
| `QueryCache` | one query of the TanStack Query cache in every tab, and the resource it reads |
| `SecurityRules` | the dialogs and saves of the security group page, on top of `QueryCache` |
| `StorageEdit` | the edit pages of storage backends and tiers, on top of `QueryCache` |
| `CreateWizard` | the two shells that all create and edit wizards of the UI are built on |
| `ExternalIps` | attaching and detaching an external IP on the page of a virtual machine or a cluster |
| `Subnets` | creating subnets from a polled list; CIDR containment and overlap |
| `VncViewer` | the effect of the graphical console viewer, for the sockets that its view hands over |
| `SerialViewer` | the serial console's view on one socket: loading xterm before connecting, the viewer's effect, the add-on's write queue |
| `IssuerCache` | the proxy's issuer and discovery caches under concurrent requests |
| `MCConsole`, `MCAuth`, `MCRules` | instances for TLC: which tab and resource each view has, the initial rules, symmetry |
| `MCParts` | five small modules in one run: the part is chosen at the start, and only its module takes steps |
| `..._proofs` | theorems and proofs about the module they are named after; `MCParts_proofs` also has those about `IssuerCache`, `VncViewer` and `SerialViewer`, and takes them all to the five parts side by side |

### ConsoleSession

A *view* is one mount of `VmConsoleView`, with a tab (`TabOf`) and a resource (`ResOf`). Switching the
transport remounts: it is another view of the same tab, whose predecessor may still have callbacks to
run, which is what `sessionIdRef` (`sid`, and `asid` for the id an attempt captured) guards against.

`pc` is the await of `attemptConnect`: `lock` (waiting for the lock manager), `granted`/`refused` (promise
settled, continuation not yet run), `minting` (Create in flight), `minted`/`mintFailed`. One action runs
the code between two awaits: `AttemptConnect`, `AfterLock`, `AfterMint`, `AfterMintFailed`; one runs each
listener: `OpenEvent`, `CloseListener`. `ReportViewerError`, `Unmount`, `TakeOver` and `Render` are the other
entry points. The environment takes steps of its own: the lock manager decides and processes releases
(`LockDecided`, `LockReleased`: a tab's own release is seen before its later request), responses arrive
(`TicketArrives`, `TicketRefused`), clear requests arrive or are lost (`TicketCleared`), console-proxy
admits a handshake and evicts a session of the same client id (`ProxyAdmits`; external, modelled from the
service's own description in `libs/types/src/osac/public/v1/console_service_pb.ts`), connections drop, tabs
crash (`TabGone`). A ticket is named by the view that minted it.

Left out: message texts; browsers without Web Locks or without local storage (there the lock is always
granted, and each call has a new client id, so nothing about siblings holds); a Create response without a
ticket (the service always sends one). The hook is used with `isRunning` constantly true (`VmConsoleView`), so
its other value is an unmount.

### AuthSession

`page` is how far a page load is: `info` (GET /api/login/info in flight), `start` (GET /api/login), `idp` (the tab is at
Keycloak), `exchange` (POST /api/login), `app` (user shown), `stuck` (the effect ended with an error).
`http` holds the one request of a tab's page and the one of its refresh timer. A request carries the
cookies of the moment it was sent, is handled by the proxy (`HandleStart`, `HandleLogin`, `HandleInfo`,
`HandleRefresh`, `HandleLogout`, one action per handler, together with its call to Keycloak), and is delivered later
(`LoginAnswered` and so on), which is when its cookies take effect (`ApplyCookies`). `Fails` covers every way
a request can end badly: a refusal, a timeout, an unreachable Keycloak, an expired auth-flow cookie, an answer that is
lost after the handler ran. Sessions are numbered in the order the user starts them at Keycloak;
`sso` is the one of Keycloak's own cookie.

Abstractions: `osac-id` is written, cleared and expires together with `osac-access`, so `access` stands for
both; the access cookie never outlives the refresh cookie, whose Max-Age is at least twelve times longer
(`cookies.go` 57-66), which is why `RefreshExpires` waits for it; `ahead` abstracts the expiry in sessionStorage to what
`scheduleRefresh` asks of it; Keycloak is taken to return a refresh token with each login. A code is worth a live session and
belongs to one OAuth state. `stuck` keeps the spinner on the screen in the code: the error
screen of `App.tsx` is behind the same `isLoading` flag that an error never clears.

### QueryCache and SecurityRules

`QueryCache` has no behaviour of its own: it gives the steps of a query (`OpenPage`, `ClosePage`, `Refetch`, `Serve`,
`Fulfilled`, `Rejected`, and `Invalidate`, which mutations use), for the options `main.tsx` sets and for TanStack Query
5.104 (`pnpm-lock.yaml`), in which a cancelled fetch passes those who wait for it on to the next. The library is external: these
definitions say how the hooks of `api/` use it. `SecurityRules` composes them with the page. The service keeps a revision number,
which the code does not have: properties compare revisions.

A save is in one of four stages: `sent` (Update in flight), `applied` (done, answer on its way), `refetching` (answered; its
`onSuccess` returned the promise of the invalidation, so the mutation is still pending), `failed` (error on its way). `Submit` computes
both lists from the page's copy, as `handleSubmit` and `securityGroupWithoutRule` do, and `Apply` overwrites both, as
the update mask `spec.ingress, spec.egress` says. `Closed` is what `onClose` does at the end of a save: it closes the rule editor open by then, whichever that is.
An error of the query unmounts the dialogs (`ResourceDetailsPage`); a rule editor then comes back as a new mount (`Remounted`), a
delete dialog with its mutation, which the page owns.

Abstractions: a rule is the number of the save that wrote it, so two rules are never equal; `staleTime` is left out, for a
fetch that is not started because the data are young behaves like one that takes long; the deletion of the group is left
out.

### StorageEdit

A form is mounted, and filled, when its page has a copy to show (`Shown`): Formik does not fill it again when a poll brings another
copy, and an error of the query puts an alert in its place, so that it comes back fresh. A save sends its fields and the version of the copy
polled last (`Submit`); the service applies it only to that version (`Apply`). A backend's page sends endpoint and description; a tier's
page sends protocol and backends, and the description only if it differs from the polled one (`Sends`). The answer invalidates the query, the
mutation ends with that fetch, and then the page goes to the list wherever its user is by then (`Navigate`): a form opened meanwhile closes with it, unless it is
dirty and not saving, for then it asks, and is taken to be kept. A value is the number of the save that wrote it.

Left out: creation and deletion, credentials (sent only when both are typed), the VAST block, the options of the backend select.

### CreateWizard

`kind` is the shell: the provisioning wizard (virtual machines, clusters, bare metal), which navigates by PatternFly's wizard and has a confirmation dialog of its own, or
a resource wizard on `OSACWizardFooter` and `LeaveFormConfirmation`. A step is abstracted to what its schema says of it: `good`, `bad`, or `lax`, that is
right by the step's own rules and wrong by those of the catalog item, which count only while the item is on the list. A visit is one mount
of the form; its create goes through `sent`, `applied` or `refused`, and `done` or `failed`, and outlives the form. A history flag,
`excused`, says that a provisioning wizard has let a step pass unchecked: its user went forward over an invalid step in the navigation panel, a step was checked while the list did not
have the item, or a late deep link reset steps that were passed.

What the code does and the model keeps: nothing asks when a provisioning form is left by a link or by the browser's Back (`WalkAway`); a resource form that
is submitting is left without a question; the resource that an edit page edits is polled every 10 s like any other, and a poll that fails puts an alert in the place of the form, which comes
back with the stored values (`EditFails`, `EditLoads`, after `SecretCreateWizard.tsx:181`); a success of an earlier visit navigates away from whatever is shown; the panel goes to every step that was reached, Review included, without validating the one it leaves (`Jump`), and
the review of a provisioning wizard validates nothing; a change of step resets the resource shell's mutation, so that a failure that arrives later is not told
(`moved`, `Outcome`). The properties name each of these exceptions; apart from them they hold.

### ExternalIps

The page reads the host and the list of its attachments by two queries that are polled separately. A cluster's page keeps the attachment that was
picked; a virtual machine's keeps a flag, and its dialog detaches the attachment that the list has at the click (`Target`). A request goes
through `sent`, `applied`, `refetching` (its `onSuccess` waits for the attachments) and `listing` (and for the external IPs), then closes its dialog. The service
takes an attachment from `pending` to `ready` or `failed` and from `deleting` to gone, and the host reports its address at some later time.

Two exceptions are in the properties because the code makes them: with a virtual machine the flag stays set when a poll removes the attachment, or when a detach
succeeds but its answer is lost, so the dialog comes back unprompted with the next attachment (`stray`); "Attach" is offered again from
when the list says `ready` until the host reports the address. Left out: a machine's second "Detach" link (`VmExternalIpSection`), a cluster's second
endpoint and its automatic attachment, hosts that do not run, deletion of the host, cached data of an earlier visit.

### Subnets

`Overlaps` and `Within` compare the ends of ranges as `cidr-validation.ts` does; `CreatesDisjoint` states their effect by the sets of addresses, so the run also checks
the arithmetic, over 3-bit addresses, with bits beyond the prefix, equal ends, containment and a range larger than the network. A missing list counts as
empty, and a list with an error is the last one, for the dialog's button is always enabled; the property excludes both, and another user's create. The dialog
closes after the list was fetched anew (`Answered`, `Ends`): without that wait (`FaultAnswered`) the same user can take a range twice. IPv6
uses the same code with other widths, and the code does not check overlap for a network that has only IPv6.

### VncViewer and SerialViewer

`VncViewer`: each socket that the view hands over starts a run of the effect, whose dynamic import cannot be cancelled; the init timer, the connect timer,
resizes, the session's events and the import race. What closes a session of an earlier run is told to nobody.

`SerialViewer`: the guest's first bytes are sent the moment the socket opens, and what arrives before the add-on listens is lost. Therefore the view loads xterm first (`XtermLoads`) and then connects (`LoadThenConnect`), so that the viewer, which
mounts when the socket is the view's state (`SocketMade`, `Mount`), finds xterm in the module cache and needs one microtask to listen (`Loaded`). No code orders this last stretch, a render and the import of
a cached module, before the handshake's answer, which takes a round trip: `SocketOpens` may come first in the model, and the history variable `raced` then records it, but only if xterm was loaded. With a view
that connects before xterm is there (`FaultLoadThenConnect`) frames are lost without it. A frame that was taken is written
when the promise of the frame before it has settled; strings and buffers at once, a Blob after its conversion, which may fail. `loadThenConnect` does the same for noVNC; there it is not modelled.

### IssuerCache

One entry per key (the issuer, and a discovery document per issuer), read under a lock, fetched without it, stored under it again. An answer is known by
the time at which it was true, so `AnswersAreRecent` bounds its age by `TTL + FetchTime`: a slow caller may store an older answer over a
newer one, but the expiry is counted from the store. `Attempts` is how often a key's fetch is tried (the issuer's twice).

## Runs

| Run | Configuration | Shows |
|---|---|---|
| `console_two_tabs` | 2 views in 2 tabs, one resource, a foreign user, one tab may crash, fairness | all safety and liveness properties of the console, and that the hook implements `ConsoleLifecycle` |
| `console_wrong_resource` | 2 VMs, 2 tabs | finding 1: the shared ticket cookie can carry the other tab's ticket |
| `auth_two_tabs` | 2 tabs, 2 sessions, 2 login attempts, rotating refresh tokens | all safety properties of sign-in |
| `auth_live` | 1 tab, 2 sessions, 3 attempts, fairness | loads and logouts end |
| `auth_logout_keycloak` | 1 tab | finding 2: a logout after the access cookie expired leaves Keycloak's session alive |
| `rules_one_tab` | 1 tab of a patient user, 2 rules each way, 2 saves, fairness | no rule is lost, no row mistaken, no dialog without end |
| `rules_hasty` | 1 tab of a hasty user, 3 saves | a page shows its own saves; no list with a hole |
| `rules_retargeted` | 2 patient users | finding 3: a deletion takes the next rule |
| `wizards` | both shells, 2 items, 4 steps, 2 visits, fairness | what is sent was validated (but for three named lapses), nothing is made twice unless an answer was lost, forms unlock and tell of their own create, what is typed stays |
| `external_ips` | both pages, 2 attachments, 1 request at a time | the picked attachment is detached, an attach is not offered twice |
| `small_parts` | `IssuerCache`, `VncViewer`, `SerialViewer`, `Subnets` or `StorageEdit` | the properties of these modules |
| `storage_lost_update` | 1 tab, 2 saves of 2 users | finding 4: a save with the lock undoes another user's save |

### The properties

* `NoOrphanSocket`, `NoOrphanLock`: the two resources a view can leak, at every await and in every order of callbacks.
* `IdleHoldsNothing`: error, disconnected and idle mean that lock and socket are given up, whichever callback came last.
* `LiveSocketIsLocked`, `EvictionFollowsTakeOver`: the design's claim that plain connecting never disturbs a live sibling.
* `ImplementsLifecycle`: the refinement; stale callbacks are stutters, "connected" needs the lock, failures are final.
* `ConnectingSettles`, `GoneViewFreesLock`: liveness of the console.
* `OneSession`: access and refresh cookie belong together, through any interleaving of answers.
* `OwnVerifier`: a tab at Keycloak finds the verifier of its own attempt when it comes back.
* `SignedOutStaysOut`: a signed-out session comes back only by an answer that was already under way.
* `ShownUserActs`: cookies of another user than the one shown belong to a later sign-in, or to an overtaken answer.
* `LoadSettles`, `LogoutSettles`: liveness of sign-in.
* `KeptRulesStay`, `HitsTheRulePicked`: for one user who waits for each save, read-modify-write by index loses nothing, whatever the polls and
  failures; both say nothing after an applied save whose answer was lost (`Misreported`): its retry may hit the next row, as in finding 3.
* `OwnSavesShown`: no answer to an older fetch hides a save that ended, even from a user who dismisses, leaves and saves again meanwhile.
* `DialogSettles`: liveness of the dialogs.
* `SentValuesAreValid`: the values of every step are valid when a create is sent, whichever way its user came to the last step, apart from the three lapses above.
* `FormIsConsistent`: a form is locked exactly while its own create runs, asks only at rest, and its alert is about the step shown.
* `OneResourcePerVisit`: a second resource only after a failure that was none.
* `TypedWorkIsKept`: every way to lose input is one that the user chose or that the property names: the one deep link, a way out of a provisioning wizard that nothing guards, a success, and a failed
  poll of the resource that is edited.
* `ErrorIsCurrent`: a form shows the error of the last create of its own visit, and only while none is under way; an answer that comes after the page was left and opened again puts nothing on the new form.
  Only a change of step takes an error away, or keeps it from being told.
* `CreateSettles`: liveness of a create.
* `DetachesThePicked`, `AttachesOnce`: two polled queries and a dialog that outlives what it is about.
* `FreshSavesUndoNothing`: what the optimistic lock does achieve; `EditsAreKept`: no poll and no late success takes what is typed.
* `CreatesDisjoint`: also right after another create, whose list must have come before the dialog closes.
* `SpeaksForItsSession`, `MountedSettles`, `OutputGoesOn`: the viewers' safety and liveness.
* `InArrivalOrder`: the add-on takes every frame that arrives (unless `raced`), nothing overtakes, and what was written is there; it has two mutants, one for the load before the connect and one for the queue.
* `AnswersAreRecent`: the cached answers' age; a login that was started before goes on with the issuer in its flow cookie, which it does not bound.

### Bounds

Two views are enough for every pairwise race over a lock, a ticket or a session. A third, the pending
predecessor of a remount in the same tab, has no run of its own: the safety properties are proved for any assignment of views to tabs. `MaxClears` bounds the clear requests in
flight: with 2, one of an old and one of a newer attempt can overlap (the requests are indistinguishable, one more would be delivered like
those). `Closable` names the tabs that crash, `FailingViews` the views whose viewer reports an error,
`Impatient` the tabs reloaded in the middle of a load; the bigger runs leave some out, the
two-tab runs have them. `auth_two_tabs` uses the symmetry of its
tabs, and has safety properties only. `MaxSessions = 2` lets one user replace another, `MaxStates = 2` lets both tabs have a login under way,
`MaxGen = 1` lets a refresh token be outdated by a rotation. With `MaxStates` used up a start of a login can only fail,
as when the proxy is unreachable.

For the rules, 2 saves let the second be made from a copy that lacks the first; with 3 the third overlaps two others. Two rows let one be taken for
the other. Two directions are in `rules_one_tab`, since each save rewrites both. `Hasty` names the tabs whose user acts while a save is under way.

Wizards: four steps are the item, two steps with fields and the review; two visits let a create of one end in the other. External IPs: two
attachments let a new one take the place of the picked one; two requests at a time were checked once, apart from the runs (about 18 million states of both pages), with the same
result. Small parts: two callers of one key with `TTL = FetchTime = 2` and eight ticks, in which an entry is stored, overwritten and expires; three sockets, so that a load of one can end after the next but
one was handed over; three frames, so that one that fails is between two others; two saves of a storage form, of which one may be another user's or both of different
visits (three saves were checked once, 4.4 million states).

The console runs do not check for deadlock: each view is mounted once, and when all have ended nothing more
happens. Neither do `wizards` and `small_parts`, where visits, sockets, frames, saves and time run out. The others do: a tab can always be reloaded, a page always be opened, left or polled.

### Fairness

`FairSpec` of the console: promises settle, events are delivered, the lock manager serves requests, Create is
answered or fails, and a handshake is admitted or refused (weak fairness on each: all of them stay enabled
until taken). Nothing is assumed of users, viewers, crashes, established connections or other clients. Sign-in: each request
is handled or fails (the proxy's and the browser's timeouts see to that), and its answer is delivered. That
Keycloak sends a tab back is not assumed: the user may never sign in. Rules: a save is answered or fails, a fetch is served, and its
end is strongly fair, because "Try again" may start the fetch over: the user does not press it before every answer. The refetch interval is not
needed. Wizards: a create is answered or fails (the transport's and the browser's timeouts); nothing is assumed of the user or of the list. Viewers: a timer that is set fires,
and the queue of promises goes on.

## Proofs

`ConsoleSession_proofs` proves, for any set of views, tabs and resources and any bounds, that every property
of the safety runs holds, under `ViewsAssumption` only (each view has a tab and a resource; the sentinels are not views):

1. `TypeCorrect`.
2. `Inductive`: `IInv` is an invariant. It strengthens the safety properties by what each resting place of a view implies: an unmounted
   view's callbacks are stale (`UnmountedInv`), an attempt under way has no socket (`AttemptInv`), a
   socket or lock handle exists only between a granted lock and the end of the connection (`ResourceInv`), the lock manager and the hook agree up to
   steals and releases on their way (`LockInv`), a conflict is reported before anything is acquired (`ConflictInv`), a viewer belongs to a mounted view
   (`ViewerInv`), console-proxy gives a view only the console its ticket names (`OwnerInv`). None of the safety properties is inductive alone: that a stale
   callback is harmless needs the session ids, which need to know at which await a view can be.
3. `NoOrphanSocketThm`, `NoOrphanLockThm`, `IdleHoldsNothingThm`, `LiveSocketIsLockedThm`: consequences of `IInv`.
4. `EvictionFollowsTakeOverThm`: an action property, from `OwnerInv` and `LockInv`.
5. `Refinement`: `Spec => ImplementsLifecycle`, step by step: each action is a step of the
   lifecycle or a stutter, again using `IInv`.

`AuthSession_proofs` proves, under `AuthAssumption` (the bounds are naturals, `Rotates` is a truth value), `TypeCorrect` and all four safety properties; the first two
need only a small invariant of their own:

1. `OneSessionThm`, from `OneSessionInv`: every answer on its way that will set the cookies sets those of one session, so the order in which
   answers are delivered does not matter.
2. `OwnVerifierThm`, from `VerifierInv`: what a page asks for fits what its load is at (`TabInv`: only a tab at the identity provider or at the
   exchange has a state, and a start brings one that was handed out), and no two tabs have one state or are about to (`PairInv`), so no tab's answer expires
   the cookie under another's state. With one cookie for all attempts (`FaultOneKey`) the second part is what breaks.
3. `SignedOutStaysOutThm` and `ShownUserActsThm`, from `IInv` (`Inductive`). Both relate the cookies to the history of all answers, and neither is inductive: that no answer brings an ended session back
   needs to know which answers can still come. `IInv` says that Keycloak has at most one live session, its latest (`IdpInv`); that an answer which sets cookies sets those of a session that was started, and that a logout
   which succeeded has ended its session (`AnswerInv`); that whatever a cookie, a tab, a request or an answer still knows is no newer than the cookies and than what answers on their way will set, but for sessions
   that a sign-out or a sign-in has overtaken, the history variable `raced` (`KnownInv`); and that the answers that could bring a signed-out session back are all among those (`SignInv`).

`SecurityRules_proofs` proves `TypeCorrect` and `OwnSavesShownThm`, under `RulesAssumption` (there is a tab and a direction, and the initial lists are
lists). `OwnSavesShown` is not inductive: whether old data can still arrive depends on the fetch in flight. `IInv` adds that a fetch that was served before a
save was applied is no longer in flight once the save is answered (`SaveInv`), and that a save whose page was left is nobody's.

`KeptRulesStayThm` and `HitsTheRulePickedThm` have the hypothesis `OneCarefulUser`: one tab, whose user does not act while a save is under way, as in `rules_one_tab`; the initial lists and the number of saves are any. Without it both are
false: finding 3 is what two users do. `CarefulInv` says, until an applied save is reported as failed (`Misreported`): one save is under way at a time, and the page and dialog it was made from stay until it ends (`AloneInv`); the page
has what the service has, except from a save to the fetch after it (`FreshInv`), which is the interval that the dialog outlasts; the row whose index a dialog keeps is still the one that was picked (`RowInv`); neither the service's lists nor those sent to it
lack a rule that nobody asked to delete (`KeptInv`). `Without` and `EditedRules` are the lemmas about lists: an edit keeps every rule but the one it is for.

`CreateWizard_proofs` proves all safety properties of `wizards` for any items, any number of steps (more than two) and visits, under `WizardAssumption`. None of them is inductive; `IInv`
adds three parts: what place, step, alert and question imply of each other (`Shape`); that the steps behind the current one of a provisioning wizard hold good values unless one was let pass (`Checked`);
and that a form is locked exactly while the request of its visit is under way, and that the last request decides what the form tells and what was made for its visit (`Waiting`).

`StorageEdit_proofs` proves `FreshSavesUndoNothingThm`, for any number of tabs, users and saves: `IInv` says that every copy a page, a fetch, a form or a save has is no newer than the
resource, and is the resource if it has its version (`Past`). So a save that is applied was computed from what the service has, provided its form was filled from the copy whose version it sends. Finding 4
is the failure of exactly that proviso. `EditsAreKeptThm` rests on `FormInv`: a form is there only while its page is and has a copy to show, and only such a form has something typed; so every step
but the success of its page's own save keeps it, or takes the page or its copy away.

`ExternalIps_proofs` proves `TypeCorrect`, `AttachesOnceThm` and `DetachesThePickedThm` for any number of attachments and requests, under `BoundsAssumption`, on both pages. `IInv` says that a virtual machine has at most
one attachment, also in every answer (`OneInv`); that an attachment whose dialog closed on success is known to the page and to every answer on its way, in no state that it has left (`KnownInv`); what a request
implies of the list and of what it waits for, by stage (`RequestInv`); and, of the virtual machine's page while its user is alone and no detach went astray, that the attachment picked is on the screen, at the service and in the answer on its way until
a detach of it is sent (`AloneInv`). The steps render the page in one of three ways: its list kept, its list replaced, or the page emptied; the lemmas about these come first.

`Subnets_proofs` proves `TypeCorrect` and `CreatesDisjointThm` for any network, any ranges and any subnets to begin with, with addresses of up to 32 bits (`Ranges`): the prover computes powers of concrete numbers only, and 32 is what IPv4 has. `Comparisons` says what the two
comparisons of `cidr-validation.ts` decide: ranges that do not overlap by their ends share no address, and one that is within another by its ends has only addresses of it. `ListInv` says that, of a user who is alone and saw every create end, the list lacks a
subnet only between a create and the fetch that its dialog waits for.

`MCParts_proofs` proves `AnswersAreRecent` for any keys, callers and times (`CacheInv`: an entry expires at most `TTL + FetchTime` after its answer was true, since a fetch that stores has not passed its
deadline), `InArrivalOrder` for any number of frames (`SerialInv`: the output is the sequence of frames written so far, and behind a frame that has not settled none was started; `SocketInv`: a socket is made only when xterm is loaded, brings nothing before it opens, and finds the add-on listening then unless `raced`), and `SpeaksForItsSession` for any number of sockets (`VncInv`: only the current run's
timers and connection are left, `TimerInv` and `RfbInv`). Then it shows that a step of one part is a stutter of the others (`PartSteps`), and so that every safety property of `small_parts` holds of the five side by side; those of `Subnets` and
`StorageEdit` by instantiating their theorems with the run's constants.

Every inductive invariant was checked by TLC, as an invariant of its module's run, before it was proved.

Checked by TLC only: the eight liveness properties (`ConnectingSettles`, `GoneViewFreesLock`, `LoadSettles`, `LogoutSettles`, `DialogSettles`, `CreateSettles`, `MountedSettles`, `OutputGoesOn`), since the prover
handles neither fairness nor ENABLED, and the violated properties of the findings. Every safety property that a passing run checks is a theorem.

## Findings

1. *Ticket of the wrong VM* (`useConsoleSession.ts:194`). Two tabs that open two consoles at the same moment share one cookie; the
   handshake carries whichever ticket came last, so one tab shows the other's VM and the other handshake has a spent ticket.
2. *Logout that does not reach Keycloak* (`handler.go:256`). It is keyed by the access cookie, which expires first.
3. *The wrong rule deleted* (`SecurityGroupDetailPage.tsx:63`). The delete dialog keeps an index into rules that are polled again under it.
4. *An optimistic lock that does not prevent a lost update* (`StorageBackendCreatePage.tsx:153`, `StorageTierCreatePage.tsx:168`). The fields are those of the copy at the mount, the version is that of
   the copy polled last; so a save undoes what another user saved in between as soon as that was polled, and the retry after a conflict always does. A tier's description that nobody touched is sent, and put back, because it
   differs from the polled one (`StorageTierCreatePage.tsx:156`).

Seen while modelling, without a run:

* Console: an attempt abandoned during Create does not clear the cookie that its response sets (`useConsoleSession.ts:187`); after a transport switch while the lock is being granted, the new mount
  is refused by the old mount's lock, and its "sibling tab" (`useConsoleSession.ts:25`) is this tab; when local storage throws, each call has a new client id (`console-websocket.ts:27`).
* Sign-in: a refresh computed before and delivered after the logout sets the cookies again (`handler.go:278`); after a sign-in error `isLoading` stays true, so the "Sign-in failed" screen is unreachable
  (`App.tsx:33`, `oidc-login.tsx:117`); a tab that did not itself sign in has no expiry in its sessionStorage and never refreshes (`oidc-login.tsx:69`); the refresh of a tab that used a rotated
  token clears the cookies another tab has just renewed (`handler.go:233`).
* Query layer: `docs/api-query-arch.md` gives the refetch interval as 30 s, `main.tsx:59` sets 10 s; the password fetch of a former secret id is not aborted (`cluster.ts:119`); `pollComputeInstancesUntilListed`
  is not used outside tests; an empty nested message, or an empty oneof case, names no update-mask path, and callers without a schema would recurse into maps (`update-mask.ts`).
* Storage: `StorageBackendCreatePage.tsx:157` passes `vast` where the message has the oneof `providerConfig`, so protobuf drops the configuration while the update mask still names `spec.vast...`.
* Bare metal: a restart sends the trigger of the cached copy plus one (`baremetal-instance.ts:93`), so that two clicks on one copy restart once.
* Console viewers: nothing but its speed makes the viewer listen before the handshake is answered (`VmConsoleView.tsx:99`; `raced` above).
* Rules: a save that ends after its editor was dismissed closes the next one, whose input is lost (`SecurityGroupRuleModal.tsx:149`); a failed poll unmounts an editor that saves, which comes back with fresh fields and a working Save
  button (`ResourceDetailsPage.tsx:39`).
* Wizards: the panel of a provisioning wizard reaches Review without validating the step it leaves, and its Create validates nothing (`ProvisioningWizard.tsx:404`); a create whose answer is lost is offered again, without an idempotency
  key (`ProvisioningWizard.tsx:150`); a change of step during a submit resets the footer's mutation, so that its failure is not told (`OSACWizardFooter.tsx:55`, although `SecretCreateWizard.tsx:90` says "tanstack handles the error"); one
  failed poll of an edited secret takes away what was typed (`SecretCreateWizard.tsx:181`).
* External IPs: the detach dialog of a virtual machine opens by itself after a lost answer or an emptied list (`VmDetailsActionButtons.tsx:108`).

## Plan

1. More over `QueryCache`: the key families that mutations miss (disk images), restart triggers, the poll after a create, the password fetch; update masks as a
   function, checked against a reference definition over bounded inputs.
2. The theorems with the narrowest hypotheses, widened: `CreatesDisjointThm` for IPv6's 128 bits; what remains of `KeptRulesStay` for a careful user while others only add rules.

## Not modelled

Most of the repository has no behaviour over time. About nine tenths of its lines are the types that are generated from protobuf, the rendering and layout of pages, tables and forms, charts, translations, the mock backend and the mock pages
(`MaaSGovernancePage.tsx`), and test support; a map of definitions to lines therefore covers a small share of the whole, although nearly all code that handles
concurrency, failure or order has a module. Start-up and static file serving of the proxy are I/O without state of its own. Of the code with behaviour these are left out: power actions and the deletion of hosts, whose dialogs have the form of those in
`SecurityRules` and `ExternalIps`; the disk images' keys and the bare-metal restart trigger (see the hazards in `PROJECT.json`); the key input, focus and resizing of the terminal.
