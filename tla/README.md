# Dawn Patrol in TLA+

Dawn Patrol copies the events of Racing on Rails databases (MySQL, one per
racing association) into a database of its own (Postgres) and shows them on a
calendar page. This directory specifies the API process and the databases it
works on, and the web client with everything that builds, serves and caches it.
TLC model-checks the specifications on small instances; TLAPS proves every safety
property that the passing runs check, and both refinements, for all instances.

Paths below are relative to the repository's `src/`; `db/` alone means
`src/api/pkg/db/`.

## The system

| Part | State it keeps | Operations | Talks to |
|---|---|---|---|
| Association service (`db/association.go`) | none of its own | `Create`, `CreateDefault`, `Default`, `DefaultOrCreateDefault`, `FirstByHost`, `FirstOrCreate` | Postgres, through gorm |
| Event service (`db/event.go`) | none | `Create` (one INSERT per event), `Find` | Postgres |
| Dawn Patrol database (`src/db/schema.sql`, `seed.sql`) | `associations`, its id sequence, `events`, open transactions | INSERT, SELECT, COMMIT | – |
| Copy (`rails/db/racing_association.go`) | the locals of a request | `Copy`, `Find` | both databases, both services |
| Copy handler (`rails/http/copy.go`) | none | `POST /rails/copy` | Copy |
| Database factory (`db/databases.go`) | connection pools | `For`, which tries ten times | MySQL |
| Time zone (`rails/db/event.go`) | none | `ToAssociationTimeZone` | Go's `time` |
| Racing on Rails database | `events`, `racing_associations`; a limit on connections | read by Copy, written by Racing on Rails | – |
| Root handler (`http/root.go`) | none | `GET /index.json` | both services |
| API process (`api/cmd/api/api.go`) | the requests it runs | start, crash | – |
| Web client (`web/src/App.js`) | the events shown | one fetch | Root handler |
| Client's service worker (`web/src/serviceWorker.js`, `index.js`) | a registration with its workers, one cache per worker | `register`, `unregister`, the handlers they set | the browser, web server |
| Request routing (`web/nginx.conf`, `web/config/webpackDevServer.config.js`) | none | chooses who answers a request | worker, files, API |
| Build script (`web/scripts/build.js`) | the build directory | empty, copy, compile, report | webpack |
| Development server (`web/scripts/start.js`, `web/config/getHttpsConfig.js`) | a port, a browser | start, serve, stop | terminal, certificates |
| Client environment (`web/config/env.js`, `paths.js`) | `process.env`, the module cache | read `.env` files, derive paths | shell, scripts |
| Module resolution (`web/config/modules.js`) | none | `baseUrl`, aliases, `NODE_PATH` | `tsconfig.json`, `jsconfig.json` |
| Bundler settings (`web/config/webpack.config.js`) | none | resolve, choose loaders, emit | webpack, environment |
| Mux, status, panic, logging, New Relic, Sentry; test setup; migrations; Jest; deployment | see *Not modelled* | | |

What is hard about it. A request to the API is a goroutine, and nothing orders
two of them but Postgres. Every database error below the handlers is dropped:
whether a call has worked is read from the id its struct has, or not at all. A
copy is a dozen statements without a transaction around them, so each can fail
and the process can die between any two. `FirstOrCreate` looks, then inserts.
Ids come from a sequence that does not go back, except for those that
`seed.sql` writes by hand. A request holds one MySQL connection while it waits
for the next, and leaks that one. A visitor reads with two statements while
copies write. On the client's side a worker outlives the deployment that
installed it, and tabs of several versions share it; a build changes a directory
file by file; a development server chooses a port long before it listens; and
settings are read by modules that are cached before the settings are complete.

What makes each part correct:

- *Association service*: one row per acronym, host and name, whoever races; an
  id in a struct is the id of that association or of none, for ever; a call
  returns; seen from outside, calls are atomic.
- *Copy*: an event goes to the association that was asked for; what is copied
  comes from one state of the Rails table, in order, from its beginning and
  without holes; an error answer means that nothing was written; every request
  is answered.
- *Database factory*: only what is known to leak leaks; waiting requests do not
  wait for each other for ever.
- *Root handler*: a visitor sees one association's events, all that were there
  when he came, and of a running copy its beginning.
- *Time zone*: a date keeps its day.
- *Service worker*: what a page was told stays true while it is open; a page
  from the cache finds its scripts; pages come to rest; a client that
  unregisters gets rid of older workers.
- *Build*: the directory never mixes builds, never shows the template or a page
  without the files of `public/` it refers to, and status 0 stands for a whole
  build without warnings that CI refuses.
- *Development server*: a browser is sent where the server listens; a start
  comes to rest; no server stays behind without its terminal.
- *Settings and bundle*: the stronger source of a setting wins, and all readers
  agree; secrets stay on the machine; each loader gets what it can read.
- *Routing*: the client gets the same answers in development and in production,
  and its events from the API alone.

PROJECT.json lists the hazards line by line with the properties for them.

## Modules

### The API and its databases

`DawnPatrolDB` is the Postgres database: committed rows, the sequence, and at
most one uncommitted row per client, since gorm opens a transaction around each
`Create`. An INSERT into `associations` is three steps. `NextVal` draws the id
and is never undone. `InsertAssociation` needs every unique index to be free of
committed rows (`Violates`) and *waits* while another client's uncommitted row
would conflict (`BlockedBy`), as Postgres does. `Commit` makes the row visible.
A host is a set of alternatives, which is how the services use the regular
expression in that column.

`AssociationService` adds the calls. `op`, `where`, `association` and `drawn`
are the method, its conditions, the struct it fills and the id its INSERT drew;
`phase` is how far it is. Every method is `Enter` with its own arguments and then
some of the shared steps `FirstFinds`, `FirstMisses`, `DrawId`, `Insert`,
`InsertConflicts`, `CommitInsert`, any of which other clients may interleave,
and the failures `FirstFails`, `InsertFails`, `CommitFails`. A caller may pass
again what an earlier call gave it (`Saved`), as `TestFirstOrCreate` does.

`Registry` is the abstract specification of the service: a set of rows and
calls that take effect in one step each. `AssociationService` implements it
under the mapping `RegistryOfCalls` (property `ImplementsRegistry`). `Registry`
promises nothing about calls whose statements failed but that the register stays
as it is or gains the row of the call.

`RailsCopy` extends `AssociationService` with the requests: its clients are the
requests, and `FirstOrCreate` runs inside them with the very steps above. `pc`
follows the statements of `ServeHTTP`, `Copy`, `Find`, `openURLWithAttempts`
and `EventService.Create`. `open` is the set of pools that hold a MySQL
connection. `Crash` ends every running request, rolls back what was not
committed and frees MySQL's connections; `RailsChange` changes the table that is
being copied; `IdleTimeout` is MySQL closing a leaked connection.
A panic with a string (the open loop) leaves the client without an answer,
because raven's `RecoveryHandler` asserts that it is an error
(`api/vendor/github.com/getsentry/raven-go/http.go:77`); a panic with an error
is a 500.

`CopyJob` is the abstract specification of such a request: begin, read, find an
association, write one event after the other, answer. Pools, tries, lookups,
the rows of the association service and MySQL are gone; faults remain, as the
only excuse for a lost event or half a read. `RailsCopy` implements it under the
mapping `Jobs` (property `ImplementsCopyJob`).

`Root` extends `RailsCopy` with visitors: `Visit`, the SELECT of `FirstByHost`,
the SELECT of `EventService.Find`, each of which may fail or find the process
dead, and what `App` shows of the answer. `Fprintf` is given the JSON as its
format; names in `Breaks` make the text invalid, and `App` shows nothing.

`TimeZone` is `ToAssociationTimeZone` with Go's `time.Date` and a zone as a set
of transitions, counted in minutes.

### The web client

`ServiceWorker` has the tabs (`pc`, `page`, `controller`, what they listen to
and were told) and the one registration of the scope (`installing`, `waiting`,
`active`). Its actions on tabs are the functions of `serviceWorker.js` one
promise at a time; those on workers are the browser's, modelled from the states
and events that the code reacts to. Deployments replace the scripts on the server.

`Build` is `build.js` for builds that follow one another in one directory,
`buildDir`, which says of every file who made it. Emptying, copying and emitting
go file by file in any order; each step may fail or be killed.

`DevServer` is the promise chain of `start.js` with `getHttpsConfig.js`, for
several servers and other programs that take and free ports at any time.

`WebModules` is `modules.js`, `WebEnv` is `env.js`, `paths.js` and the head of
the scripts with Node's module cache (`cache`), and `Bundler` extends both with
`webpack.config.js`: how an import is found (`Resolve`), which rule matches it
(`Match`), what the loaders make of it (`RunLoader`, one at a time from the last
to the first, failing on what they cannot read) and what is emitted (`Emit`).
The three compose: one behaviour is one script from its first line to the bundle.

`WebRoutes` sends one request through two lists of stages: those of
webpack-dev-server, and worker, nginx and API in production.

### Proofs and instances

`AssociationServiceProofs` (with the refinement of `Registry`), `RailsCopyProofs`
(with that of `CopyJob`, and the visitors of `Root`), `TimeZoneProofs`,
`ServiceWorkerProofs`, `BuildProofs`, `DevServerProofs`, `BundlerProofs` (with the
settings of `WebEnv`) and `WebRoutesProofs` hold the theorems. The `MC` modules
hold constants for TLC.

Definitions that begin with a comment "Mutant" are variants of the definition
after them with a plausible bug; nothing uses them. They keep the properties
honest: PROJECT.json pairs each property with the variant that must break it.

## Runs

| Run | Question | Bounds |
|---|---|---|
| `association_service` | Is the service an atomic register, with unique rows and ids that name one association? | 2 callers, ATRA and a second spelling of it with the same host and name, the default association; 1 failing statement; no call begins once the sequence is past 3 |
| `rails_copy` | Is what concurrent requests copy right, is each answered, is each a `CopyJob`? | 2 requests, 2 spellings of one acronym and another one without a row in `racing_associations`, a table that takes two contents (2 events and 1), 2 faults (statement or crash), 2 tries, 2 MySQL connections |
| `root` | What does a visitor see while copies run? | 1 visitor, 2 requests for 2 associations that share localhost, 1 fault, an event whose name breaks the JSON |
| `time_zone` | Does a date keep its day? | every minute of 7 days, with daylight saving beginning on the third and ending on the sixth |
| `service_worker` | Does what pages are told stay true, do pages and workers come to rest? | 2 tabs, 3 versions, 1 failed request, 3 sites: all versions register; localhost, where the worker's script is missing from one version; the last version unregisters |
| `build` | What may the build directory hold, and what does status 0 stand for? | 2 builds with scripts of different names, a file that `public/` has as well, every `CI` and `TSC_COMPILE_ON_ERROR` |
| `dev_server` | Is the browser sent to its server, and does a server end? | 2 servers, 2 ports, all kinds of certificates, terminal, container and script |
| `bundler` | Do settings, resolution and loaders fit together? | 3 scripts; 3 shells by up to 3 of 4 `.env` files with 7 contents; 12 kinds of file; 6 candidates of one name by every kind of project |
| `web_routes` | Do development and production answer alike? | every path a stage knows and one none does, 2 methods, 3 kinds of `Accept`, navigation and fetch, with and without a worker, with an API that fails |
| `first_or_create_race` | Does `FirstOrCreate` find or create, as it says? (It does not.) | 2 callers, ATRA |
| `copy_after_seed` | Does a copy on seeded data copy? (Not the first one.) | 1 request |
| `wall_clock` | Does the conversion keep the time of day? (It does not.) | as `time_zone` |

Why the bounds are enough for what they are asked. Two callers are what a race
on one row takes; the second spelling makes two different rows that conflict by
host and name and not by acronym, the case in which the loser finds nothing
when it looks again. `MaxId = 3` lets an id be drawn in vain and a later call
insert. Two faults let a lookup fail and then a COMMIT, or a statement fail
before a crash. The two contents of the Rails table differ in length and in
every event. Two connections for two requests, of which each needs two, is the
smallest full server, with hold-and-wait. `Attempts = 2` has a retry and a last
try; the code has 10. The faults of `rails_copy` include any statement, so that
a run does not say what happens without failures: properties that only hold
without them say so with `faulted`, a history variable. For the visitor of `root`
both associations match his host, so that the answer depends on which copy
came first; a second visitor would change nothing for the first, since visits
only read. The service worker needs three versions for an active worker, a
waiting one and one that is installed behind both, and two tabs for one
that keeps a worker in use while the other one is left. Two builds are one that
died and one that follows it. Two servers and two ports are a race for one port
and a second one to go to. The proofs cover all sizes of what they prove.

What the passing runs do *not* say is as telling: a 200 can stand for nothing
copied (`AllOrNothing` allows it, `NothingCopiedOnlyWhenRefused` says when), for
a copy with holes if a statement failed, and a crash leaves a beginning of the
events behind. A visitor may see none of an association while its rows are being
copied. A page that no worker controls can be blank after a deployment, since its
scripts are gone from the server.

### Findings

1. `FirstOrCreate` can return without an id (`db/association.go:60`): the loser
   of a race inserts, is refused, and does not look again. A copy then answers
   200 without copying. (`first_or_create_race`)
2. After `seed.sql` the first INSERT draws id 1, which is taken: the first copy
   of a development database copies nothing and answers 200. For the same reason
   `DefaultOrCreateDefault` fails on seeded data: the seeded CBRA has another
   host, so it is not found, and its INSERT is refused. (`copy_after_seed`)
3. `ToAssociationTimeZone` exchanges hours and minutes. The Rails column is a
   date, midnight, for which it makes no difference (`DateOnlyKept`).
   (`wall_clock`)

Smaller divergences between comments and code are kept in the models, without
runs of their own: with an empty `baseUrl` the alias for `src` is missing
(`web/config/modules.js:67`, against `:17`); the development server's fallback
answers the request for `service-worker.js` before the no-op worker can
(`web/config/webpackDevServer.config.js:96`, against `:135`); with
`TSC_COMPILE_ON_ERROR=true` a build of which any step was rejected reports
success (`web/scripts/build.js:110`); a development server that finds no port
ends with status 0 (`web/scripts/start.js:74`).

### Fairness

`ServiceSpec` and `RailsCopy!Spec` assume weak fairness of the steps of each call
or request (`CallStep`, `RequestStep`): a statement that can run is run, since
Postgres, MySQL and the Go scheduler go on by themselves, and a sleep of the
open loop ends. An INSERT that waits is disabled while it waits. No fairness is
assumed of clients that post, of Racing on Rails, of failures, of a restart, or
of MySQL's idle timeout: `EveryRequestAnswered` holds although leaked
connections may never come back. `ServiceWorker` assumes it of the code of each
tab and of the browser's jobs, and strong fairness of `Activate`, which the
browser tries again whenever a page is left; nobody has to deploy, visit or leave,
and `WorkerGoesAway` names the visits it needs. `DevServer` assumes it of the steps
of the script (Node goes on), not of users, other programs or signals. `Root`,
`TimeZone`, `Build`, `Bundler` and `WebRoutes` check safety only and assume none.

Deadlock is checked in every run but `build`, whose last build is followed by
nothing. `Terminated`, `AllAnswered`, `Built`, `Finished` and `Answered` mark the
ends that are meant.

## Proofs

The theorems hold for all values of the constants, under the named assumptions
of the modules: `SeedAssumption` (seeded rows have ids and do not conflict),
`TextAssumption`, `InputAssumption` (callers pass associations that have no id),
`CopyAssumption` (types of the tables; an acronym is not empty),
`RootAssumption`, `VersionAssumption`, `BuildAssumption`, `DevServerAssumption`
and `WebRoutesAssumption` (types; the page is a file of `public/` and of every
build; port 3000 is one of those tried); `DateAssumption` (the fields of a date),
`ZoneAssumption` (the zone is never further from UTC than 14 hours, keeps an offset
for more than 28, and has one before the first day) and `MidnightAssumption` (every
day has a midnight on the zone's clock, as in America/Los_Angeles, which changes its
clocks at 2 AM); `WebEnvAssumption` (there are finitely many variables; a reference
names one of them) and `BundlerAssumption` (a shell's values are plain texts, and a
file sets some of the variables). Each module has an inductive invariant, checked
with TLC before it was proved.

**Association service.** `ServiceInvariant` proves `CallInv`. Uniqueness of rows
alone is not inductive. `CallInv` adds that an id is drawn at most once and is
below the sequence (`DrawnOnce`), what the struct's id is in each phase
(`IdOfPhase`), that an id without a row is the one its own call drew and that no
row has it (`IdHasRowOrNone`), and that a call without a failed statement returns
an id only with its row (`ReturnedHasRow`). It covers ids written past the
sequence too: an INSERT that draws such an id is refused.
`IdNamesOneAssociation` follows. Each step has a lemma; `QuietStepInv` serves all
those that insert nothing.

**Registry.** `ServiceImplementsRegistry` maps every statement of a call to the
atomic step of that call or to none: a SELECT that answers and a COMMIT are the
points at which calls take effect, and an INSERT that conflicts returns what it
was given. It needs, beside `CallInv`, what each method looks for
(`CallOfMethod`) and that no row has an id still to be drawn (`IdsDrawn`), which
is why it assumes `SequenceAfterSeed`: with the data of `seed.sql` an INSERT is
refused that shares no column with any row, and the service is *not* a
`Registry`. `copy_after_seed` shows that case; `association_service` checks the
other one.

**Copy.** `CopyInvariant` proves `CopyInv`, reusing `CallStepInv` for the
steps inside `FirstOrCreate`. The part that carries `NoCrossAssociation`
is `CallOfRequest`: the struct has the posted acronym from the moment it is
built, whether the lookup finds a row (by acronym, which is not empty), the
INSERT succeeds or neither does; an event that passes the foreign key then has
an id of a row, and by `IdNamesOneAssociation` that row is the struct's.
`NoHoles` needs `ReturnedHasRow`: without a failed statement the foreign key
refuses nothing. `OneSnapshot` comes of `AsRead`: what is in memory is a
beginning of one state of the table, and rows are from there.
`NothingCopiedOnlyWhenRefused` says that a request without an association had its
own row refused by another one, and takes three parts. `RefusedOnConflict` names
a conflicting row, which stays since rows are only added (`CopyGrows`).
`LooksThenDraws` says that a request calls once and draws an id only after it has
looked in vain, so no seeded row has its acronym. `RowsOfRequests` says that each
row that was not seeded is held by the request that inserted it; the row in the
way is therefore not the request's own. `CopyImplementsJob` proves the refinement with
one lemma per step of `CopyJob` (`ReadOfStep`, `WriteOfStep`, ...); all steps
before the first event share `EarlyStep`, `EarlyAnswer` and `FailOfStep`.

**Root.** `RootInvariant` proves `RootInv` over `CopyInv`: since tables only
grow, the association found stays, and no smaller id existed when the visit
began (`FoundFirst`). `BeginningOfCopy` is `NoHoles` at the moment of the read.

**Time zone.** What `time.Date` promises is `GoDateFindsWallClock`: whatever the
zone, if its clock ever shows the minute asked for, it shows it at the instant that
`time.Date` returns. The offset is looked up with the fields read as UTC, at most 14
hours off, and transitions are more than twice that apart, so the period meant is
the one found or a neighbour of it; each of the three cases of the second lookup is
a case of the proof. `HoursAndMinutesExchanged` draws the consequence that
`wall_clock` shows one instance of: the zone's clock shows the date's minute as its
hour and its hour as its minute, hence the date itself exactly when the two are
equal. `ZoneDateOnlyKept` is the case in which both are 0.

**Service worker.** `WorkerInvariant` proves `WorkerInv`. Versions are in order
(`WorkersInOrder`), and on a site whose versions all register a page has the active
worker or none (`PageInv`). So a page that has one keeps `Activate` waiting, which
is what the three safety properties rest on.

**Build, development server, routes.** `BuildInv` says step by step what the
directory may hold (`DirectoryOfStep`): among others, nothing that webpack emits
before all of `public/` is copied, which is `PageHasItsFiles`. A build that died may
have left anything behind, so `BuiltInOrder` adds that no file is of a later build,
and none of this one before the old files are gone. `DevServerInv` says that a port held by a
server belongs to one that serves and has chosen it, and that a browser was sent
only then; `ProtocolsAgree` shows that `start.js` and `getHttpsConfig.js`, which
decide on the protocol separately, agree. `RouteInv` says how far a request of the
client gets on each side, for any set of requests.

**Settings and bundle.** `BundlerInvariant` proves `BundlerInv`, whose parts follow
a script from its first line to the bundle.

- `EnvInv` carries `FirstWins`. The meaning of the settings (`Values`) is stated
  without the program: the strongest source that sets a variable counts, and a
  reference in a source sees this source and those before it. `Reading` says that
  `process.env` has these meanings for the sources read so far, with as many
  references followed as there can be in them. `DotenvAddsSource` keeps it: a file
  may refer to what the shell or it sets, and what is loaded has no reference left
  in it, so each further file adds at most one chain through all the variables,
  and what a circle leaves ends the script. `SecretsStay` is read off the same
  meaning: `ValuesComeFromSources` gives each value the source and the variable that
  it was written for. The variables for the client are `REACT_APP_*` and, in
  production too, `WDS_SOCKET_HOST`, `_PATH` and `_PORT`.
- `UrlInv` says that `paths.js` is not in the cache while the files are read, which
  is what deleting it in `env.js` is for.
- `FileInv` says that the folder found is the first one searched in which there is
  something; the folders of `NODE_PATH` are those of the strongest source, by
  `FirstWins`.
- `LoadInv` says that what is left and what is done are the two ends of one
  `Chain`, in which each loader reads whatever the one before it may give
  (`Composes`) and css-loader knows how many come before it. `UsesCompose` shows that
  the rules give such a chain for every kind of file, in every mode, with or without
  source maps.
- `BundleIsPrecached` is about what webpack emits. The worker does not keep the
  manifest and the icon that the page refers to as well (`FromPublic`): `build.js`
  copies them, and webpack never sees them.

**Induction.** The provers cannot use the library's induction theorems, which take
an operator. The lemma `Induction` states the principle for a *set* of naturals and
is proved with the pigeonhole principle, and `Recursion` builds a recursive function
from it as a set of its own. So the recursive functions of the models (`Follow`,
`honored`, `Values`) are reasoned about for every length.

Only model-checked. The liveness properties (`EveryCallReturns`,
`EveryRequestAnswered`, `EveryPageSettles`, `WorkerGoesAway`, `StartSettles`,
`OrphanEnds`) rest on fairness, which is beyond the prover. The
violations that the findings quote are shown by TLC alone, but for the exchange of
hours and minutes, which is a theorem too.

## Abstractions

- Text columns are values compared for equality. MySQL's comparison of
  `short_name` ignores case (`utf8_unicode_ci`), which is why a database has one
  `ShortNames` whatever the spelling posted.
- An event is one value; the fields that Copy passes on unchanged are in it.
- Postgres runs at READ COMMITTED and each statement sees what is committed
  when it runs. A deadlock inside Postgres cannot occur, since no client holds
  one row while it waits for another.
- A failed statement has no effect; a COMMIT that fails rolls back. A COMMIT
  whose answer is lost is not modelled.
- The columns taken from Rails beside name and host are not modelled.
- A pool holds one connection, since its requests use it one statement at a time.
- The delays between tries, 110 s in all, are not; nginx gives up on the client
  after 60 s and the request goes on, as it does here without anybody waiting.
- A regular expression in a host column is the set of hosts that it matches.
- A browser does one job on a registration at a time; a version's scripts have
  names of their own, so a page needs those of its own version.
- Files are names with the script and build that made them; content counts only
  where a later step reads it (a kind and a source map between loaders).
- A `.env` file is a set of assignments, of which a value may refer to one
  variable. Paths, extensions and URLs are members of small sets.
- No value in a shell holds a `$`. dotenv-expand would rewrite such a value when a
  file sets the same name.
- The links of `public/index.html` are fixed (`FromPublic`), and url-loader emits
  every image: that it inlines small ones is left out.
- `register()` with the script URL of the registration counts as a check for an
  update, which the browser may make but does not have to.
- A name that `Fprintf` changes into other valid JSON counts as unchanged: `App`
  shows how many events there are, not their names.

## Not modelled

- *Test setup* (`db/test_setup.go`): deletes rows that the service never deletes,
  for tests only.
- *Migrations*: static SQL run by a third-party script; its outcome, the schema, is
  what `DawnPatrolDB` models.
- *Rails event service*: one read that no handler calls.
- *Logging, mocks, reporting to New Relic and Sentry, flags and wiring*: no state
  that a property depends on. The wrappers around services only delegate.
- *Jest* (`web/scripts/test.js`, `web/config/jest/`): the script's settings are in
  `WebEnv`; whether it watches, and its two transforms, which map a file to a
  constant module, are not. `web/config/pnpTs.js` only delegates to a library.
- *webpack.config.js*: options of the minimizers, hot reloading, the type checker
  and the content of the asset manifest are the plugins' own business.
- *webpack-dev-server*: host check, sockets and the error overlay.
- *Deployment and end-to-end tests*: configuration. The end-to-end test is quoted
  for what it expects of a copy.

## Plan

The modules above are the plan's; they were written in the order database,
association service, copy, time zone, service worker, build, development server,
environment and bundler, routes, visitors, and the two refinements last. What
could follow: a COMMIT whose answer is lost; and pages of several versions in
`Root`, should the client come to fetch more than once.
