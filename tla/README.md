# Formal models of sohojog-backend

sohojog-backend is a NestJS server for project management: people create
projects, invite each other, form teams, hand out and submit tasks, keep a
project wallet and chat. State lives in PostgreSQL (through Prisma), uploaded
files live in Cloudinary, sessions are JSON web tokens, chat goes over
socket.io. There is one server process; what makes it hard is that its requests
interleave at every `await`, that most operations read, decide and write in
separate statements, and that the database, the object store and the mail
server have no common transaction.

This directory holds TLA+ modules translated from that code, TLC
configurations that check them on small instances, and TLAPS proofs for all
instances. Paths below are relative to the repository; `managing-role`,
`participating-role` are under `src/src/api/role-access/`.

## Inventory

| Component | State | Operations | What is hard |
|---|---|---|---|
| Projects, invitations, participations (`managing-role/{project,invitation,project-participation}`, `participating-role/invitation`) | `projects`, `project_admins`, `invitations`, `participations`, the project's room | create, rename, invite, answer, change status | checks that are stale when the write comes; one row written by both sides; several tables that must agree |
| Wallets (`managing-role/*wallet*`) | `wallets`, `wallet_transactions`, `team_wallets`, `team_transactions` | open, deposit, withdraw, transfer to and from a team | absolute balances computed from a stale read; one step of a transfer refused |
| Files (`shared/shared-modules/file`, `api/user-files`) | Cloudinary objects, `files` rows | upload, insert, delete, clean up | two stores without a common transaction; crash between them; deletion racing use |
| Tasks (`managing-role/manager-task`, `participating-role/participant-tasks`) | `tasks`, `task_assignments`, submissions, attachments | create with files, submit with files, list page by page | ids from the caller; a write outside the transaction; two submissions at once; pages that shift while they are read |
| Authentication (`api/user-module/auth`, `shared/shared-modules/{otp,jwt}`, `shared/guards`) | `users`, `otps`, tokens held by clients | sign up, log in, Google, refresh, send and verify codes, reset | mail before commit; codes replaced while they are verified; seconds against milliseconds |
| Profile (`api/user-module/user`) | `users`, `images`, image objects | rename, change picture | the old picture is destroyed before the commit; the cascade from an image to its user; a row lock held through calls to the store |
| Messages (`api/message`) | `messages`, `message_receivers`, `rooms.lastMessageId` | send, list | last message under concurrency |
| Teams (`managing-role/{team,team-membership}`) | `teams`, memberships, the team's room | create, update, add members | check-then-act; a look-up that is not awaited |
| Chat gateway (`src/src/chat`) | sockets, socket rooms | connect, join, leave, send, call signalling, disconnect | handlers that outlive their socket; announcements beside stored history; signals that overtake one another |
| Project views (`managing-role/project`, `participating-role/participant-project`) | none | lists, counts, the summary's joined query | conditions that differ from view to view; joins that multiply rows |
| Other listings, messaging stub, mail, configuration, validation, filters | none | queries, I/O, formatting | nothing a model would add to |

The components call each other as methods in one process and share the
database: accepting an invitation writes the chat room; creating a task and
sending a message insert files; the token guard reads the row that a password
reset writes. `PROJECT.json` lists the hazards at their lines.

## Common conventions

*A request is a process.* `req[r]` is `None` or a record: the await it has
reached (`at`) and what it carries. The first read of a handler and its
guards are the action that begins it; every later await that reads the
database is an action of its own and sees what others committed meanwhile
(READ COMMITTED). The writes of a transaction together with its commit are one
action: row locks and unique indexes make conflicting writers wait, and nobody
reads what is not committed. Where the lock is held across an external effect
(the mail inside `signUp` and `sendOtp`) the hold is modelled (`UserHeld`,
`OtpHeld`).

*Everything may fail.* `Fail` (in Profile `Rollback`) ends a request without
effect: a guard that throws, a refused row, a timeout, a lost connection, a crash
before the commit. In Files, `Crash` also says that no `catch` runs.

*Slips.* An operator marked `slip: P` is a plausible mistake in the operator
defined right after it (a dropped guard, a missing reset, a lost index). Nothing
uses it. Put in that operator's place it makes P fail, which shows that P
depends on that line of code. `PROJECT.json` lists the pairs under `mutants`.

## Modules

**MembershipLedger** is the abstract specification: a project has one owner,
others become members only after an invitation, nothing is taken back, the chat
is open to exactly the members.

**Membership** is the code: `createProject`, `updateProject`, `sendInvitation`,
`respondToInvitation`, `updateProjectParticipations`. A user stands for the
account's address; an invitation is identified by project and address
(`@@unique`). Between the reads and the writes of `respondToInvitation` another
answer may be stored; `sendInvitation` looks for a participation long before its
upsert. `ImplementsLedger` maps the tables to the ledger: owner is the creator,
invited and members are the keys of the two tables, chat is the room.

**Wallet** is one project's wallet and its teams' wallets. `creditWallet` and
`debitWallet` write the absolute balance computed from their read;
`creditTeamWallet` and `debitTeamWallet` write increments, in a transaction that
the foreign key of `transactionById` rolls back (`TransactionByIsAdmin`).
Transaction rows are kept as totals.

**Files** is the object store and the `files` table, with what refers to files:
attachments, messages, submissions, and ids reported to uploaders. Rows and
objects are told apart: `uploadFile` names the object after the file, without its
extension, and the millisecond (`cloudinary.service.ts:184-193`), and
`files.publicId` is not unique. `ObjectOf` is that public id. Files of one request
may have it in common, and so may files of two requests that upload in the same
millisecond (`Fresh`); the store then keeps the object uploaded last, and deleting
either row destroys it. `alike` remembers the files to which that has happened. Any
upload of several, and any deletion, may fail; non-images are raw objects that
`deleteFile` does not find. `submitTask` inserts its rows outside its transaction, so
`InsertMultipleFiles` commits any part of them.

**Accounts** is the account of one address with its code and tokens. A clock
ticks `Second` times per second; the database stores ticks and a token whole
seconds (`Iat`). `TokenIsValid` is `TokenValidationGuard`.

**Teams** is `createTeam`, `updateTeam` and `createTeamMembership`, composed with
the projects they belong to: its projects, members and project rooms change by
the steps of MembershipLedger (`ProjectStep`), the ledger that Membership is
proved to implement. `updateTeam` has no guard but the unique index, because the
look-up of the manager is not awaited. The room of a team and its memberships
are written by one transaction, each under an index of its own.

**ChatLedger** is the abstract specification of the chat: a message is posted in
one step by a participant of its room and stays as it is; clients learn of
messages by reading a room they take part in or by an announcement, which
reaches everybody who follows the room.

**Chat** is the gateway over the message service. A socket listens to rooms;
`sendMessage` creates a message in a transaction, commits, and only then
announces it to whoever listens at that moment; sockets leave, disconnect and
reconnect in between, and the server may go down. `seen` is what a client knows
by announcements and by `getMessages` together. Room participants grow as
Membership and Teams make them grow (`Enroll`). socket.io is modelled from how
the gateway uses it: a socket that has disconnected is in no room and `join` on
it does nothing. `ImplementsChatLedger` maps its tables and handlers to the
ledger: what is pending are the messages of the handlers that have committed and
not announced (`Pending`), who follows is who has fetched while listening.

**Calls** is the other half of the gateway, the signalling of calls
(`CallSpec`; connections and rooms as in Chat, under the handlers' own names,
since both halves serve the same sockets and rooms: **Gateway**): the handler
of an offer or an answer awaits the look-up of its sender and then relays and
acknowledges in one step, a candidate is relayed at once. `known` records what
the sender of a signal knew when it sent it, so that causal order can be stated.

**Tasks** is `createTask`, `submitTask` and `getParticipantTasks`, over the
projects of MembershipLedger as in Teams. A task is named by its `createdAt`,
which is drawn before the commit, so tasks need not become visible in that
order. A client that reads a listing is a process too: a page (`OpenListing`,
`TurnPage`), the total that comes with it from a statement of its own
(`CountPages`), the next page. What it wanted when it began and what it has been
shown are kept for `PagesMissNothing`.

**ProjectViews** extends Tasks with what the read-only endpoints answer, as
functions of its tables: `TaskCounts` adds up groups as `getMyProjects` does,
`JoinedRows` is the product that the joins of `getProjectSummary` produce, with
a finite set of transactions for the project's wallet (`Wallets`).

**Profile** is `updateProfilePicture`, `updateUser` and `getMe` with the image
operations of FileService and CloudinaryService. The transaction's writes stay in
the request until `Commit`, its deeds in the store are done at once; from the
update of the user's row on it holds the row's lock (`Locks`). `Commit` carries
out the cascade that the schema declares. `Rollback` may come anywhere and
leaves calls to the store under way done or not.

`MC*` modules give each specification its symmetry set; `*Proofs` modules hold
the theorems.

## What the runs show

| Run | Instance | Result |
|---|---|---|
| membership | 2 users, 2 projects, 2 titles, 2 requests | `AcceptedAreMembers`, `PendingAreOutsiders`, `RoomIsMembers`, `TitlesUnique`, `ImplementsLedger`; `AnswerIsFinal`, `RemovalIsFinal`, `MembersHaveAccepted` while requests do not overlap |
| membership_reinvite | 2 users, 1 request | **violated**: an invitation sent again after a refusal cannot be answered |
| wallet | amounts 1, 2; opening 0, 2; 1 team; totals to 4; 2 requests | `NeverOverdrawn`, `WithinBooks`, `CreatedOnce`; `BooksBalance` while requests do not overlap |
| wallet_transfer | one amount, 1 request | **violated**: no transfer ever moves anything |
| files | 3 files: two images with one public id, a raw file; 1 user, 1 slot, 2 requests | `UsableFilesAreStored`, `NoImageLeaks`, `SubmittedOnce` |
| files_dangling | 1 file, 2 requests | **violated**: a rolled back submission leaves rows without objects |
| accounts | 1 password, 2 codes, 2 requests, clock 0..3, 2 ticks a second | `StoredCodeWasMailed`, `VerifiedByMail`, `StaleStayRefused` while resets do not overlap; `CodeAcceptedOnce` and `UsedWasAccepted` while requests do not overlap |
| teams | 3 users, 2 projects, 2 teams, 2 names, 2 requests | `TeamsWithinProjects`, `RoomIsTeam`, `TeamNamesUnique` |
| chat | 2 users, 2 rooms, 2 sockets, 2 messages, 2 in the making | `ImplementsChatLedger`, `JoinThenFetchMissesNothing`, `ListenersAreConnected`; `LastMessageIsNewest` while messages do not overlap |
| calls | 3 sockets, 1 room, 2 signals, 2 in the making | `CausalOrder`, `RelayedWereHeard`; every signal is answered (`EverySignalIsAnswered`) |
| tasks | 2 users, 2 projects, 1 team, 2 tasks, pages of 1, 2 requests | `AssigneesParticipate`, `SubmissionsFit`, `PagesMissNothing`; `ViewsAgree` and `LoneTableIsCounted` of the views |
| profile | 2 users, 3 images in 2 sizes, 2 names, 2 requests | `AccountsSurvive`, `ShownPicturesAreStored`; `NothingLeftBehind` while nothing fails or overlaps; every update ends (`EveryUpdateEnds`) |

*Two levels.* Each component states what holds in every interleaving, and apart
from that what its authors clearly mean but the code guarantees only while
requests do not overlap. The second kind is guarded by the history variable
`overlapped`, which turns true when a request begins while another is in flight,
so that one run and one theorem cover both kinds. `resetsOverlapped` of Accounts is
finer: it asks of resets only, so `StaleStayRefused` covers one reset among
sign-ups, verifications and logins in flight. Two answers to an invitation
that overlap, for instance, both pass the check of its status, and the later one
replaces the earlier although an answered invitation is refused otherwise.
`WithinBooks` is the weaker law of balances that
survives lost updates: no interleaving invents money beyond what came in.

*Bounds.* Every race in this code is between two requests on one row, so two
requests in flight are the least that shows all of them; they return to `None`
and begin again without limit, so long sequences are covered. Two projects and
two titles are the least for the title index. Totals in Wallet, codes and the
clock in Accounts are capped (`MaxTotal`, `Codes`, `MaxClock`); the clock covers
both parities of two seconds and the expiry of a code and of an OTP token. Teams
has three users, so that a member of one project can be a stranger to another.
Chat makes two messages in all: the properties compare at most two, and a socket
may leave and come back any number of times around them. Calls needs three
sockets, a caller, a callee and somebody else who hears both. Tasks has pages of
one task, so that a listing of two has two pages and a task committed between
them can shift what is read; two tasks of two users are the least that two
assignees and two projects need. Its wallets are an empty one, beside which the
other figures of the summary can be true, and one of a credit and a debit, beside
which they are multiplied. Files has two files that share an object when they are
uploaded together or in one millisecond, and do not when one is gone before the
other comes; a second user would only be refused what belongs to the first
(`Owned`). Profile has three images: the picture before,
and two updates that overlap over it. The proofs remove the bounds.

*Fairness.* Two modules state it, for their liveness properties; the others are
safety only, since most of the server promises no progress: a request may end in
an error at any step and nothing retries it.

* Calls, `WF(Resume(r))`: the database answers a look-up or fails it; both wake the
  handler. Clients may stop at any time.
* Profile, `WF(Advance(r))`: the store answers a call or fails it, and the database
  executes a statement that need not wait. `SF(UpdatePicture(r))`: the update of
  the user's row waits while another transaction holds it, over and over perhaps,
  and PostgreSQL serves those who wait for a row in turn. Nothing is assumed of
  `Rollback`: the 15 s timeout would end every update trivially.

Deadlock is checked in every run; none occurs, since a request in flight can
always fail.

## What is proved

All theorems are for arbitrary sets and any number of requests in flight.

* **MembershipProofs.** `MembershipConsistent` proves `Inductive`. The three
  visible invariants are not inductive alone: `PendingAreOutsiders` survives an
  upsert only because the row of a member is never missing
  (`MembersWereInvited`, with the addressee not being the creator,
  `InFlightHolds`); the room equals the members only because a project comes
  into being with no rows (`UnusedIsEmpty`). From it follow
  `AcceptedAreAlwaysMembers`, `PendingAreAlwaysOutsiders`,
  `RoomIsAlwaysMembers`, and step by step the refinement
  `MembershipImplementsLedger`. `TitlesAlwaysUnique` needs only types.
  `SerialRequestsAreFinal` shows the properties over `overlapped`: with no overlap
  nobody writes between a request's check and its own write
  (`MembersAlwaysHaveAccepted`, `RemovalsAreFinal` state two of them apart).
* **WalletProofs.** `WalletConsistent` proves that what a request is about to
  write (`new`) already lies within the books that its own row will make
  (`NewWithinBooks`); books only grow, so a stale `new` stays within them.
  `SerialBooksBalance` carries, while nothing has overlapped, the exact equation
  for the pending write.
* **FilesProofs.** `FilesConsistent`: uploads in flight share no row with
  anything (`UploadsArePrivate`), files being destroyed are already unknown
  (`DestroyedAreGone`), foreign keys keep the rows of what is referred to. Objects
  may be shared, so that nothing is destroyed which is in use does not follow from
  the rows: `SharersHold` proves first that two live files have one object only if
  both are `alike`, from what a step may bring to life (`LiveStep`); an object
  destroyed with one file is then another's only if that one is `alike` too. Nothing
  is assumed of names.
  `NoImageEverLeaks`: an image in the store has a row or a request that answers
  for it (`AnswersFor`): one that will give it a row, or one that will destroy it.
  While the server and the store work, `ImagesAreAccountedFor` passes that duty on
  from every step to the next.
* **AccountsProofs.** `AccountConsistent`: whatever verification rests on was
  mailed. `StaleTokensStayRefused`, for any length of the second: a token's whole
  second is not later than the token (`IatIsNotLater`), so it is refused as soon
  as `passwordChangedAt` is later; what has to be shown is that no step takes
  `passwordChangedAt` back. `AccountStep` lists what a step can do to the row. A
  sign-up or Google login in flight cannot replace a row that is there, because
  only one transaction makes it (`StampsHold`); a reset writes the stamp it drew
  before, and that is not earlier than the stored one as long as no other reset
  came in between (`SerialStamps`). `SerialCodes` carries, while no two requests
  have overlapped, that one request at most is in flight and that the code it is
  about to mark is still as it read it; what the code service promises of codes
  follows.
* **TeamsProofs.** `TeamsConsistent`: a team's founder owns its project and owners
  are members of it (`FoundersOwn`, `OwnersAreMembers`); a membership, written or
  in flight, names a participant of that project (`EnrolledParticipate`); projects
  only gain members, so what a request has read stays true. `LedgerStep` sums up
  what a step of the ledger does. `TeamNamesAlwaysUnique` needs only the index.
* **ChatProofs.** `ChatConsistent`: a number is given to one message
  (`NumbersAreGivenOnce`), so what is announced is what was committed
  (`RequestsHold`). `NothingIsMissed` follows because a message that is stored and
  not yet announced has a handler that will announce it to whoever listens, and
  whoever has fetched is still listening (`FetchersListen`). `SerialLastIsNewest`
  adds `OneAtATime`. `ChatImplementsLedger`: a commit posts a fresh number
  (`CommitPosts`), an announcement takes exactly one message off `Pending`,
  because no two handlers carry one number (`PendingChanges`), and reaches all who
  follow (`AnnounceAnnounces`); a crash restarts the ledger. Of Calls,
  `CallsConsistent`: `CausalOrder` alone is not inductive, since a relay could
  append behind a signal that knew it. Signals know only earlier ones
  (`KnownIsEarlier`), and as long as a handler awaits its look-up nobody has heard
  its signal or been told of it, so no signal knows it (`InFlightIsUnknown`): what
  is appended is new to everybody. `SignalsInCausalOrder` and
  `RelayedWereAlwaysHeard` follow.
* **TasksProofs.** `TasksConsistent`: what a creation or a submission has checked
  is still true when it commits, because the ledger only gains members and a task
  is never changed (`RequestsFit`), and stamps are told apart (`StampsUnique`).
  `PagesNeverMiss`: let the rank of a task be the number of matching tasks sorted
  before it. Tasks only come, so ranks only grow; a task wanted by a reader moves
  towards later pages, never back into one that was read. `PagesSoFar` therefore
  stays true: of what the reader wants, all that now ranks within the pages read
  has been shown. At the last page told of, every rank is within them, by the
  arithmetic of `TotalPages`. Counting after the page, not before, only helps.
* **TasksProofs, the views.** `ViewsAlwaysAgree`, `LoneTableIsAlwaysCounted` and
  `FiguresAreAlwaysMultiplied` are about folds, sums and cardinalities over sets
  of any finite size. The library's induction theorems take an operator, which no
  prover here can instantiate; instead, finite sets are well-founded under
  inclusion, so a statement that failed of some finite set would fail of a
  smallest one (`SmallestSubset`, `SetInduction`). From that follow what the
  library's fold does step by step (`IterationExists`, `IterationUnique`,
  `IterationKeeps`), that a sum can be taken in any order (`SumOnRest`) and split
  (`SumOnUnion`). `TaskCountsAddUp` shows that the groups by status count each
  task once, in whatever order the database delivers them; the rest of
  `ViewsAgree` rests on owners and assignees being members. `RowsCount` shows that
  joined rows correspond one to one to tuples of their tables, so sizes multiply,
  and `SumOverRows` that a sum over joined rows counts each amount as often as it
  was joined. That is what the figures are (`FiguresAreMultiplied`); where all
  factors are one they are the true ones. Cardinalities mean something of finite
  tables only: `TablesFinite` is inductive because a step adds at most one row
  (`OneRowAtATime`), and needs no assumption that `Users` is finite.
* **ProfileProofs.** `ProfileConsistent`: image ids are given once
  (`ImagesAreFresh`) and each is one user's (`PicturesAreTheirs`); a picture is
  erased only by an update that holds its user's row (`ErasureIsLocked`,
  `OneHolder`) and, when it commits, shows its own new one. Hence the cascade
  finds nobody, `AccountsAlwaysSurvive`. A shown picture is stored, or its erasure
  is in flight or was rolled back (`ShownOrAtStake`). `Serial` says more while
  nothing failed and no updates of a user overlapped: rows are those of shown
  images, objects those of images shown and not destroyed, or uploaded. In a
  system at rest that is `NothingLeftBehind`.

Assumptions are the named `ASSUME`s of the modules: `None` is no user, row,
request, number or amount; amounts are naturals; wallets are finite sets of
transactions; `MaxSignals` is a natural; a second is at least one tick; every file
has an object, and raw objects are objects; slot names are not purposes. TLC
evaluates them on every passing run.

Every invariant called inductive and every type invariant is proved rather than
run, and every safety property of the passing runs is a theorem. Only
model-checked: the two liveness properties, `EverySignalIsAnswered` and
`EveryUpdateEnds`, which are out of the prover's reach, and the three violations.

## Seen in the models, without a run of its own

* `resetPass` of an account made with Google stores a password and leaves
  `hasPassword` false (`ResetWrite`), so `login` refuses it (`LetsIn`).
* A token signed within the second of the account's creation, or of a password
  change, is refused until the second is over (`IsBefore`): the guard compares
  whole seconds with milliseconds.
* On `disconnect` a socket has left its rooms, so the loop that announces the
  leaving user finds none.
* A task assigned to a team only is shown to nobody (`Matching`), and nobody can
  submit it (`Submittable`).
* A candidate sent before its offer is acknowledged may overtake it (Calls).
* Of two overlapping picture updates of a user, the first one's image stays in the
  store and in `images` for ever (why `NothingLeftBehind` excludes overlaps). Images,
  unlike files, get their names from the store, and never share one.
* The figures of `getProjectSummary` are wrong as soon as another table of its join
  has two rows for the project: each is multiplied by the sizes of the others
  (`FiguresAreMultiplied`), and `totalParticipations` counts the reader's own
  participation only, contrary to the query's comments and columns ("-- Task counts",
  `totalTasks`, "-- Participation counts", `totalParticipations`,
  `managing-role/project/project.service.ts:406-441`). With two tasks, two
  invitations and an empty wallet it reports four of each. The run states where a
  figure is the true one (`LoneTableIsCounted`), which a repaired query would satisfy
  as well.
* Of two overlapping resets of one account the one that writes last may carry the
  earlier `passwordChangedAt` (`local.auth.service.ts:318-323`): a token that was
  refused is accepted again. TLC finds this when the guard of `StaleStayRefused` is
  left out.
* `photo.png` and `photo.jpg` of one request get one public id and one object:
  extensions are dropped and `Date.now()` is the same. One picture is lost at once,
  and deleting either row destroys the object of both, contrary to the comment
  "Append timestamp to avoid conflicts" (`cloudinary.service.ts:193`). Hence the
  exception in `UsableFilesAreStored`.

## Not modelled

* Rounding of `Float` balances; amounts are whole units.
* Two codes that happen to be equal; a public id given again in a later millisecond
  (it carries the time).
* Expiry of access and refresh tokens; roles (every account has the one role).
* The wallet status, the seen flag of invitations, names, dates, messages of
  invitations: nothing reads them. Hence `updateWalletStatus`,
  `updateTeamWalletStatus` and `updateInvitationSeenStatus` are no actions.
* Filters of the task list other than the status, and its other sort keys, which
  tasks may share; descriptions, priorities, due dates and budgets of tasks.
* The participation's status in Tasks, Teams and Chat: their operations do not
  read it.
* `message_receivers`: written with every message, read by nothing.
* Announcements of who comes and goes in the chat.
* `createTeamLeader`, which no route reaches, and the empty `addTeamLeader`;
  `getTasksGroupedByStatusWithStats`, which nothing calls.
* The remaining listings (chats, invitations, teams, wallets, project properties,
  the leader's tasks), mail bodies, validation, exception filters, configuration:
  queries of single tables or no state at all.

## Plan

Done, in this order: Membership with its ledger and refinement, Wallet, Files,
Accounts, Teams over the ledger, Chat, Tasks over the ledger with ProjectViews,
Profile, Calls, ChatLedger. Worth adding next:

1. Membership and Teams composed as the rooms of Chat, so that who may know a
   message is stated of projects and teams.
2. Accounts: tokens that remember the password they were given for.
