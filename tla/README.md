# A TLA+ model of paperless-ingestion-bot

The bot brings documents into Paperless-ngx in two ways: attachments of Signal
messages, and attachments of email. This directory holds a model of both, model-checked
with TLC, its safety properties proved with TLAPS. Paths below are those of the repository (`src/...`
there is `src/src/...` in `PROJECT.json`).

## 1. The system

Two kinds of process share some files and services:

- `signal`: a long-lived HTTP server. Signal's bridge posts every received message to
  `/webhook`. The handler answers at once and forks a fiber per message; fibers interleave
  at every `yield*` that waits.
- `email`: a oneshot process systemd starts every fifteen minutes
  (`deploy/systemd/paperless-ingestion-email.timer:6`), and a person may start at any time, so
  that two may overlap. It works on one thing at a time, through all active accounts.

They meet in `email-accounts.json`, in the system keychain, and in Paperless (whose tags
both create). There is no lock anywhere.

### Components

| component | source | state | operations |
|---|---|---|---|
| account store, account commands | `shell/runtime.ts`, `domain/account.ts`, `core/account.ts`, `live/credentials-store.ts`, `core/commands.ts`, commands of `shell/signal-pipeline.ts` | `email-accounts.json`, its `.tmp`, the keychain | load all, save all, add, pause, resume, remove, status |
| webhook intake | `shell/signal-pipeline.ts`, `core/authorization.ts`, `core/signal-attachments.ts`, `domain/signal-types.ts` | token bucket, the fibers | limit, authorize, check references, upload attachments, reply |
| Paperless client | `live/paperless-client.ts`, HTTP retry of `shell/layers.ts` | tag cache of the process; tags and documents of the server | resolve tag, create tag, post document |
| email pipeline | `shell/email-pipeline.ts`, `shell/email-attachments.ts`, `core/search.ts`, `core/eligibility.ts` | position in accounts, pages and items | search, page, fetch, collect, judge, upload, mark |
| IMAP client | `live/imap-email-client.ts`, `core/imap-body-structure.ts` | connection pool, open mailbox | connect, search, fetch parts, mark |
| credential notices | `shell/credential-failure.ts`, `core/auth-failure.ts` | rate limiter per address, in memory | look up owner, take token, send |
| Ollama client | `live/ollama-client.ts`, `core/ollama.ts` | none | ask for a verdict |
| Signal client | `live/signal-client.ts` | none | accounts, attachment, send |
| the bot's service | `shell/config.ts`, `shell/layers.ts`, `cli.ts`, start-up of `shell/signal-pipeline.ts`, `deploy/systemd` | configuration and users as read at the start | start, check, serve, end, be started again |
| readings | `core/imap-body-structure.ts`, `core/eligibility.ts`, `core/ollama.ts`, `core/search.ts`, `domain/signal-types.ts`, `domain/account.ts`, `domain/imap-provider.ts` | none | pure functions on what others have written |
| other helpers | `core/filename.ts`, `core/labels.ts`, `core/validation.ts`, the rest of `domain/*` | none | strings, types, errors |

### How they interact

- A text command runs in the fiber of its message: load all accounts (one file read, then
  one keychain read per entry), change one, save all (write `.tmp`, rename, then one
  keychain write or delete per entry). Between any two of these another fiber may run.
- An attachment is fetched from Signal, its tags are resolved through the Paperless client's
  cache (a `Ref` fibers share), and it is posted. Attachments of one message go one by one.
- An email run reads the store once, and for each account asks the mailbox, Ollama and
  Paperless in turn. The label it writes into the mailbox is its only memory between runs.
- A login that is refused makes the run tell the owner over Signal, then the run ends.

### What is hard, and what correct means

1. *Account store.* Whole-list read-modify-write without a lock; a temporary file of one
   name; a file and a keychain no transaction spans; failure between any two calls.
   Correct: an account changes only as a command about it says; an answer stays true; the
   file is never half-written; no password appears that nobody gave.
2. *Email pipeline.* Upload and mark are two systems; either may fail, or be done and
   reported as failed. Correct: nothing is marked that has not been dealt with; duplicates
   only where something failed; what can be fetched is stored in the end, also behind pages
   with nothing to save.
3. *IMAP session.* A mailbox that does not open is replaced by INBOX per call, and UIDs
   are carried from call to call; a pool hands out clients whose connection the scope of
   their first use has closed; and the numbers parts are asked for by are not always those the
   server knows them by. Correct: what goes wrong stays with the account it is about.
4. *Paperless client.* Look up, then create, then write back a copy of the cache, with
   other fibers and another process doing the same, and people making, renaming or deleting tags.
   Correct: tags on a document are those asked for; failures have a cause.
5. *Webhook.* Each fiber may die at any step; the request has been answered long before.
   Correct: what is stored is a prefix, replies are true, what is lost and who hears nothing has
   a reason that can be named.
6. *Notices.* The throttle is in memory, and the process lives for one run; the first
   refused account ends the run; the token is taken before the message is sent; passwords are
   renewed and accounts paused while a run goes on. Correct: who has to know is told.
7. *Service.* Files are read once and services come and go; a start fails halfway.
   Correct: nothing is served that was not checked, and a start that can succeed does.
8. *Readings.* What comes in has many shapes. Correct: a part is asked for once, nothing is
   kept back without a reason, a mark hides a message, the shape of a webhook does not
   matter, and an account that is only carried along by a save stays what it was.

Every hazard with its line is in `PROJECT.json` under `hazards`.

## 2. Modules

| module | what it is |
|---|---|
| `AccountStore` | the account store and the commands, one action per await |
| `AccountRegistry` | abstract specification: the life cycle of accounts, one changing at a time |
| `MCAccountStore` | instances, the refinement mapping, the two properties the docs claim |
| `AccountStoreProofs` | types, passwords and the file of `AccountStore`, through any overlap |
| `AccountPromiseProofs` | answers and refinement of `AccountStore`, as long as changing commands do not overlap |
| `PaperlessClient` | tags, cache and upload; also usable on its own through `TagSpec` |
| `MCPaperlessClient` | three callers in two processes |
| `PaperlessClientProofs` | theorems about `TagSpec` |
| `WebhookIntake` | extends `PaperlessClient`: the life of a message, uploading through that module |
| `MCWebhookIntake` | two messages |
| `WebhookIntakeProofs` | theorems about the intake; extends `PaperlessClientProofs` |
| `EmailRun` | email runs over mailboxes, with the pool, the IMAP session, Ollama and Paperless |
| `MailDelivery` | abstract specification of the email pipeline: delivery of letters at least once |
| `MCEmailRun` | instances, and a claim of the docs that does not hold |
| `EmailRunProofs` | theorems about email runs: what they store and label, that they implement `MailDelivery`, that they move on |
| `CredentialNotice`, `MCCredentialNotice` | refused logins and notices across runs of the timer |
| `CredentialNoticeProofs` | theorems about the notices |
| `MessageReading` | functions of the email pipeline: eligibility, search, Ollama's answer |
| `MimeStructure` | the walk over a message's parts: recursive, apart so that the rest can be proved about |
| `PayloadReading` | functions of the bot: webhook payloads, entries of the account file |
| `Readings` | one reading of any kind, with answers of any length |
| `ReadingsProofs` | theorems about the readings, and lemmas on the functions for any labels and entries |
| `MCReadings` | `Readings` with answers up to a length, and `MimeStructure` up to a depth |
| `SignalService`, `MCSignalService` | the bot's process under systemd |
| `SignalServiceProofs` | theorems about the process |

An operator named `Bug...` is never used by a specification: it is the definition after
it with one plausible mistake, kept to show that a property detects that mistake.

### AccountStore and the code

- `file`, `tmp` hold a form (`missing`, `empty`, `torn`, `whole`) and a list; `secrets` is
  the keychain; `fiber[f]` holds the program counter, the command, the loaded list
  (`accounts`), the emails whose keychain call is pending (`todo`), whether a resume has
  passed its first look-up (`checked`), and the inode its descriptor writes to (`handle`).
- `ReadFile`, `FetchSecret` are `loadAllAccounts`; an entry without a password is dropped,
  which is what makes a removed account vanish from the next save. `CheckResume` is the
  look-up of `processResumeCommand` before the update loads a second time. `Change`
  is the pure change. `OpenTmp`, `WriteTmp`, `RenameTmp` are `atomicWriteJson`, at the grain of system
  calls, because two saves share the name `.tmp`: truncation by the second open, a
  short write over a long one, and a rename that moves the inode the other still writes to
  are all there. `SyncSecret` is one `setPassword` or `deletePassword`. `AnswerSaved`,
  `AnswerNotFound`, `AnswerStatus` end a command.
- `Fail` ends a command at any await. `Crash` ends all of them. Files and keychain stay as
  they are.
- `given`, `promise`, `raced`, `contended` are history: nothing in the model reads them
  but properties.
- The array in the file is a function from emails to entries. Several entries of one address,
  which somebody may write by hand, are left out: `upsertAccount` replaces the entry of an
  email, so no command makes two. Of two made by hand a pause or a resume changes the first
  only (`signal-pipeline.ts:577`). `EmailRun` and `CredentialNotice`, which read the file, admit them.

### PaperlessClient and the code

A caller's record holds the names to resolve, the ids resolved, the copy of the cache
`resolveOneTag` took (`known`) and the id it got (`found`). `UseCached`, `AskForTag`,
`GetTag`, `PostTag`, `Remember` are the steps of `resolveOneTag`; `PostDocument` is the
upload. `Remember` writes back `known` with one entry more, as
`Ref.set(new Map(cache).set(...))` does. `RequestFails` loses a request or its answer; the
HTTP client may repeat it. `RestartClient` is a restart.

Paperless itself is not in the repository; it is modelled from its use: at most one tag bears a
name, an id is never used twice, a document that names a deleted tag is refused. `tags[i]` is the
set of names tag `i` has borne, of which it bears the last (`current`); `EditTag` is a person
making a tag, renaming one, also into a name the bot asks for, or deleting one. Names are names up
to case, which is how the look-up compares them (`name__iexact`, `paperless-client.ts:59`), and
Paperless is taken to keep one tag per name in whatever case.

### WebhookIntake and the code

`Webhook` is the handler with the limiter; `Authorize`, `Validate`, `SkipAttachment`,
`AttachmentTooLarge`, `UploadAttachment`, `UploadReturns`, `AllUploaded`, `Reply` are the
fiber; uploads are `PaperlessClient`'s steps with its shared cache. `Refill` gives back a
token. `FiberEnds` is a failed call, or the interruption of the child fiber; `Restart`
loses everything in memory. Text commands appear as a reply here and as themselves in
`AccountStore`.

Two ways to end without a reply are no failures. `Reply` may find that Signal's bridge names no
account, and skips the message it was to send (`signal-pipeline.ts:393-395`); and a resume whose
second look-up finds its account no more sends nothing (`Comes`, `handleResumeFound`,
`signal-pipeline.ts:620-630`). `replies` records them as `Silences`, "unlinked" and "gone", beside what
was sent.

### EmailRun and the code

One record per process, `run[p]`: accounts left, addresses in the pool, UIDs left, the
page, its items with the UID each was fetched by, the item being uploaded, the UIDs saved
from. One action per step of `processAccountPages`: `Search`, `NextPage`, `Fetch`,
`Collect`, `Judge`, `Upload`, `PageDone`, `Mark`, each with what happens when its call
fails (`SearchFails` and `FetchFails` retry and then give an empty result, as the code
does; `UploadFails` and `MarkFails` may have been carried out; `CollectFails` is a file
that cannot be read). `Crash` ends a process anywhere. `mail`, `inbox`, `marked` are the
server. `Arrive` is new mail, at any moment; mail Gmail's search leaves out for another reason
than the label (promotions, spam, the account's own exclude labels) is left out. `elsewhere` and
`mistaken` are history.

- *Part numbers.* A message is a sequence of parts, each at its path in the MIME structure, and
  `collectAttachmentParts` asks for an attachment by that path with a "1." before it
  (`AskedFor`). The server knows the part by the path itself (`ImapNumber`, RFC 3501, 6.4.5), so
  that the two agree only in a message of one part. `Gives` says what comes: of text and a PDF
  the PDF is asked for as "1.2", which the server does not have; of an HTML text with
  its image, an image and a PDF, the PDF is asked for by the number of the image before it. What
  comes is given the type and the name of the part that was asked for, with the size of what came
  (`Kind`), and is stored in its place (`Given`). A number the server does not have yields no
  content, which fails the fetch of the whole page, at every try and in every run, with nothing
  having failed (`FetchMissing`); after the last retry the page counts as empty.

- *Pool.* `withConnection` keeps a client per address, and the scope that acquired it logs
  it out at the end of the account's turn. `UseClosedClient` is a second entry of the same
  address: its searches fail, and it counts as an account without mail. `ConnectFails` ends
  the run for the accounts behind as well.
- *INBOX.* `Open` is `openMailbox`: any error opens INBOX instead, for that call. UIDs of INBOX
  and of the mailbox name different messages; `strayed` remembers the accounts this
  happened to, `elsewhere` the processes whose page was fetched from INBOX, and `mistaken` the
  messages that were marked by a UID that was fetched as another's.
- *Overlap.* Two processes share mailbox and Paperless and nothing else.
- *Order of a run.* `Farther` compares two states of a process: fewer accounts left, then a
  later phase of the turn, then fewer UIDs left, then a later stage of the page, then fewer
  items, then fewer tries left. It is what the loops of `processAccountPages` and its retries
  count down.
- *Letters.* `Letters` maps the state to `MailDelivery`: a message of a Gmail account is a
  letter as long as messages are labelled and INBOX was not opened for the account. It is held
  by the processes that have found it and not left it behind (`Held`), it wants what the server
  gives for its eligible attachments, and it is done when it bears the label.

The order of a page's items is left open; Paperless stores whatever it is sent. Temporary files
are left out.

### CredentialNotice and the code

`Order` is the file: an address may stand in it twice. `run.left` holds the places a run has
still to come to, `Current` is the account at the first. `StartRun` reads the accounts that are
active and their passwords; a run goes by these,
whatever `Renew`, `Pause` and `Resume` do meanwhile, while `Revoke` reaches it too (the
server refuses what the run has read). `AccountWorks` and `LoginRefused` are an account's
turn; `LoginRefused`, `TakeToken`, `GetAccount`, `SendMessage` are `notifyCredentialFailure`,
at the grain of its calls. `RunFails` is every other end, among them an error whose text
`isAuthFailure` does not know: that function compares words, and which words a server says is
left open. `limiter` is emptied by `StartRun`, since the layer is built per process, and `told`
counts the time since a notice. Within one process each account is tried once, so the
limiter never refuses anything; `TakeToken` has that branch because the code has it.

### The readings and the code

Strings are taken apart as far as the code does and no further: a content type is a base and
whether anything stands around it, an answer of Ollama is a sequence of words, a label is
words and a prefix, a sender is a number, an object, a string that is no number, or null.

- `Collect` (`MimeStructure`) is `collectAttachmentParts`. `PartNumbers` compares it with the numbering of
  IMAP (RFC 3501, 6.4.5): the numbers are those of IMAP for a message that is one part, and
  IMAP's behind a further "1." for the parts of a multipart message. The first child of a
  multipart message is part "1" for a server and "1.1" for the code. The property states this
  relation, since it is what the code does; whoever changes the function should know of it.
- `isEmailAttachmentEligible`, `AsksOllama`, `parseOllamaYesNo`, `assess`, `IsUploaded` are
  the way of an attachment from `fetchPart` to `processItem`; `SignalTakes` is what the webhook
  does with the same file.
- `mergeExcludeLabels`, `buildSearch` build the search; `IsFound` is Gmail's reading of it,
  `Marked` is `markProcessed`. A label of several words ends at the first for the search.
- `decodeWebhookPayload`, `getEnvelope`, `resolveSignalSource`, `getDataMessage` and their
  composition `Reading` are the first steps of `processWebhookPayload`; `Wrap` puts one
  message into each shape the schema has.
- `Load` and `Save` are `accountFromMetadata` and `accountToSerializable` with the IMAP
  presets, as `loadAllAccounts` and `saveAllAccounts` of `AccountStore` apply them to every
  entry, with the label each caller passes. `ReadEntry` is a command's load and save of an entry
  followed by a run's load of it.

### SignalService and the code

`bot.pc` is where the start is: `LoadKeychain`, `ReadConfig`, `ReadUsers` are the layers of
`buildSignalLayer` in the order they are built, `Validate`, `ProbePaperless`, `ProbeSignal` are
`runServerStartupValidation`, `Listen` opens the port. `Step` is what they have in common: an
error of any layer reaches `runMain`, which ends the process with status 1, and
`Restart=on-failure` of the unit starts it again. A signal ends it with status 0
(`cli.ts:121-126`), which systemd takes for the end. `Change` is everything around: files
edited, the keychain's module missing, services up and down, the port taken.

What a bot that serves has read stays what it is: a user taken out of `users.json` may use
the bot until it is started again, while every email run reads the file anew.

## 3. Runs

| run | asks | bounds |
|---|---|---|
| `registry_sequential` | does one command at a time, with failures, implement `AccountRegistry`; do answers stay true; is a password ever invented | 1 fiber, 2 accounts, 2 passwords, 2 failures or crashes |
| `registry_concurrent` | what is left when two commands overlap; is every step before that one of `AccountRegistry` | 2 fibers, 1 account, 1 failure |
| `removed_terminal` | is removed terminal — no | 2 fibers, 1 account, 0 failures |
| `email_safety` | is a marked message done; how many duplicates; does the pipeline implement `MailDelivery` | 2 processes, 1 Gmail account, 2 messages of 4 kinds (one part; text and PDF; nested, with and without a part over the limit), page of 1, 1 retry, 1 failure, crash or opening of INBOX |
| `email_liveness` | does everything that can be fetched get stored; does each step take a run farther | 1 process, 4 entries (two of one address, the one with mail, one that cannot connect), 3 messages of 3 kinds (nothing to store; text and PDF; nested), page of 2, 2 failures |
| `generic_reupload` | is a marked message left alone — not on generic IMAP | 1 generic account, no failures |
| `paperless_tags` | do caches stay true, do documents get their tags, why do uploads fail | 3 callers in 2 processes, 2 names, 1 tag made, renamed or deleted by hand, 1 failure |
| `webhook_safety` | what is stored, what is replied, what is lost | 2 messages of 11 payloads, 2 attachments at most, 1 token, 1 edit, 1 failure |
| `notices` | is a refused login told, and an account refused for good told of in the end | 3 accounts, one without an owner, throttle of 2, 2 other failures, any number of runs and changes |
| `notice_throttle` | is a notice sent once per throttle period — no | 2 accounts, throttle of 3 |
| `readings` | do the pure functions agree with what they are for | every input: MIME trees of depth 2 with up to 2 children, answers of 3 words, all types, sizes, labels, payloads and entries |
| `service` | does the bot serve only what it has checked, and does it come to serve | 2 users, 2 keys of which the environment gives 1, 2 crashes, any number of changes, starts and stops |

### What the passing runs show

- `ImplementsRegistry`: with one command at a time, and any call failing or the process
  dying anywhere, each step either changes no account or makes one move of the life cycle.
  In particular a crash between rename and keychain never leaves an account in a state its
  command does not explain, because a load ignores entries without a password.
- `MovesAreOrderly`: the same of each step of several fibers, statuses among them, up to the
  moment two changing commands overlap.
- `PromisesKept`: the last answer about an account stays true through later
  commands about others, through failures and restarts, as long as two changing commands
  never overlapped. With overlap it does not hold, which is what `removed_terminal` exhibits.
- `WholeUnlessContended`: the precise condition under which `atomicWriteJson`
  ("Atomic write", `runtime.ts:26`) is atomic: no two saves between open and rename at
  once. They share the name `.tmp`, and the second open truncates what the first renames.
- `NothingInvented`: even with overlapping commands, a stale save writes back only
  passwords that were given for that very account.
- `MarkedIsDone`: no message is marked before what the server gives for each of its eligible
  attachments is stored or turned down, through failures, crashes and overlapping runs. This is
  not to say that the documents themselves are: where the part number names another part, that
  part is stored in the document's place, the message is marked, and no run looks at it again. The
  exception are messages marked by another's UID, when INBOX was opened for one of two calls
  (`mistaken`): the run has read nothing of them, and at Gmail they are lost. Without the
  exception TLC finds this loss. Other messages of such an account are covered.
- `DuplicatesNeedACause`: Paperless gets an attachment once, once more for each overlapping
  run, and once more for each failure, and no run repeats what an earlier one has labelled.
- `EventuallyStored`: what comes for an attachment that needs no verdict is stored in the end if
  its account is reached, past pages with nothing to save, past failures, and past an entry
  that was given a closed connection; unless its page holds a message with a part number the
  server does not have. That exception is needed, and ordinary mail of text and a PDF falls under
  it: such a page fails for good, and takes the other messages on it along.
- `RunsMoveOn`: a run cannot go round. Whatever fails in it, each step takes it farther in an
  order with no way back; the accounts of the file, the UIDs of one search and the retries are
  finite. A page that fails to the last retry, or has nothing to save, is left behind like any
  other. New mail does not prolong a run, which searches each account once.
- `DeliversMail`: the life of a message as its reader sees it. A process takes a message only
  while it bears no label; only a process that holds it sends or refuses a document of it, and
  only an eligible one; the label is set by a process that holds it, when all of it has been
  dealt with, by whichever process. What is sent is what came for the part number, as above; a page
  that cannot be fetched is let go. Whatever fails, retries, crashes or overlaps is one of these
  moves or lets go: nothing sent, refused or labelled is undone.
- `CacheTrue`, `TaggedAsAsked`, `FailuresHaveCauses`: the cache written back stale loses
  entries but never gives a name a tag that has not borne it; a document gets, for each name it
  was uploaded with, a tag that has borne the name, and no tag that has borne none of them (a
  tag renamed from one of its names to another while they are resolved stands for both; a name
  asked for twice, as two labels of an email may become one, `labels.ts:45`, may get two tags if
  the first is deleted in between); an upload fails only after a failed request, a clash between
  two creations of one tag, or a deleted tag that is still cached.
- `StoredIsAPrefix`, `RepliesAreTrue`, `NothingLostQuietly`: documents of a message arrive
  in order without a gap; "no documents saved" is only said when none was. Of an undisturbed
  message each document is stored exactly once, but for those behind a large attachment
  and those of a message with a bad reference; and if none was stored its sender has an answer,
  but for these two, for a bridge that names no account, and for a resume whose account went
  away. These are the ways to be passed over in silence, and the property says there is no other.
- `RefusalIsTold`, `EventuallyTold`: a refused login of an account with an owner is told at
  the end of its run unless something else fails on the way, and an account that stays
  refused is told of again and again, provided each account before it in the file works or is
  paused. A refused one before it would end every run first: that proviso is needed.
- `PartsAreNumbered`, `NothingElseIsKeptBack`, `MarkHidesMessage`, `ShapeDoesNotMatter`,
  `OtherAccountsSurvive`: part numbers are distinct, complete and in the message's order, in the
  relation to IMAP's given above; email keeps back what Signal would take only for being a small
  image, having a junk name, or a no of Ollama that comes before any yes; a label of one
  word hides the message it is on, and a search by such labels passes over nothing else; a
  sender is found in every shape of a payload, except behind a source that is no number or a
  number that is null; an account that is loaded and saved by a command about another reads
  the same afterwards, also where the command passes another label.
- `ServingIsFounded`, `EventuallyServes`: a bot that serves has users and, unless told
  otherwise, both services have answered this very process; once things are right and stay
  right it serves for good, unless somebody stops it.

### What the failing runs show

1. `removed_terminal`: a pause (or resume, or add of another account) that has loaded the
   store before a remove is saved writes the removed account back with its password.
   `domain/account.ts:19` and `:47` call removed terminal.
2. `generic_reupload`: `core/search.ts:44` searches a generic account for everything, and
   nothing reads the flag `markProcessed` sets; every run uploads the same first page.
3. `notice_throttle`: the limiter dies with the process, so the owner is told at every run
   and not once per 24 hours.

### Why the bounds are enough

- *Accounts*: a save touches each account independently; one is the account a command is
  about, the second stands for all others. The concurrent run needs one only: whether another
  command is about the same or another account, it writes the whole list.
- *Fibers*: overlap on a file is a relation of two. What more than two can do is covered by
  the theorems, which hold for any number.
- *Failures*: one puts a system in a bad state, the second hits the recovery from it.
- *Overlapping email runs*: two; each works from what it has searched itself.
- *Pages*: in `email_liveness` three messages with pages of two give a second page behind one with
  nothing to save, and two messages on one page give one that was saved from beside one that was
  not. In `email_safety` pages of one put a message at hand next to one still to come, for both
  processes at once. That pages of any size go with any number of processes is proved.
- *Messages*: the mail of `email_liveness` is of three kinds: nothing to store; a part number that is not
  there; two parts each asked for by the number of the one before, one for Ollama and one to be
  stored. That keeps the number of states down, since temporal properties take the longest.
  `email_safety` has, beside the last two, the message of one part, where the number is right, and
  one where the image's number names a part over the limit.
- *Retries*: one in place of two; the last retry and one before it are told apart.
- *Attachments*: three where two are allowed give the cut-off, a first, and a later one.
- *Tags*: two names are needed for a write-back of the cache to lose the other.
- *Notices*: three accounts give one refused behind a refused one, and one without an owner
  between; a throttle of two tells just now, lately and long ago apart.
- *Readings*: the code branches on a node and its position; depth two has a part of a part.
- *Service*: two keys of which one comes from the environment tell the two sources apart.

`MaxUploads` and `MaxStored` only stop counters (from 1 on: a thing done is told from one not done); `email_safety` has `MaxUploads = 4`, above the
`2 + MaxFaults = 3` its property compares with. `email_liveness` needs no count, so it stops at 1;
its mail goes to the third account only (`MailForThird`), the one the property speaks of.
Emails, fibers, processes, passwords that the actions treat alike are declared symmetric, in
safety runs only. `registry_concurrent` starts from active accounts (`ActiveInit`): commands
reach the other states. `webhook_safety` ends when both messages are over and `readings` when
its input is read, so these do not check for deadlock; every other passing run does.

### Fairness

`EmailRun` assumes weak fairness of `RunStep` of each process: the timer starts runs again and
again, and a run takes its next step. All calls of a run answer, fail or time out, the run
does nothing else, and a step is enabled until it is taken, so weak fairness is what the
scheduling gives. Nothing is assumed of mail or of failures; `MaxFaults` bounds those, so that
the property says "once failures cease". `Judge` is fair as part of `RunStep`, but its verdict
is free: the property is about attachments Ollama is not asked about.

`CredentialNotice` assumes weak fairness of `RunStep` for the same reason; renewing, pausing
and failing are never owed. `SignalService` assumes weak fairness of `Progress`: systemd starts
a failed process again after five seconds (`RestartSec=5`), too seldom for its limit on starts,
and a start goes on. Nobody has to start or stop it or put anything right.

`AccountStore` states weak fairness of each fiber's steps; no run relies on it. The other
modules are checked for safety only.

## 4. Proofs

Every invariant and action property a passing run checks is proved, `PartsAreNumbered` apart. The theorems
hold for every value of the constants; what is assumed of these stands beside their
declarations, and TLC evaluates it in every run:

- *accounts*: `NoEmail` is no email, `NoPassword` no password, `InitialPassword` is one;
- *email runs*: a page has at least one message, `Order` is a sequence of accounts, the
  processes that may overlap are finitely many, messages have up to `MaxParts` parts, and the server
  gives no number to two parts of a message;
- *tags*: each caller belongs to a process, each document has a sequence of names, `NoDoc` is none;
- *intake*: there are payloads, of the parts they are declared of; attachments of messages are
  documents; the callers are fibers of one process, the bot;
- *notices*: `Throttle` is at least 1, `Order` a sequence of accounts;
- *service*: the environment gives some of the keys.

Bounds on counters (`MaxFaults`, `MaxEdits`, ...) are any natural numbers, `MaxUploads` and `MaxStored`
from 1 on. None of the assumptions bounds the number of fibers, messages or accounts.

### Account store

`AccountStoreProofs`, with no condition on overlap:

1. `TypeCorrect`: `TypeOK` is not inductive: a fiber indexes its list by the emails still to do
   and by the email of its command, so `Fit` says both are in the list.
   `TypeInv == TypeOK /\ \A f \in Fibers : Fit(fiber[f])` is.
2. `NothingIsInvented`: a password travels from a command or the keychain through a fiber's
   list to the temporary file, the file and the keychain. `GivenInv` says of each of these
   places that what lies there was given for the same email; stale copies are harmless
   because `given` only grows.
3. `FileStaysWhole`: while no two saves have overlapped (`~contended`), `AloneInv` says: at
   most one fiber is between open and rename, its descriptor is on the file now named
   `.tmp`, which is empty before its write and whole after it; so the rename puts a whole
   file in place.

`AccountPromiseProofs`, as long as no two changing commands have overlapped (`~raced`):

4. `AnswersStayTrue` (`PromisesKept`), for any number of fibers. An answer says what the store holds, and later
   commands rewrite the whole store; it stays true because what they write is what they have
   read. `Calm` says so: at most one fiber is in a changing command, its list is the store's
   loadable entries with their passwords, as far as it has come (`PartLoad`), then these with
   its one change (`Current`), then the file, of whose passwords those not in `todo` are in the keychain (`Syncing`); the
   temporary file holds the list before the rename; the account of the command has no
   promise meanwhile; all promises are kept. `CalmInv == ~raced => Calm` is inductive together with `TypeInv` and
   `AloneInv`; TLC checked it with both registry configurations before it was proved.
5. `MovesAreMoves` (`MovesAreOrderly`), for any number of fibers, and from it
   `StoreImplementsRegistry` (`ImplementsRegistry`) for at most one fiber, which can race with nobody. What a load would
   return of each account (`Effectives`) changes in two places only: at the rename, where `Current` says that only
   the command's account can differ and how, and at a keychain call, where
   `Syncing` says that the password is the one that is there, or that of an add.

### Email runs

`EmailRunProofs`, for any accounts, mailboxes, page sizes, retries, processes and failures:

1. `RunsTyped`: `Structure == TypeOK /\ ...` adds what a process holds at each place of
   its turn (`TurnSound`, `ItemsSound`), that INBOX holds messages of the mailbox once each
   (`MailboxSound`), and that only attachments that have arrived are counted.
2. `MarkedMailIsDone` (`MarkedIsDone`): `Covered` adds, for each process: its items and what it
   has saved are UIDs of the mailbox its page was fetched from (`PageBox`, the one `elsewhere`
   names), and every eligible attachment of the messages these name there is stored, turned down
   or still at hand. `Mark` finds nothing at hand, so a message that has its UID in the mailbox
   that is open then is done, or is not the message the UID was fetched for: it is `mistaken`. `MarkedSettled`
   is the property with what is counted for the attachment itself in place of what came for it.
3. `CopiesHaveCauses` (`DuplicatesNeedACause`), by counting. `Counted` says of each attachment, as long as its message is not
   marked: copies, and processes that hold it by a UID of another mailbox, are no more than the processes about to mark the message,
   and the faults. Once it is marked: copies, and processes that may still upload it, are no
   more than the processes and the faults, since no process that searches from now on finds it. The step that marks turns
   the first into the second, each process being in one of its sets at most.
4. `RunsComeToAnEnd` (`RunsMoveOn`), from `Structure`: one lemma per action names the part of the
   order that grows. `FartherIsAnOrder` says that `Farther` is irreflexive and transitive on all
   states a process can have: so no run is twice in one state, and each step is one to a state it
   has not been in. That the descent is also finite is seen from its parts (a sequence, two finite
   sets, a number), and stays an argument on paper: it is an induction.
5. `PipelineDelivers` (`DeliversMail`): `DeliversMail` needs the states to be related more than
   `MarkedIsDone` does. `OnlyChosen` adds to `Structure` and `Covered` that what is at hand to be
   judged or uploaded is eligible, one at a time, and that only what has arrived is refused. Then
   each action of a process is `Work` of that process: `Search` takes, a page left behind and the
   end of a turn let go, `Upload`, `Judge` and `Mark` are `Send`, `Refuse` and `Finish`, and
   `UploadFails` may send and let go at once. `Covered` is what makes `Mark` a `Finish`. An INBOX
   opened for the account is `GiveUp`, and a page that is not there is let go.

### Paperless client and webhook intake

`PaperlessClientProofs`, of `TagSpec`:

1. `TagsTyped`, `CachesAreTrue`, `StoredWithItsTags` (`CacheTrue`, `TaggedAsAsked`), from
   `TagInv`: a cache, and the copy of it a fiber writes back, gives a name only a tag that has borne it, and the tags a call has gathered
   are those of the names it has consumed (`CallSound`). It holds of stale copies because what a
   tag has borne it has borne for good: `tags` only grows, and so does each of its sets (`Grown`).
2. `FailuresAreExplained` (`FailuresHaveCauses`): a call that goes on while nothing has failed, clashed or been
   deleted has only tags that exist.

`WebhookIntakeProofs` extends it. The composed `Spec` makes each step of an upload within a
message, so the invariant of the calls is kept by steps of both; `MessageInv` says, message by message: a
fiber is in an upload exactly while its message waits for one, of the attachment at hand; what is stored are
the attachments before it (`StoredSoFar`); the flag and the replies agree with that
(`RepliesMatch`); and if nothing has disturbed the message, each of these exactly once, and a
message that is over has come to one of the ends the property names (`Settled`, with `Accounted`
and `Accountable`). Hence `IntakeTyped`, `DocumentsInOrder` (`StoredIsAPrefix`), `TruthfulReplies`
(`RepliesAreTrue`), `NothingIsLost` (`NothingLostQuietly`), and `IntakeTags` for the three
properties of the Paperless client inside the intake.

### Notices, service, readings

- `CredentialNoticeProofs`: `NoticesTyped`; `OwnersAreTold` (`RefusalIsTold`), an action
  property, from `LimiterFresh`: before a run has asked the limiter nobody has, so the one
  refusal of the run gets its token.
- `SignalServiceProofs`: `TypeCorrect`; `ServesWhatItChecked` (`ServingIsFounded`), from
  `Founded`: what has been read and answered at each place of the start.
- `ReadingsProofs`: the functions first. `AnswerDecides`: for an answer of any number of words
  `parseOllamaYesNo` is false exactly if a no stands before every yes. `MarkAlwaysHides`:
  labels over any set of words. `ShapesAgree`: payloads. `EntriesReturn`: any labels, hosts,
  mailboxes and ports, any two marks. From these `OnlyThreeReasons`, `MarksHide`,
  `ShapesDoNotMatter` and `OthersSurvive` for what a behaviour of `Readings` has read:
  `Understood` says that `read` is what the functions make of the input.

### Only model-checked

- `EventuallyStored`, `EventuallyTold`, `EventuallyServes`: liveness under fairness needs
  ENABLED, which the prover does not do. The safety half of the first is proved: `RunsMoveOn`.
- `PartsAreNumbered`: a recursive definition over trees, which would need induction over
  data.
- The three runs that fail show behaviours; there is nothing to prove.

The proofs also corrected the model: the modules had left
unsaid that there are payloads, that the file of accounts is a sequence, that the processes are
finitely many, and that counters of documents reach 1.

## 5. Plan

Done: all components that keep state, their runs, proofs of every safety property the runs check but
one, and two refinements (`AccountRegistry`, `MailDelivery`), both proved.

Left:

1. `AccountStore`: what overlapping commands keep, beyond passwords: an account gets no status that no
   command gave it.
2. `EmailRun`: a bound on copies for generic accounts, per run and not in all.

## 6. Not modelled

- Wording, names of tags and files, MIME type tables: no state depends on them. The
  collision helper of `fs-utils.ts` has no caller.
- Validation of emails and passwords: a refused input changes nothing.
- Error types and redaction of logs; type declarations of `interfaces/`.
- The Signal client's calls are steps of the modules that use them. Retries of one HTTP
  request inside `retryTransient` are part of a call that succeeds or fails, except in
  `PaperlessClient` and `EmailRun`, where a request that was carried out may be sent again.
- Which texts `core/auth-failure.ts` recognises: both outcomes are possible at every failure.
- The start of an email run: it reads the same configuration and users as `SignalService`
  does, without the checks, and a failed one is followed by the next of the timer.
- Temporary files: the file of an attachment that is passed over, the files of a fetch that failed,
  and every temporary directory stay, since no line of the code removes them; nothing else
  depends on them.
- Sizes and time-outs beyond "too large" and "the call failed"; the ports and hosts of
  accounts beyond their way through a load and a save.
- `docs/adr/0003-rate-limiting.md` speaks of a token bucket and `signal-pipeline.ts:233` of
  a fixed window; the model has the bucket's count and a refill by one, which covers both
  as far as its properties tell.
