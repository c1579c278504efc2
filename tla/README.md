# Verification of AVTO-LOGIST

These modules model the programs of AVTO-LOGIST that change state together:
the client's chat and the gateway that carries it, the orchestrator that answers
and quotes, the workers for mail, documents, cabinets and notices, the staff who
approve prices and letters from a web cabinet and a Telegram room, the voice
gateway, and the scripts that keep the mail archive. TLC checks the models on
small instances; TLAPS proves, for every instance, what matters most of them.

## 1. The system

| part | source | state | operations |
|---|---|---|---|
| orchestrator (Python, FastAPI) | `src/services/orchestrator/app.py` | none of its own; rows of Postgres | `/process` (one client turn), `apply-ops-hint`, `flush-rfq`, `api-quote-fallback`, `close`, `set-active` |
| agents | `src/services/agents/` | none | `run_freight_quote`, `run_ops_rfq`, `apply_lifecycle`, the GPT concierge, customs, finance, catalogues |
| common | `src/services/common/db.py`, `queues.py` | Postgres: `deals`, `escalations`, `messages`, `idempotency_keys`, `quotes` ...; Redis queues | `update_deal`, `create_escalation`, `idempotent_get/set`, RFQ preflight and flush |
| API (TypeScript, Fastify) | `src/apps/api/src/` | the same rows; files in S3 or on disk | deals, `approve-kp`, escalations, partners, attachments and folders, parsers, calls, the proxy of `/process` |
| tg-gateway | `src/apps/tg-gateway/src/` | BullMQ queues `orchestrate`, `outbound`, `channel`; Telegram sessions; claims in memory; the room's topics | event handlers, queue workers, catch-up, account loops, MTProto socket, management bot, staff room listener, topics, history ingest |
| workers-ts | `src/apps/workers-ts/src/` | BullMQ queues, IMAP mailbox, Google calendar, parser processes | RFQ letters, IMAP intake, triage, OCR, cabinets, notices, calendar, weekly catalogue update |
| voice-gateway | `src/apps/voice-gateway/src/` | sessions in memory, `call_sessions`, SIP dialogs | inbound calls, OpenAI Realtime, tools, hand-over, REGISTER, codecs |
| scripts | `src/scripts/` | the mail archive on disk, tables of clients and letters | dump, ingest, recalculation, purge |
| learning, web cabinet, shared helpers | `src/services/learning`, `src/apps/web`, `src/packages` | calibration tables | outcome of a closed deal; pages over the API; helpers |

**How they interact.** A Telegram message raises an event in tg-gateway, which
adds a job to the queue `orchestrate`; the job posts to the API, which proxies
to `/process`. The orchestrator records the message, lets the concierge decide,
writes the deal in several transactions, records its replies and returns them;
the job adds them to `outbound`, and another worker sends them. A quote asks
suppliers by letters (queue `email`), by cabinets, and by partners' APIs; their
answers come back through the mailbox. Staff act on the same deal row through the
API, by buttons and by plain words in their Telegram room, and are told of what
waits for them through the queue `channel`. Nothing locks a deal: **every handler
reads the row, works for seconds to minutes, and writes whole columns - the JSON
`metadata` above all - back from its copy.**

**What is hard here.** Lost updates between handlers; the order of "announce,
then hold", "send, then count", "flag as read, then work"; flags that several
paths set and clear for different reasons (`paused`, `escalate`, `kp_hold`,
`hold_rfq`, `silent`); retries of work that was already done; a crash between two
queues, two queries or two files; several listeners to one message; several ends
to one call; loops that must not stop and must not be doubled; codecs and framing
that are right only if every boundary is. `PROJECT.json` lists each hazard at its
line.

**What makes each part right.**

- *Deal desk*: an unapproved commercial proposal (KP) never becomes a contract
  by the client's consent; letters that wait for staff are sent once, after a
  decision, and do not get lost; staff are told about what waits for them.
- *Chat*: each message is taken up, through crashes; it gets an answer or the
  fallback text; what the client reads is on record; the answer leaves by the
  account the client wrote to; media reach the assistant as words.
- *Staff room*: a message that is heard is acted on once; a hold lasts until
  someone says to send; a closed deal is not reopened by a hint that did not mean
  it; topics have no twins, and their history no holes.
- *Suppliers and mail*: nobody is called silent for letters he did not get; every
  cabinet is followed up; the mailer keeps its limits; every incoming mail is
  settled once unless something breaks; requests are not taken for noise.
- *Documents, calendar, notices, parsers*: no hand loses a file it has seen; an
  event gets into the calendar; what runs out is announced; a run that blocks the
  button is in somebody's hands.
- *Voice*: a hand-over is on record; a call that is over is closed, its paid
  socket too; the robot does not hear itself and the line does not stay deaf; the
  number stays registered; sound survives its codecs.
- *Archive*: a report without errors means a whole copy; one client per address,
  one calculation per letter.

## 2. The modules

```
DealRow        the row, its escalations, the calls that work on it, create_escalation
  FreightQuote   run_freight_quote, the pilot hold, held RFQ letters
    ClientTurn     POST /process and apply_lifecycle
    StaffDesk      clicks, approve-kp, cut 3%, hints, flush, API-quote fallback
      DealDesk       composes ClientTurn and StaffDesk; Init, Next, properties;
                     implements KpLedger
        MCDealDesk     symmetry for TLC
        DealDesk_proofs -> DealSerial_proofs
ChatDelivery   event handler, queues, /process by key, outbound, crash, catch-up

MCLive         what owes something eventually, one part per behaviour
  MailIntake (implements MailLedger), StaffNotices, CalendarSync,
  VoiceCall, VoiceLine, FakeTls
MCSafe         what promises safety only, one part per behaviour
  SupplierDesk, CarrierCabinets, MailSender, MailTriage, DealFiles, InboundMedia,
  StaffPeer, StaffRoom, StaffTopics, TopicHistory, MailDump, ClientArchive,
  ParserRuns, ChatAccounts, SipRegistrar, G711, AudioStream

MailIntake_proofs  MailIntake, MailTriage, MailSender
Partners_proofs    CarrierCabinets, SupplierDesk
Queues_proofs      ParserRuns, ChatDelivery, DealFiles, StaffNotices, CalendarSync
Gateway_proofs     ChatAccounts, StaffTopics, StaffPeer, StaffRoom, InboundMedia, TopicHistory
Voice_proofs       VoiceLine, SipRegistrar, VoiceCall, AudioStream, G711
Archive_proofs     MailDump, ClientArchive
```

The components under `MCLive` and `MCSafe` meet in the deal's row, in queues and
in tables that another module has as an environment action; they share no variable.
So each is a specification of its own (`MailSpec`, `PeerSpec`, ...), and the two MC
modules put them side by side in one run: the variable `part`, chosen in the
initial state, says which one moves, and the others stay in one initial state. A
behaviour of the run is a behaviour of one component. Their fairness is repeated
in `MCLive` for the moving part.

### Deal desk

A *call* is one invocation of a handler. `calls[c]` holds where it stands (`pc`)
and its copy of the row (`row`); each action is one transaction (or one read) of
the code, so everything another handler can do between two transactions can
happen between two actions. `UpdateThen` is `update_deal(...) RETURNING *`: the
columns named are written, the others keep what the database has, and the result
becomes the call's copy. Where the code writes `{**(deal.metadata), ...}`, the
action writes `Row(c).meta`, the copy.

| in the model | in the code |
|---|---|
| `deal.status`, `previous`, `escalate`, `paused`, `takeover` | the columns of `deals` |
| `deal.offer` | which KP `offer.price` belongs to (`None`: no price) |
| `deal.quotesPending` | `offer.quotes_pending` |
| `deal.meta.kp`, `pending` | `metadata.kp_hold`, `pending_kp_messages` |
| `deal.meta.batch`, `rfq` | `metadata.rfq_preflight`: which letters, and its `status` |
| `deal.meta.attempted` | `rfq_attempted` or a non-empty list of mail jobs |
| `deal.meta.mode` | `manager_gate`/`require_manager_approve` ("gate"), `hold_rfq`/`consult_manager`, which staff set together ("hold"), neither ("open") |
| `rows` | the deal's `escalations`: reason, decision, and which KP or batch it is about (its `numbers`/preview) |
| `Tags` | a KP or a batch of letters, named by the call and the quote that made it |

`released`, `shown`, `accepted`, `mailings` and `swallowed` are history: which KP
staff let out, whose price the client saw, with which the client's consent made a
contract, which batch was mailed by which flush, and which errors a quote caught
and went on from: `_store_rfq_preflight` catches the failure of its escalation
(`queues.py:517`), `run_freight_quote` that of the reload (`quote_pipeline.py:446-451`),
and then goes on with the copy it has (`Swallow`).

`KpLedger` is what the pilot hold promises of prices: one price stands or none; a
new one may replace it at any time; the price that stands is put on hold as it is;
a hold ends only together with letting that price out; the client agrees only to
the standing price, off hold and let out. `DealDesk` implements it
(`KeepsKpLedger`) with the row's `offer` as the standing price, `kp_hold` as the
hold, `released` and `accepted`, when handlers run one by one: no write of an old
`metadata` then loses a hold.

Freely chosen: what the client means (`Intents`), the concierge's stage
(`GptStages`), whether cargo needs customs, whether a supplier rate came,
whether a review of the price is due, and `_require_human_kp_approve`'s answer
(`HumanKp`, constant `TRUE` in the pilot's configuration). The reasons of
escalations that only ask a person to look are one value, "review".

The initial row is a fresh deal, open or gated: a card is gated before the first
quote by a metadata PATCH or by the hint that opened it.

Details the reader may look for: `create_escalation` and the duplicate check are
one transaction; with another handler in flight its SELECT may miss a row that
commits later, which `NewEscalation` allows. `app.py:622-631` (an escalation the
quote asked for without a payload) cannot be reached: neither `run_freight_quote`
nor `run_ops_rfq` returns `escalate` without a payload. A turn on a closed deal
is possible (`/process` with `deal_id`, as the mail worker calls it).

### Chat delivery

| in the model | in the code |
|---|---|
| `sent`, `read` | messages of one private chat, Telegram's read mark |
| `boot` | what the gateway's start does: connect, latest unread, mark read, open deals, messages since, resume |
| `handler[m]` | `handleInboundMessage` between the rate limit, the look-up and `Queue.add` |
| `jobs[k]` | the job with id `k` of `orchestrate`; a key is "in" + message, or "resume" + message + hour |
| `runs[k][n]` | the run of `_process_inner` that attempt `n` of job `k` started; it goes on when nobody waits for it |
| `cached`, `recorded`, `last`, `answers` | `idempotency_keys`, inbound rows, the newest row, the runs whose replies were recorded |
| `out[p]` | the job of `outbound` that carries the replies of one run, or the fallback text |

An answer is one job although the code adds one per reply; BullMQ and Telegram
are modelled from how the gateway uses them (job ids, `attempts: 3`, default
`maxStalledCount` 1, the unread count). Job ids are kept for the run's length
(`removeOnComplete: 1000`). Redis does not fail. The faults (`Faults`) are
spelled out at the head of the module; each needs a unit of `MaxFaults`. Two of them
end a job in silence: the API turns its request away without fallback replies
(`TurnAway`: 429, 401 or 500, which `index.ts:520-526` only logs), and a run comes to
its end with no reply left to send (`RunMute`: `_strip_invented_prices` may drop them
all).

### Mail, suppliers, carriers

| module | in the code | state and actions |
|---|---|---|
| `SupplierDesk` | `partners.ts`, the `email` worker, `supplierQuality.ts` | one supplier's rows (`silent`, `silent_note`, `no_reply_streak`, `left_market` ...), the RFQ jobs; ask, send, count, fail and retry, answer, the daily automatic silence, the director's buttons |
| `CarrierCabinets` | `cabinet.ts`, `reprocess.ts`, `api-quote-fallback` | per job: task for the operator, browser login, the two URLs asked in turn; per URL the quote run, which ends at once on a price, a live API quote (`apiQuotes`) or a fresh mark, and whose mark's write may fail unheard. `quoted` is history: the deal had a price or such a quote, or a run came to its end |
| `MailSender` | `email.ts` 18-282, 527-562 | the minute's list, the cached token, four ways to the server; the clock ticks between any two steps |
| `MailTriage` | `mailRules.ts`, `email.ts` 565-648, the intake's branches | a letter as sender, headers, kinds of words, a deal's Ref, a price; the rules in their order, GPT's word, what is done |
| `MailIntake` | `syncInboundMail`, `imap_sync` | per sync: the list, what it has fetched, the mail at hand; flags, keys, quotes, concierge, answers; a mail has a Message-ID, or none, or no source (`mailForm`) |
| `MailLedger` | what intake promises | per mail: away, new, taken, settled, lost |
| `DealFiles` | `attachments.ts`, `storage.ts`, `ocr.ts`, `folders.ts` | the array as the row has it and as the OCR job, the folder button and a turn hold copies of it |

`MailIntake` implements `MailLedger` under `status[m] = StatusOf(m)`: a mail whose
work came to its end is settled; one some sync holds is taken; an unread one is new;
a read one that nobody holds and that is not settled is lost. So `KeepsLedger` says
that only a step that throws, or a worker that dies, loses a mail, and that what is
settled stays so. The price of the order "flag, then work" is in `MailLedger!Break`.

`settled` is where `markEmailSeen` was called; it stores a key only for a mail with a
Message-ID (`index.ts:78-79`), and only such a mail is looked up (388). `mailKeys` are
those of `settled` that have one: a mail without may be worked on, stored and answered
again when its flag failed. A fetch that brings no source is passed over unflagged
(`email.ts:780`), at every poll. Two mails with one Message-ID, and the newest thirty
that one sync takes of a longer list, are not modelled.

### Staff

| module | in the code | state and actions |
|---|---|---|
| `StaffRoom` | `staffListen.ts`, the bot's handler, `userClient.ts`, `staffHistoryIngest.ts` | two ears per message, the claims by id and by text, the history ingest; a voice the account cannot download; claims forgotten by the clock (`lapsed`); stops lose the memory, Telegram repeats the bot's updates |
| `StaffPeer` | `staffPeer.ts`, `staffPeerGpt.ts`, `managementBot.ts` 127-747, `apply-ops-hint` | a message is its telling words; hold, send, scheme; which deals it is aimed at and how it came to them (`how`: named, found by GPT's query, picked); read, merge, write, post for each |
| `StaffTopics` | `staffTopics.ts`, `staffForumBootstrap.ts` | three callers, one shared promise, the titles in the room, ids in memory |
| `TopicHistory` | `staffHistoryIngest.ts` 83-208 | a room of ids, pages by offset, the fallback to the whole chat, failing requests |
| `StaffNotices` | `workers-ts/index.ts`, `channel.ts` | jobs by id, attempts, stalls, posting to one or two places |
| `CalendarSync` | `calendar.ts`, `create_calendar_event` | rows by due date, the list of one sync, entries at Google and those whose id was lost |

The query that GPT may give goes to `/deals?q=`, which filters no status, and a single
hit is the deal (`managementBot.ts:140-146`): `Located` may be closed. Claims of
messages are forgotten 180 s after they were made, whether or not the bot, whose
updates wait for one another behind GPT, has heard its own (`ForgetMessage`).

### Gateway, voice, scripts

| module | in the code | state and actions |
|---|---|---|
| `ChatAccounts` | `startAccountLoop`, `userClient.ts`, `tgAccounts.ts` | a loop per account, `process.env.TG_STRING_SESSION`, live clients, senders, the router; a KP that staff release is queued without an account (`Released`), which accounts a chat has met since the start is history (`met`) |
| `FakeTls` | `mtprotoFakeTls.ts` | bytes that came, the stream, `rawHold`, the promise a reader waits on |
| `InboundMedia` | `media.ts` and its three callers | a parcel, what fails on its way, what words come out |
| `VoiceCall` | `sessions.ts`, `sip/calls.ts`, `transfer.ts`, `tools.ts` | the INVITE handler's step, dialog, socket, timers, the ends under way, the row |
| `VoiceLine` | `bridge.ts`, `sip/calls.ts` | response in flight, mute, guard timer, playout buffer, tools; a `response.create` answered by an `error` event (`Refused`) |
| `SipRegistrar` | `register.ts` | one timer, the request on its way, `stop()` |
| `G711`, `AudioStream` | `audio.ts` | both codecs on all 65,536 samples, frame by frame; the decimator's ring and phase, the upsampler's history |
| `MailDump` | `mail-archive-dump.ts` | folder, slice, attempt, `--limit`; two files per name, the name being the hash of a letter's Message-ID, so that letters may share one (`fileName`); a write that fails or is killed may leave a torn file; the report |
| `ClientArchive` | `mail-archive-ingest.ts`, `...-purge-newsletters.ts` | rows of letters, clients, identities, calculations; runs that stop after any query |
| `ParserRuns` | `parsers.ts`, digest worker, `associationsParser.ts`, `run_association_update.py` | the run's row, the API's request, the queue, the worker, the processes |

## 3. The runs

All configurations turn deadlock checking off, because clients, staff, letters,
calls and faults are bounded: when the budget is used up the system stops, as it
does when nobody writes.

| run | question | bounds |
|---|---|---|
| `desk_serial` | handlers run one by one: is the ledger of prices kept, consent with it; is a batch mailed once, is a waiting batch kept? | 3 calls, 1 in flight, 2 clicks; turns, hints, approve-kp, resume, decide |
| `desk_faults` | does a flag for staff always have a cause, and a held KP an announcement, when handlers die between transactions and quotes swallow errors? | 2 calls, 1 in flight, deaths, all inputs, 1 click |
| `chat_up` | is every message answered, and is the answer on record, without a crash? | 1 message, 3 faults of any kind, 2 attempts |
| `chat_restart` | does the catch-up take up the latest message, wherever a crash left it? | 1 message, 1 crash, 2 hours |
| `live` | is what is owed delivered: mail, notices, events, calls, the line, the socket? | table below |
| `safe` | do the other components keep what they promise? | table below |
| `desk_approve`, `desk_price`, `desk_preview`, `chat_process`, `chat_resume`, `staff_dont` | what a document, a comment or the code's own word lists say and the code does not do | the smallest that show it |

| part | bounds | why enough |
|---|---|---|
| mail | 1 mail of any form, 2 syncs, 2 mishaps | two syncs over one mail is the overlap; storing a price twice needs two mishaps. Several mails at once are covered by the theorems |
| notices | 2 quotes, 1 alert, 2 attempts, 1 trouble | one check stops between two quotes; an alert goes to two places. No digest here: it differs from an alert by its id |
| calendar | 2 events, lists of 1, 1 failure | a list that is full while another event waits |
| call | 1 call, 1 trouble, 1 click from outside | calls share no state but the map of sessions, keyed by call |
| line | preroll 2, 3 pieces, 2 tools, 2 turns | a response below, at and above the preroll; a tool in it and one after it |
| tls | header 2, 2 records of 0-2 bytes, reads of 2 | every cut of every wire, records of both kinds |
| supplier | 2 RFQs, 2 attempts, streak 2, 2 troubles, 1 click | the streak that silences, with one letter retried |
| cabinets | 1 cabinet and the delayed job, 2 tries, 2 troubles | two jobs are what the worker runs at a time |
| files | 2 files, 2 OCR attempts, 1 trouble, 1 rewriting hand | two OCR jobs, or one and a hand, over one array |
| mailer | 2 senders, 1 letter per window of 2 ticks, token 3 ticks, 5 ticks | a window slides past a letter and a token runs out between two ways |
| triage | 7 of 10 kinds of words, 1 of 3 headers | words that the same rules read alike are one here; all of them were checked apart |
| media | 2 speech models | the models are tried in the same loop |
| peer | 2 deals, 2 messages, hold / send / scheme for both, 1 closing | a hold between another hint's read and write |
| room | 2 messages, 2 texts, 1 stop, 1 sync | `RoomBound`: a stop or a sync with one message in the room |
| topics | 2 kinds, 1 stop, 2 troubles | a list that fails and an answer that is lost |
| history | 5 messages of 4 sorts, limit 3, pages of 2, 2 failures | a page boundary inside, at and beyond the limit |
| dump | 1 folder of 2 letters in slices of 1, 2 file names given to them in every way, any `--limit`, 4 troubles, 2 runs | 4 failed attempts give a folder or a slice up; the second run meets what the first left, and a letter whose name is taken |
| archive | 2 letters, 1 address, 1 telephone, 3 runs, 1 trouble | a run that stops, a second, and a recalculation |
| parsers | 2 tabs, 2 runs, 1 week, 1 switch, 2 troubles | two pages click at once while the week comes due |
| accounts | 2 accounts, 1 chat, 2 routes, 2 writes, 1 trouble, 1 restart | two loops over one `process.env`; a chat that moves |
| sip | 2 user names | first, next and last name |
| codec | all samples, frames of 256 | exhaustive |
| audio | 4 taps, 9 samples, deltas up to 5 | each phase of the decimator at each place of the ring |

The state and the inputs are chosen so that the rare case happens: a violation of
consent needs a quote, something that clears a flag, and a consent: three calls.
A batch mailed twice needs a turn that stores it and two flushes. A flag without a
cause needs one quote that dies at the wrong place and another handler to write
over it. In `chat_restart` one crash falls in any state of one message, and two
hours let the resume key change and the idempotency key expire. Handlers that
overlap are not in a run: their one property that holds is a theorem (section 5).
Between them the passing runs fire every action. Symmetry permutes `Calls` of the
desk only: no action compares or orders them, and it is used with invariants and
step properties, never with liveness.

What the properties say, beyond the comment over each:

- `KeepsKpLedger`: the pilot hold as a whole. It implies `AcceptedWasReleased`
  (theorem `LedgerGuardsConsent`), what `apply_lifecycle`'s guard on `escalate`,
  `paused` and `kp_hold` is for: the guard needs all three, since a resume clears
  `paused` and a decision clears `escalate` while `kp_hold` stays. It says besides
  that no write of an old copy ends a hold. It is claimed for handlers that run one
  by one; between the transaction that stores a price (`quote_pipeline.py:807`) and
  the one that holds it (`:930`) an overlapping turn can accept it, and a handler
  that dies there leaves it acceptable.
- `MailedOnce`, `PendingBatchKept`: `flush_rfq_preflight` checks the batch's
  status, and the reload in `run_freight_quote` keeps a batch from being wiped. A
  reload that fails is swallowed and does wipe it: the second property is claimed of
  quotes that swallow no error.
- `FlagHasCause`, `HeldKpAnnounced`: `escalate` means there is an escalation, or
  a batch whose escalation failed after it was stored, for handlers run one by one
  that may die; it takes a quote that swallowed both that failure and the reload's
  (`Unheard`) to leave a flag alone. A hold means an announcement.
- `AnswerIsOnRecord`, `MessageAnswered`, `LatestTakenUp`: replies reach the queue
  after the orchestrator wrote them; a message past the rate limit ends in an
  answer or the fallback unless its job used up its attempts, a response was
  lost after the run began (the retry reads `cached` and sends nothing), the API
  turned its request away, or the run had nothing to say.
- `StreakIsOwed`, `StaffSilenceKept`: the count of unanswered letters never
  exceeds the letters owed an answer, and the director's silence is his.
- `CabinetIsFollowedUp`: a job that ended left a task, unless cabinets are off; and
  by then the deal had a price or a live API quote, or a run over the APIs came to
  its end, unless both of the job's own requests failed.
- `SendingKeepsLimits`: no more than the limit in any window; a token that was
  refused as expired had been good for a minute when it was taken.
- `MailIsSorted`, `WordsGetThrough`: a request that the rules score as one is
  heard and no bulk letter works on a deal; words survive failing models. The
  exceptions the code makes are premises of the formula, by name.
- `QuoteStoredOnce`, `AnswerIsFinal`, `MailDealtWith`, `KeepsLedger`: above. A price
  is stored twice after two mishaps, or after one if its mail has no Message-ID; the
  answer to such a mail is not final; a mail without a source is never dealt with.
- `OnlyRacesLoseFiles`: the array loses an entry only if it was written while
  another hand held a copy; the races themselves are the code's (`ocr.ts:345`).
- `RoomActsOnce`, `HoldNeedsWord`, `ClosedIsNotRevived`, `TwinsAreBlind`,
  `HistoryHasNoHole`: the staff room, over two ears, stops and failing requests. A
  message whose claim was forgotten before an ear was done with it may be acted on
  twice, and a voice of which no ear had words comes to nothing. A closed deal comes
  back by a click on a deal that was named or found by a query, by a hint applied to
  such a deal, or because it was closed after a hint had picked it open.
- `RunOutIsTold`, `EventGetsThere`: with the ways the code gives up as exceptions
  (a trouble; a week past; a list filled by rows that never get there).
- `HandedOverIsRecorded`, `CallsAreClosed`, `ListenOnlyWhenQuiet`, `LineListens`,
  `OneRegisterLoop`, `LevelIsKept`, `DeltasJoin`: voice. `LineListens` excepts a
  response that ends unspoken (no audio, or less than the preroll) and one that the
  API refused with an `error` event (`bridge.ts:354-377`), after which the code leaves
  the line deaf. `HandedOverIsRecorded` excepts calls that were cut (the limit or the
  goodbye hung up, the API closed the socket before the hand-over was asked for, the
  row was ended over HTTP) and a take-over before the INVITE's handler was through;
  `CallsAreClosed` a dead gateway, such a take-over, and a socket that was closed
  while it was being opened and opens all the same. `LevelIsKept` speaks of a sample's
  side of zero and loudness through this code's own coder and decoder: not of very
  small samples, nor of whether its bytes are the standard's.
- `AnsweredByItsAccount`, `WireIsRead`: the gateway's accounts and its socket. The
  first claims nothing of deals resumed at the start, and of a KP that staff released
  only that it leaves by an account the chat has met since the restart, if any.
- `CleanReportIsWhole`, `ArchiveIsSound`, `ActiveIsCarried`: the scripts and the
  parsers. A clean report speaks of the letters the run was asked for, and of one of
  two that share a Message-ID. `unsaid` and `stranded` name the losses the code does
  not count: of the dump a folder given up, a search without a list, a folder that is
  not open on a new connection, and a `.json` torn in an earlier run, which is taken
  for saved.

**Fairness.** Weak fairness of loops of live processes over work they are given,
and of nothing else: in `ChatDelivery` the startup sequence, the event handlers,
the orchestrate worker, the orchestrator's runs, the outbound worker; in `live`
the steps of a sync that runs (`SyncStep`), the posting of a notice and the
minute's expiry check, the minute's calendar sync, the INVITE handler, its limit
timer, an answered REFER, an `endCall` under way, the API's stream, a tool that
returns, the playout, the guard timer, the socket's reader and the bytes that are
on their way. Clients, staff, faults, crashes and restarts have none. The runs of
the desk and of `safe` need none.

## 4. What the violated runs show

| run | words | what happens |
|---|---|---|
| `desk_approve` | `EscalationsPage.tsx:43`: Approve returns the deal to work | approving a held KP's escalation leaves `paused` and `kp_hold` |
| `desk_price` | `quote_pipeline.py:912`: no price to the client until staff approve | the lifecycle's reminder reads neither `paused` nor `kp_hold` |
| `desk_preview` | `queues.py:508`: check this list, approve to send it | a later batch replaces it, the pending escalation keeps the first preview |
| `chat_process` | `ARCHITECTURE.md:97`: idempotency on `/process` | the key is stored at the end only; overlapping runs both answer |
| `chat_resume` | `resumeOpenDeals.ts:31`: deals where the client spoke last are re-processed | a result cached before the crash silences both the retry and the resume |
| `staff_dont` | `staffPeer.ts:245`: «не отправляй» holds the RFQ | the pattern for "send" (247, 256, 598) matches inside it, so the hold is dropped and the RFQ goes out |

## 5. The proofs

`DealDesk_proofs` proves, from `DealAssumption` alone (no bound on the number of
calls, on how many are in flight, on clicks; crashes allowed or not; any set of
inputs, stages and approval policies):

- `TypeCorrect == Spec => []TypeOK`. `TypeOK` is inductive. One lemma per step;
  the lemmas `FinishType`, `GotoType`, `ReturnType`, `EscalationType` carry what
  the steps have in common.
- `HeldKpAlwaysAnnounced == Spec => []HeldKpAnnounced`. The property is not
  inductive: a call may write an old copy of the metadata back, so it matters
  what the *copies* hold. The strengthening is `HeldInv == Told \/ NothingHeld`:
  either some escalation `human_kp_approve` exists (rows are never deleted), or
  neither the row, nor any call's copy, nor any posted metadata body carries
  withheld messages, and no call stands between its announcement and its hold.
  Once `Told`, always told (`ToldStays`); until then every write writes a clean
  copy (`GotoClean`, `FinishClean`, `ClickHeld`), and the only step that makes a
  copy unclean, `KpHold`, comes after `KpEscalate`.

`DealSerial_proofs` adds one assumption, `OneByOne`:
finitely many calls, `MaxInFlight = 1`, `~MayFail`. It is what `desk_serial`
checks, and the code does not ensure it (the hazards at `quote_pipeline.py` and
`app.py` in `PROJECT.json` say what happens without it); calls, clicks, inputs,
stages and approval policies stay arbitrary, and clicks still fall between any
two transactions of a call.

- `ConsentNeedsRelease == Spec => []AcceptedWasReleased` and
  `WaitingBatchStays == Spec => PendingBatchKept`. The strengthening, `SerialInv`,
  says that the running call is `Alone`; that its copy is `Synced` with the row in
  what the properties read (the price, `kp_hold`, and a batch that waits), but
  where the code has not read the row yet (`NoCopy`) or has just stored a batch
  behind its copy's back (`OldBatch`: between `_store_rfq_preflight` and the
  reload, the only place where a write of the copy would lose the batch); and that
  a price is released, withdrawn, on hold, or about to be put on hold
  (`KpCovered`). Then `apply_lifecycle`'s guard on the copy speaks of the row.
- `DeskKeepsKpLedger == Spec => KeepsKpLedger` (and `LedgerGuardsConsent`, that a
  ledger so kept implies `AcceptedWasReleased`): the desk implements `KpLedger`
  (section 2). Beside `SerialInv` it needs `KpStands`, that the price a call is
  about to put on hold is the one that stands. For every step the proof names the
  step of the ledger it is: `PublishOffer` and `CutPatch` quote, `WithdrawOffer`
  withdraws, `KpHold` holds, the approval of a row lets a price out, `ReleaseKp`
  lifts the hold, `AcceptOffer` agrees; all others, the writes of old metadata
  above all, leave it alone (`Untouched`), because copies are `Synced`.
- `LettersGoOnce == Spec => []MailedOnce`. `LettersInv` follows a batch through
  every place that carries it as pending - the row, copies, the metadata a hint is
  to post: it was made by a call that began, and is not mailed yet, but for a
  flush between mailing and marking (`CarriedIsFresh`); a mailed batch belongs to
  a call that makes none any more (`MailedIsOld`). A write of an old copy may make
  a rejected batch pending again; it cannot make a mailed one so.

- `FlagsHaveCause == Spec => []FlagHasCause` assumes only `OneAtATime`: handlers may
  die between any two transactions. `CauseInv`: once there is an escalation there
  always is (`RowsStay`); before the first one only a waiting batch raises the flag,
  the running call `Knows` of that batch wherever it writes its copy or a hint's
  metadata back, and no call stands before the hold of a KP. The one copy without
  the batch is that of a quote before its reload whose escalation failed (`MayWipe`,
  `Untold`); if the reload fails as well, that quote is `Unheard`. With handlers
  overlapping it does not hold: an old copy wipes the batch and leaves the flag.

The other components' theorems have no assumption but the one on their constants.

- `MailIntake_proofs`: `AnswersAreFinal == MailSpec => []AnswerIsFinal` and the
  refinement `IntakeKeepsLedger == MailSpec => KeepsLedger`. `MailInv` says that a
  sync works on a mail it holds, that what is held or settled has arrived, and that
  past `MarkKey` the mail at hand is settled; the refinement has one case per step:
  fetching and flagging are `Arrive`, `TakeIn` or a stutter, `MarkKey` is `Settle`,
  and a throw or a death is one `Break` for all the mails it drops
  (`LedgerBreaks`). It covers any number of mails and of overlapping syncs.
  `QuotesAreStoredOnce == MailSpec => []QuoteStoredOnce` by `OnceInv`: while syncs
  have not overlapped one of them at most is at work (`OnlyWorker`), and a price
  whose mail is not settled is either in its hands or was dropped by a mishap, after
  which the mail is read and is not fetched again, or a second mishap has occurred
  (`NamedPrice`); a mail without a Message-ID is never looked up, so one mishap, which
  leaves it unread, is enough (`OtherPrice`).
- `Partners_proofs`: `CabinetsAreFollowedUp`. `JobOK` ties the requests a
  job has missed to the address it stands at, and its task to the steps it has
  passed; a price, a live API quote, a mark and a run that is over, its mark written or
  not, are of a deal that was `quoted`. `StreaksAreOwed`: the count
  and the letters sent but not counted together never exceed what is owed, because
  a letter is counted once (`StreakInv`). `StaffSilenceIsKept` is an action
  property that needs the types only.
- `Voice_proofs`: `ListensOnlyWhenQuiet` by `LineInv` (an open microphone excludes
  a filled buffer through `idle`; a generated response is in flight);
  `RegistersInOneLoop` by `SipInv` (the unregistering request exists only after
  `stop()`); and `HandOversAreRecorded` by `CallOK`, one invariant per call and its
  row: who sent a REFER, which ends of the row can have been asked for, and that an
  accepted REFER has "transferred" written or under way. Every step but those of
  the process touches one call (`CallStep`).
- `Gateway_proofs`: `AnswersGoByTheirAccount` (a loop past its start works with
  its own session, because it takes it from the environment in the same step that
  set it; and the account the router keeps for a chat is one the chat has met, `MetInv`); `TwinsAreMadeBlindly` (one caller at a time holds the promise, and
  what it is about to make and did not find listed is not in the room); and, by
  `PeerInv`, `ClosedStaysClosed` (an action property: of the steps that write a deal only a
  click and a hint's write can open one, and a list that was picked has no deal of
  `shut`, the deals closed when it was picked) and
  `HoldsAreKept` (a row that was bound to a hold has the hold in every copy a
  message reads, so what the message wants to send was asked for).
- `Queues_proofs`: `ActiveRunsAreCarried`. The invariant says who may hold a
  run: a request between insert and enqueue, a job, the worker, at most one process
  of its own. `AnswersAreOnRecord == Spec => []AnswerIsOnRecord` of `ChatDelivery` by
  `ChatInv`: a run past a step of `_process_inner` has done it, and an unfinished job
  has attempts left, so that the run a reply is taken from is one that was started.

The proofs of the rest:

- `OnlyRacesLose == FilesSpec => []OnlyRacesLoseFiles` (`Queues_proofs`). `FilesInv`:
  a copy of the array, whoever holds it, lists only files whose bytes are stored, and
  on the files nobody raced for it agrees with the row; so the write that replaces
  the array can lose only a file whose entry was written while the copy was held.
- `RoomActsOnceAlways == RoomSpec => []RoomActsOnce` (`Gateway_proofs`). `RoomInv`: a
  message whose claim stands is settled, one acted on in this life of the gateway is
  claimed, or out of both ears' hands, or its claim has `lapsed`, and one an ear caught
  words of is settled unless the bot's ear still has it. TLC's bound on the
  room (`RoomBound`) is not assumed.
- `WordsAreHeard == MediaSpec => []WordsGetThrough` (`Gateway_proofs`). `MediaInv`:
  what is being read came whole, and no model asked so far had understood the voice.
- `HistoryIsWhole == HistorySpec => []HistoryHasNoHole` (`Gateway_proofs`).
  `HistoryInv`: what has been collected falls strictly, is `Complete` down to the
  last page's oldest message and down to the next page's offset, and nothing
  collected is older than that offset. It rests on what a page, written newest
  first, and the final sort are (`PageIs`, `SortedIs`).
- `LettersAreSorted == TriageSpec => []MailIsSorted` (`MailIntake_proofs`).
  `TriageInv`: a letter is noise for one of the rules, its score or GPT's word, and a
  client's only with a score, and past the rules that come first.
- `LimitsAreKept == SenderSpec => []SendingKeepsLimits` (`MailIntake_proofs`).
  `SenderInv`: the list is the tail of the letters ever admitted, those shifted off
  are out of the window and the list never exceeds the limit, so two admissions as
  far apart as the limit are a window apart; and a letter on its ways holds a token
  that was good for a margin when it was taken.
- `DeltasAlwaysJoin == AudioSpec => []DeltasJoin` (`Voice_proofs`). `AudioInv` gives
  the whole state of each filter (ring, place, phase, history, what it put out) as a
  function of the number of samples heard; one sample keeps it (`OneSampleDown`,
  `OneSampleUp`), so a delta of any length does (`DownRuns`, `UpRuns`).
- `LevelIsAlwaysKept == CodecSpec => []LevelIsKept` (`Voice_proofs`). TLC computes it
  for all 65,536 samples; the proof says why. A magnitude `Holds` in one segment;
  what is decoded is the middle of its step, at most half a step away, in the same
  segment and step (`MiddleIs`, `CodedAgain`), and the bits are apart (`BitsOf`).
- `CleanReportsAreWhole == DumpSpec => []CleanReportIsWhole` and
  `ArchiveStaysSound == ArchiveSpec => []ArchiveIsSound` (`Archive_proofs`). `DumpInv`:
  a run with nothing to report yet has saved every folder, slice and letter it is
  past, from the first that `--limit` leaves; and `FilesInv`, of the two files of each
  name, that a `.json` is written only beside its own letter's `.eml`, so that a name
  with both files whole holds one letter. A letter once written stays so, or another
  of its name does (`FileWritten`). `ArchiveInv`: the letter at hand has no row before it is written, a row has no
  calculation before one is written, and a client that is named exists.

What the liveness properties need of every state. That something eventually happens
cannot be proved here, but what it rests on can: that the system never comes to rest
with the work undone. These theorems write out when no action has anything
to do that the specification's fairness drives (`ChatQuiet`, `NoticesAtRest`,
`LineAtRest`, `CallAtRest`, the hypothesis of `WireAtRest`), as the negation of the
guards, since `ENABLED` is out of reach; TLC confirmed on small instances that
the formulas and the negated `ENABLED` agree. What remains of the liveness property
is that the fair actions run out, and that is TLC's.

- `NothingIsLeftLying == Spec => []QuietIsSettled` (`Queues_proofs`, for
  `MessageAnswered` of `ChatDelivery`). `OwedInv`: a job in a worker's hands has a
  run, no run is ahead of its job, and a job that is done has a reply in the outbound
  queue, or lost its response, or stalled, or was turned away, or its run had nothing
  to say. So at rest every queued message was answered or given up in one of these ways.
- `ReadOnlyWhatWasTaken == Spec => []ReadIsTakenUp` (for `LatestTakenUp`): what the
  catch-up has marked read, so that no later start looks at it, is on record or in
  the queue, wherever starts were cut short, or came to nothing in one of the ways the formula
  lists: the API turned its request away, for one. `TakeInv` follows the message the start
  has in hand: it is taken up before the mark.
- `NoticesAreNotForgotten == NoticesSpec => []ToldAtRest` (for `RunOutIsTold`), by
  `NoticesInv`: a notice past the staff's post is told, and one that failed has used
  its attempts or stalled twice.
- `CalendarFollowsRows == CalendarSpec => []EntriesFollowRows` is what a single state
  can say beside `EventGetsThere` (a sync is never at rest, one starts every minute).
  `CalendarInv`: the rows that wait in a sync are as they were read, unless they were
  marked done since, and each is listed once, so an id is stored on the row that was
  posted; an entry being stored is one nobody knows of yet. Without the failures no
  event would have two entries, or one that outlives its cancelling. No run has
  this property; TLC checked it on three events, lists of two and two troubles.
- `ListensWhenNothingIsLeft == LineSpec => [](DeafHasReason /\ ListensAtRest)`
  (`Voice_proofs`, for `LineListens`). `DeafInv`: while the line is deaf a response is
  on its way, or audio, or the echo timer is set by whoever found the line free last;
  the reasons that do not pass are a response that ended `Unspoken` and one the API
  `Refused`.
- `CallsAtRestAreClosed == CallSpec => []ClosedAtRest` (for `CallsAreClosed`).
  `CallCloses`: a call that is up has the limit armed or is closed, and one that gave
  up has its row to close and then its socket. Excepted, as in the property, are a dead
  gateway, a take-over before the handler was through, and the leaked socket.
- `WireComesWhole == TlsSpec => [](ComesInOrder /\ WireAtRest)` (`Gateway_proofs`, for
  `WireIsRead` of `FakeTls`), for records of any size and any cutting into chunks.
  `TlsInv`: in the handshake the part read and the stream are the wire, on from the
  record being read (`Shaking`); after it the wire is cut where a record ends: what
  was taken and the stream are the payload before the cut, and the hold is what came
  behind it, with no end of a record in it (`Reading`); and a reader that is not woken
  leaves nothing in the stream (`Attentive`). It rests on the payload of two pieces
  being the two payloads (`PayloadConcat`), on what `ingestAppRecords` takes out of the
  hold (`WholeIs`, `IngestIs`), and on the wire ending where a record does
  (`WiresFramed`).

Some of these compute with loops (`while ... shift()`, `sort`, `for` over a delta or
over the records of a chunk). The models write them as a `CHOOSE` of the loop's result
or as a recursive function, and the proofs take the induction over data from one lemma,
`Least` (`LeastOf` in `Gateway_proofs`): a nonempty set of naturals has a least element.
The least counterexample then is not one (`GoneIs`, `Falling`, `DownRuns`,
`PayloadRuns`, `RecordsFrame`).

Only model-checked: liveness under fairness, and anything with `ENABLED`
(`MessageAnswered`, `LatestTakenUp` and the temporal properties of `live`), which are
out of the prover's reach - of six of them the theorems above prove what concerns
single states, of `EventGetsThere` that the entries follow the rows, and
`MailDealtWith` has the refinement of `MailLedger` beside it; and `SafeTypeOK`, the types of all parts of `MCSafe` together:
the types a theorem needs are conjuncts of its component's invariant, and proved
with it.

## 6. Not modelled

- Amounts, margins, duties, currencies, texts of replies and letters: a KP and a
  batch are identities. So the 3% cut that leaves old KP messages behind
  (`managementBot.ts:728`) is modelled as a write, not as what the client reads.
- The concierge's GPT call and the agents' arithmetic: free choices of stage and
  intent, of whether a rate came, of whether a review is due.
- Which deal of a chat is active, splitting a turn off into a new order, merging
  clients.
- Learning, calibration and the GPT budget: counters by read-modify-write that
  decide nothing the models have. Authentication, staff accounts, analytics and
  the licence: one transaction or one check each.
- The cabinet's pages, `mail-organize.ts` (a one-pass sorting of folders),
  data imports.
- Cryptography of the MTProto proxy, the SIP library's transactions, RTP pacing,
  filter weights, page layouts of carriers' cabinets.
- Database failures inside a transaction (it has no effect then) and Redis
  failures (then the gateway processes the message directly).
- Small ways of the code: the caught error of the hold branch's metadata write
  (`quote_pipeline.py`, within `MailRfq`), the `resume_status` a caller may give with
  an approval, an odd last byte in `base64ToPcm16`.
- Limits of the models that are not the code's: a cabinet job asks an address
  again only when its run there is over; nothing in the repository sets
  `calendar_events.done`, so `EventIsDone` is an action of the environment.

## 7. What could follow

The amount of a KP beside its identity (what the 3% cut leaves in the withheld
messages); the choice of the active deal and the races between first messages.
