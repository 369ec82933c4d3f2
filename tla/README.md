# RuleForge: specifications, model checking and proofs

RuleForge converts the configuration of one vendor's firewall to another
vendor's: it parses the source into a vendor-neutral model, lets the user map
interfaces and zones, generates the target configuration, and reviews the
outcome. One Go process serves a dashboard; jobs are kept in SQLite and in files.

This directory holds TLA+ modules that model parts of that program, TLC
configurations that check them on small instances, and theorems that TLAPS
proves for every instance. `PROJECT.json` lists the components, the runs with
what each one shows, the mutants that show each property can fail, the map from
definitions to source lines, the hazards, the findings and the theorems.

## 1. The system

### Components

| Component | Source | State | Operations |
|---|---|---|---|
| Job store | `store/jobs.go` | a row per job (path, summary, or inline data of an earlier release), a payload file per job, a mutex | Put, Get, List, Count, Delete |
| Job handlers | `webui/server.go`, `engine/job.go` | none of their own between requests; a copy of a job while one runs | create, list, show, map, convert, delete, report, output |
| Licensing | `license/license.go`, `webui/server.go` | the activation in memory, the key file | Verify, Activate, handleLicense, New |
| Namer | `gen/gen.go` | names in use, the next suffix per stem, renames | name, unique, lookup |
| Generators | `gen/asa.go`, `ftd.go`, `panos.go`, `fortigate.go`, `checkpoint.go` | the output and its items, one context at a time; a namer | genASA, genFTD, genPANOS, genFortiGate, genCheckPoint |
| Parsers | `parse/*.go` | the context so far, the block a line belongs to, what a line leaves for later ones (remark, binding, bundle) | one parser per vendor |
| Upload | `webui/upload.go` | temporary files, what is left of the request's budget | receiveUpload, streamPart, removeUploads |
| Review and value checks | `engine/review.go`, `valuecheck.go`, `convert.go` | none | Convert, RoundTrip, BuildReview |
| Analysis, mapping proposal | `engine/analyze.go`, `mapping.go` | none | Analyze, ProposeMapping |
| AI Assist | `webui/ai.go`, `internal/aiclient/`, `index.html` | an attempt's timeout, the pause before the next, the panels of a page | explain an issue, retries, cancellation |
| Intermediate representation | `fwir/` | none | address and port arithmetic |
| Reports | `engine/report.go` | none | HTML, overflow exports |
| Dashboard page | `webui/static/index.html` | what it has shown | the requests a user's clicks make |
| Process entry | `cmd/ruleforge/main.go` | flags | start, graceful stop |

### How they interact

A request is a goroutine. The create handler counts the stored jobs against the
tier's limit, receives the upload into temporary files, parses and analyses it
and stores the job. Mapping and conversion read a whole job from the store,
change their copy and store it back. There is no lock or version across the two.
The conversion asks the generators for each context, reviews the result, which
parses the output again for three of the targets, and builds the reports; its
caps come from the activation, which a pasted key changes at any moment.
The store serialises Puts with a mutex and nothing else. All of it survives a
restart except the activation, which is resolved again from the key file.

### What is hard

* **Interleaving.** Two requests on one job; a Delete beside a Put; a licence
  change inside a conversion; another user's map between approve and convert.
* **Crashes and failing steps.** Payload and row are two writes; the key file is
  truncated before it is written; every system call of Put may fail.
* **Silent loss.** Five generators translate rules that the target cannot
  always say. The tool's promise is that whatever is lost is reported; a unit
  test compares one output at a time and cannot see what it does not contain.
* **State that a line leaves.** An ASA remark waits for the next entry of its list,
  a binding counts at the end of the text, members come before or after their bundle.
  The generated text goes through the same parser again for the review.
* **Environments that owe nothing.** A client breaks off its upload; the AI
  sidecar answers late, wrongly or never, and the dashboard goes away meanwhile.
* **Names.** Two objects may have one clean name; which target name they get
  depends on the order of all calls before.

### What makes each component correct

* Store: a reader gets a payload that was put, whole; a row leads to a file; each
  call takes effect at one instant or not at all; nothing is left behind; every
  call returns. What goes wrong with one job harms no other.
* Handlers: a stored job is one handler's job, not a mix; the limit is not
  overshot without bound.
* Licensing: a paid tier rests on a bought key; the saved key unlocks something.
* Namer: skipping suffixes changes nothing; rule names are fresh; a reference is
  written as its object is named; distinct objects have distinct names.
* Generators: a rule that is said to be converted matches the same packets; a
  list of such rules decides every packet alike; whatever else happens is reported.
* Parsers: a line changes the block it belongs to; nothing is skipped unrecorded, but
  for named lines of a block.
* Upload: a request is refused for its size exactly when its files are too large
  together, a job is made of all of a request, and every exit tries to remove every
  temporary file.
* Review: what is called ready means what it meant at the source, and what went
  well within one vendor is not called into question.
* AI Assist: a person waits for the attempts and the pauses and no longer, and gets
  an answer in any case.

## 2. The modules

```
AtomicJobStore  <-- JobStoreRefinement --> JobStore <-- JobStoreProofs
JobServer   <-- Creation <-- JobServerProofs
License     <-- LicenseProofs
Namer       <-- NamerProofs
Translation <-- TranslationProofs
AsaText     <-- RoundTrip <-- ParserProofs <-- RoundTripProofs
Explain     <-- ExplainProofs
MC*  instantiate the constants of each for TLC
```

**AtomicJobStore** is the abstract specification of the store: a map from ids to
payloads; a call has an invocation, one instant of effect and a return, or fails
and changes nothing. A Get answers with something the job has been since it was
called, or that it was absent. A job may come loose (`loose`): nothing is promised of it any
more, and everything of the others.

**JobStore** is `store/jobs.go`, one action per step that another goroutine or a
crash can fall between. `row` is the table, `file` and `tmp` are `<id>.json.gz`
and `<id>.json.gz.tmp`, `mu` the mutex, `pc` the line a call is at. `PutCreate`,
`PutWrite`, `PutRename` are `writeGzipFileAtomic`, `PutUpsert` the SQL statement
and `PutUndo` the deferred clean-up; `FinishPut` is a return with its Unlock.
Every step has the branch in which its call fails, if `Faults` names it, the
marshalling under the mutex included. `life` says which ids a caller can know: a
handler puts a job under an id it has just drawn, or one it has read, which another
request may be deleting. Nothing else restricts the callers. A payload is the number
of the Put that wrote it. Two history variables note, job by job, what the
properties except. `loose`: two calls on the job have clashed, which is a Delete beside a
Put (`Overlap`) or a Get between the row of a deleted job and the file of a Put that
brings it back (`Glimpse`), or the update of its row has failed (`UpdateFails`).
`unswept`: a clean-up of the job was missed (`SweepMissed`), because os.Remove failed, the
process died before it, or Delete had not learnt of the file.

**JobStoreRefinement** maps the one to the other: the payload of a job is what its
row leads to. A Put of an existing job takes effect at the rename, one of a new
job (or of a row that still carries inline data) at the upsert, a Delete with the row. A job
of the store is loose there when it is loose here, so the refinement says that each
job is atomic up to the step at which it comes loose.

**JobServer** is the handlers over a store whose calls are atomic, which is what
`JobStoreRefinement` shows of it. A handler is a chain of actions named for the
calls in it: `CreateCount` and `CreatePut`, `MapGet` and `MapPut`, `ConvGet`,
`ConvCaps`, `ConvBuild`, `ConvPut`. `loc` is its copy of the job. A map, a set of
results and a report are the numbers of the edit or conversion that made them;
`Results.ents` says of which map the results are.

**Creation** puts the upload into the place of one step of JobServer. There a
creation parses in `CreateParse`, whatever that takes; here the same request is
opened, read part by part (`NextPart`, `Copy`, `Weigh` are `receiveUpload` and
`streamPart`), checked, read back into memory and parsed, and its temporary files
are removed when the handler returns. A part is its size, or which of the fields
it is. `disk` holds the sizes of a request's temporary files, `left` is
`remaining`, `code` the status of a refusal. The copy of a file may break off, a
file may not be readable again, the parser may refuse, the process may die, and
os.Remove may fail on any of the files (`Sweep`), whose error upload.go drops: what
stays on the disk for good is counted in `stuck`. All other handlers run beside it,
by JobServer's own actions.

**License** is a key as a record of what Verify looks at, `Activate` in the order
of its checks, and handleLicense as four steps: the key is resolved, then
memory, then the file is opened (truncated) and written. `Restart` is New, and the
days go by in between.

**Namer** is `disambiguate` with its resumed counter, and name, unique and lookup.
The character filter and the cut are constants with what is true of all five
vendors' (`NamerAssumption`): a clean name stays as it is, and the suffixed
candidates of one stem differ from each other. One of them may be the stem itself:
the cut of a name of full length that ends in `_2` gives it back (`gen.go:117-121`).

**Translation** is how the generators translate access rules. A reference is a
kind, which `classifyRef` finds, and the hosts it stands for: those it names by IPv4, and
the IPv6 addresses, prefixes, ranges and names in it (`six`), because those come out
as something else. `There` is what the reference stands for at the target,
`Written6` what a vendor makes of an IPv6 form: `IsHostCIDR` takes every /32 for a
host, `PrefixToMask` has no IPv6 mask, FortiGate writes IPv4 only, and ASA and FTD
resolve names to IPv4 (`fwir/util.go:109-158`). A service is a kind, a protocol and the
flows it matches, with those it matches without its source port (`anysrc`), which FTD
and Check Point have no place for (`Ports`). `Translate` writes one rule and its
item for the target, with a definition per clause: `Addresses` (`addrClause`,
`panAddrList`, `fortiAddrList`, `addRefs`, `refListJSON`), `ServiceList` and the
zones. Several references of an ASA rule go into a helper group, which is an entry of a
map under the rule's name and side (`helperObjs`): the next rule of the name
replaces it (`Shares`, `WithHelpers`). `Bind` writes the ASA's access-groups at the end.
What the source and the target decide for a packet is `Decided` and `DecidedThere`: the first match
counts, and an ASA asks the list of the interface before the global one.

What Translation leaves out, and why this does not hide anything it claims: only
a PAN-OS source has applications, so no rule with one reaches a PAN-OS target;
"any" is alone in its list, as the parsers make it; the `failed` branch of an
address is not reached by anything `classifyRef` calls a literal; the group of
an ASA source holds literals, and a group of objects matches as its members do;
the meaning of a disabled rule, and of first match, is the one of the
intermediate model.

**AsaText** is the parser of ASA and FTD syntax. A line is a record that says what
its words mean; the parser is one action per command, with `text` and `at` for the
lines and the place in them. `Body` is `collectIndentedASA`. What a line leaves for
others is in `remark`, `bind` and `joins` (the two maps of bundle members), and
`Close` is the end of the text, with bundles in the order of a Go map.
`ContextsOf` a file is `splitASAContexts`.

**RoundTrip** puts this parser before and behind the ASA generator. `pass` says which
text is read; `Convert` is `genASA` with the items of every element, `GenX` for
each kind of line it writes; the text it writes is parsed by the same actions,
and `BuildReview` compares the two contexts and gives the verdict. Addresses are
values of which CONSTANTS say which hosts they stand for, by IPv4 and by IPv6, and
services the flows they match, so that what a text means to a device can be computed
from its lines alone (`PolicyAt`, `Nats`, `Networks`, `Services`), for the source text and
for the written one. `any`, `any4` and `any6` are three forms there, an FQDN has its
family, a manual translation its words (`unidirectional`, `after-auto`, ...), and the
device asks translations by section (`Asked`), although the parser reads past all
of these and the generator writes none. An IPv6 prefix is written as the address alone,
as a host or in front of a mask that is none (`Literally`). The namer is left out: the
names of an ASA source are clean. The model takes a file one context at a time, the
review one of a file with one.

**Explain** is the Explain button, its handler and the client. A request goes through
`Load` (the job as stored now, `findIssue`), `Gate` (`aiAllowed`, and the evidence
packet, which may not come about), and attempts:
`Send`, then `Reply` or `Fails`, then `Pause` and again. `Judge` is which answers
are tried again. Time is in ticks: an attempt has `Timeout`, the n-th pause n times
`Backoff`. `Reload` is a dashboard opened anew; the context of the requests it
had is done. Conversions, mappings and licences fall in between. The process runs
with no retries; `RetryCounts` has other counts too, which the client takes.

## 3. Runs

| Run | Instance | What it shows |
|---|---|---|
| `jobstore_atomic` | 2 goroutines, 1 job of an earlier release, 2 Puts, 1 crash, failing steps | the store implements AtomicJobStore, from which a job comes loose when two calls on it clash or an update of its row fails; every call returns |
| `jobstore_clean` | 2 goroutines, 2 jobs (one inline), 2 Puts, 1 crash, every fault | a payload file is absent or whole; a row's file is there, the listed summary is the payload's and nothing is orphaned, but for jobs that are loose or missed a clean-up |
| `jobstore_failed_update` | 1 goroutine, 1 job, failing updates | **violation**: a failed row update removes the file of a listed job |
| `jobserver_outputs` | 2 requests on 1 job, three tiers, all sizes of sources, restarts | results and status agree, outputs are unmixed |
| `jobserver_unseen` | 2 dashboards, 1 job | **violation**: a map saved between approve and convert is converted unseen |
| `creation` | 2 uploads at once, 3 ids, a job limit of 1, a limit of 3 bytes, 15 requests with files below, at and past it, alone and together | the limit is met to the byte; whole inputs; every exit has tried to remove every temporary file; creations overshoot the job limit by fewer than the requests in flight |
| `license_bought` | 2 clients, 6 keys, 4 days, both editions, failing file | paid means bought; the saved key unlocks |
| `namer_fresh` | 6 names of at most 5 characters that clash after cleaning, by suffix or by the cut; 3 rules; suffixes to 4 | skipped suffixes are taken; rule names fresh; renamed objects apart; lookups current |
| `translation_exact` | rules of four parsers to every other target, one or two in a list; 2 hosts, 6 IPv6 forms, 2 zones, 8 flows, 3 names | addresses kept, converted rules match the same packets outside the named cases, whole lists decide alike |
| `translation_silent` | ASA rules with a tcp-udp group, to PAN-OS | **violation**: the udp half is lost and no item says so |
| `explain` | 1 place, 2 clicks, 2 conversions, endpoints without a key, with one and off, 0 and 2 retries | the wait is bounded and every click answered |
| `roundtrip` | the captures of four parts of a configuration (18 075 contexts, 260 679 states): access lists, translations, objects, devices, each a few lines over a basis of objects | no line is lost silently but for the named lines of a block; a context called ready keeps its policy, translations and values outside the named losses; no false alarm |

The bounds. In the store, two goroutines are enough for a reader beside a writer, a
writer beside a writer and a deletion beside either; the theorems of JobStoreProofs
cover any number. Two Puts give a job of an
earlier release a payload file and a replacement of it, and two jobs a payload each;
the second job is for what one job could do to the other. One crash can fall at every
point and is followed by further calls. Behaviours with a second crash begin in a
state the first leaves on disk. In the handlers, every hazard is between two
requests (or a request and a licence change, which is not bounded); two
conversions give an earlier and a later one. Three bytes are enough for two files
that fill the limit together and two of which each fits and both do not, and a
file of five is past it alone. The keys of `license_bought` cover
every verdict of Verify, and four days reach past every expiry. The names of
`namer_fresh` are one of each kind of clash, so that a call meets used names
before and after its counter, and one whose second candidate is its own stem. Two zones
that the mapping swaps tell source from
target zones; two hosts tell a widened, a narrowed and a kept reference apart; the IPv6
forms are one of each length that the arithmetic tells apart, a range and a name;
the flows are tcp with and without its udp twin and from a port of its own, icmp, two
ports of sctp and a protocol without ports. Two rules of a list may share a name, have
names that differ, or one that the namer changes.
In `explain`, a timeout of two ticks and a pause of one leave room for a tick in
either; two retries give a second pause, longer than the first. Two places do not
meet in the code but in the job they read. In `roundtrip`, the lines of a part (access
lists and bindings; translations; objects, groups and services; interfaces,
routes and contexts) are combined in every order, three or four at a time, with
one or two of every form the parser tells apart, wrong ones included; lines of
different parts meet where one names the other. Hosts have an IPv4 address, an IPv6
address or both. A capture has one definition of a
name before its use, as a device writes it.

Deadlock is checked where the system has to go on; a translation, a review and a
dashboard without further clicks end, so those runs do not check it.

**Fairness.** `jobstore_atomic` checks `EveryCallReturns` under `FairHSpec`: weak
fairness of every step of a goroutine (Go's scheduler runs a runnable goroutine)
and strong fairness of taking the mutex (`sync.Mutex` hands itself to a goroutine
that has waited more than a millisecond, so it is not passed over forever). That a
file system call or an SQL statement returns is part of the first. Nothing makes a
client call, so calls themselves are not fair. `explain` checks `EveryAskAnswered`
under weak fairness of the handler's own steps, of time, and of the failure of an
attempt whose time is up (`context.WithTimeout`); the sidecar's answer is not
fair, nor is anything a person does. An upload has no liveness: `main.go` sets no
read timeout, so a client that sends nothing more keeps its handler and its
temporary files for as long as the connection lasts.

## 4. What is proved

All theorems hold for every value of the constants that satisfies the ASSUME of
the module: any set of goroutines, requests, ids, names, keys, rules.

* **JobStoreProofs.** `TypeCorrect`, `PayloadsWhole`, `RowsHaveFiles`, `StoreIsAtomicMap`,
  `SummariesCurrent`, `NothingOrphaned`, all of `Spec` itself: for any faults, any
  overlap of calls, any number of crashes, with no premise on callers. No payload
  file is partial, because of three facts that hold together (`WholeInv`): a
  thread in a Put step holds the mutex; the temporary file of the thread about
  to rename is the payload of its request; and no other step writes files.
  What can go wrong with a job is excepted for that job alone and from the step on at which
  it happens, in the history variables `loose` and `unswept`. `RowsHaveFiles`: a row that
  is not loose has its file; `FileInv` adds what a Put before its upsert has already put in
  place, that the clean-up meets no row, and that a Delete that has removed the row
  removes the file of nobody else. Under the same exception `StoreIsAtomicMap` is
  the refinement: every step of the store is a step of AtomicJobStore or none. It needs
  (`MapInv`) that the file of a Put before its upsert is the payload it wrote, and that
  what a Get is about to open, when a Delete has removed the row meanwhile, was the payload
  since the Get was called; lemmas for each call go through its steps.
  `SummariesCurrent` and `NothingOrphaned` except jobs of which a clean-up was
  missed; a failed update and calls that clash are covered. `LeftInv` says
  what a Put holds between two of its steps, so that only a crash or a failed removal
  adds to what is left; `OwnedInv` gives every file without a row to a Put or a Delete
  under way.
* **JobServerProofs.** `ConvertedIsFresh`, `OutputsUnmixed`. The
  invariant (`OutputsInv`) says of every copy a running handler holds what it
  says of the stored jobs. A whole job is written each time, so the later Put
  wins with a job that is good in itself. That nobody locks is why the copies
  have to be in the invariant.
  `OvershootBounded`: a creation or a bringing-back counts as
  soon as it has passed the check (`LimitInv` counts the stored jobs together with those under way),
  so the overshoot is less than the number of concurrent requests. Assumes a
  limited tier and a Count that does not fail. `OvershootBoundedByUploads` says the same
  of Creation, which is built of JobServer's actions and of steps that leave its state
  alone (the lemma `CreationImplements`).
  `JobsMadeWhole`, `LimitMetExactly` and `UploadsRemoved` rest on `UploadInv`, which
  relates the place of a handler in its upload to the parts it has read: the budget
  that is left and the bytes of the files so far are together the limit
  (`BudgetOK`), and so are those of the file that is just being copied; the
  files on disk are the sizes of the parts with content (`FilesOK`), and those that
  os.Remove failed on are no more bytes than the limit allows; what is in
  memory is a prefix of them in their order (`MemoryOK`); and a refusal has its
  reason (`CodeOK`). `TotalAppend` and `ContentsTotal` say what one more part does to
  the sums.
* **LicenseProofs.** `OnlyBought`, `SavedUnlocks`,
  from what a request has resolved its key to (`RequestOK`) and what can be in
  the file (`FileOK`).
* **NamerProofs.** `NamerTypeCorrect`, `ResumeExact`, `RenamesApart`, `LookupsAgree`,
  `UniqueIsFresh`. The
  invariant is that every suffix below the counter of its stem is taken, and a
  name that was given out is in use. The stem itself may be one of the candidates.
* **TranslationProofs.** `AddressesKeptAlways` for any hosts, objects, names and rule lists,
  but for IPv6 that the vendor writes as something else (`Mangled6`) and helper groups that
  a later rule of the name replaces (`Replaced`): what the map of helpers holds for a
  rule in the end is what its last namesake put there. `ConvertedKept`, outside these and
  the six silent cases (`Silent`), when the mapping keeps zones apart (`IsInjective(ZoneMap)`,
  which the editor does not enforce: two zones mapped to one merge, as the user
  asked). The lemmas go clause by clause: addresses, services, zones.
  `PolicyKeptAlways` is about the whole list under the same premise: both the
  source and the target ask the first rule that matches, so it is enough that the
  least matching place of the one is that of the other, and, where the target
  groups the rules by zone, that no global rule stands before one that is bound.
* **ParserProofs.** `ParserHonest`: for any file, a line is an element, captured or
  listed as unparsed, and an indented line is in the element of its block, unless it is one
  that `Lost` names: words that the switch of the block has no case for, a value that
  cannot be read, and what a later line of the block replaces. The
  invariant (`Honest`, of both readings) says of the lines before `at` that they are accounted for
  and of the elements that each carries a line already read; the hardest step is
  a header's, which passes its whole block, where every line below must be
  indented or blank (`End` is the least line that is not, so a least element of
  a set of numbers is needed). `RoundTripTypeCorrect` has to know besides that what the generator
  writes is a list of lines again (`Generated`, block by block), and that rules
  are unbound until `Close`, which binds each once at most. `AlarmsHaveReasons` follows
  a value through the writing and the second reading. What is written is laid
  out header by header (`Layout`), and a block's lines are what the reading finds
  below its header (`Standing`, `BodyShown`); every header behind the parser has
  left its element with its line and values (`Followed`, invariant of both
  readings). So each interface, object, service, rule, translation and route comes
  back (`Survives`), and as elements read from different lines are different, no
  count drops; of routes there are no more either, as each has a line of its own.
  Objects and routes without an address are not written, and their items say
  so (`CleanLiteral`). Of a file nothing is
  assumed but that it is a sequence (`TextAssumption`).
* **ExplainProofs.** `ExplainTypeCorrect`, `WaitIsBounded`, for any timeout, pause and
  number of retries. `Timing` relates the place of a request to the ticks it has used
  and those it has left: an attempt's remaining ticks and the elapsed ones together
  do not pass the time of all attempts and pauses before it and one timeout. The
  arithmetic of the pauses (`PausesNext`, `PausesGrow`) is proved apart from it.

* **RoundTripProofs.** `ReadyKeepsValues`: in a running configuration that the
  review calls ready, every name stands for the same hosts and flows at the target,
  the interfaces have their addresses and levels, and the routes are the same, in
  their order; but for names with an FQDN of another family than IPv4 or an IPv6 prefix
  in a group (`PlainNetworks`), and port clauses that are not read (`PlainServices`). The
  premises are on the source alone. `Running` says what a device
  shows of itself: a command stands at the margin and its parts below it
  (`Nested`), no word is missing and an interface has one level (`Spoken`), a name is
  defined once, in a block that ends before the one that uses it begins. `ZoneRoutes`
  says that the mapping of the interfaces leaves the names of zones alone, which a
  route names. Every capture of the run `roundtrip` that is ready and of which all is
  readable satisfies both (6646 of 6646), so nothing the run checks is set aside.
  The argument has three parts. First, what the parser has understood is all there is:
  `Holding`, the invariant of the first reading, ties each kind of line before `at` to
  the element that holds its values and back (`ReadAll`), and no line is left out when
  `unparsed` is empty. Second, what is written says the same: for each block of `GenASA`
  the place of each of its lines is computed, and no other block has lines of that kind.
  Third, the meaning of a text: a name gets what the lines that tell of it say
  (`MeaningSum`), provided that what they refer to is told before them (`InTurn`,
  `TurnByPlace`), so two texts that tell of each name the same give it the same
  meaning (`MeaningSame`). Routes are compared place by place: the lines of a kind are
  counted by an increasing function onto their places (`Counts`), of which there is one
  for each set (`SameCount`).
  `ReadyKeepsTranslations` says of the same contexts that the translations are what
  they were, one by one and in the order in which the device asks them: lines of their
  own, objects, and what comes after-auto. They are written in the order of the text, so
  this needs a text in the order of the sections (`InSections`), in which the selections
  of the three sections, put together, are the lines in their order (`AskedInOrder`,
  `PlacesJoin`); `PlainNat` excepts the words that are not written. `NatsHeld` is the invariant of the first
  reading: the translations read so far are tied, by such a counting, to the lines
  before `at` that they came from (`ObjectFrom`, `ManualFrom`); an object's block adds
  as many as it has, at once. Each is written as one line of its own behind the
  bindings (`WrittenNats`), whether it stood in an object or not, and each such line
  means what its origin meant (`ManualBack`, `ObjectBack`, `NatSame`). The premise
  `NatsWorded` says that a translation has the words its form needs and that they
  are names. The captures of `roundtrip` that have translations and fall under
  `NatKept` satisfy it and `Running`, all 40.
  `ReadyKeepsPolicy` says that every entry a packet meets, at every bound interface
  and globally, has the action, hosts and flows it had, in the order it had, outside the
  losses that `PlainAce`, `PlainNetworks` and `PlainServices` name (section 5). `RulesHeld` is
  the invariant of both readings: each rule is tied by a counting to its entry, in
  the words `parseASAACL` keeps of it (`RuleFrom`), `bind` has for each list a binding
  before `at` (`BindsRead`), and once the parser has closed, each rule is where one
  of its list's bindings puts it (`BoundAs`). `SourceList` and `TextList` then say, for the
  source and for what is written, that the entries at a place are those of the
  rules that are there and active; on the one side because a list is bound once, on
  the other because the name of a list tells its zone (`ListedAcl`) and
  `GenBindings` writes a binding for each list (`BindingsAre`). The two sequences are
  picked by the same counting (`ListsPair`), and entry by entry they decide the
  same (`EntryBack`): a ready context has no rule that was widened
  (`RulesResolved`), so each address is the one that was read. The premises are
  `PolicyWorded` (a binding is global or has a direction and an interface; a
  protocol has ports only if it can; no name is the parser's word for what it could not
  read) and `ListsApart` (the interfaces that are bound get lists of different names,
  none of them the global one: zones that are mapped onto one would share a list). The
  captures with entries that fall under `PolicyKept` satisfy both and `Running`, all 167.

What these proofs share: the library's induction theorems take
an operator, which no prover here can instantiate. `UpTo`, in the modules that need it, is
induction over a set of numbers instead, from a least element (`Least`, by well-founded
induction on Nat), and `Built` says that a function defined by recursion over `0..n`
exists. So sums
(`TotalsAre`, `ContentsAre`), selections (`ThoseAre`), concatenations (`FlattenAre`)
and meanings (`MeaningIs`)
are known step by step, and their properties follow by `UpTo`. That is why `Totals`,
`Contents`, `Those` and `Meaning` are functions: of a recursive operator, and of the library's
SelectSeq and FoldLeft, the provers know nothing.

Only model-checked: `EveryCallReturns` and `EveryAskAnswered`, which are liveness. Of
the round trip everything the runs check is proved, `ValuesKept`, `NatKept` and
`PolicyKept` under the premises named above: without those TLC alone speaks for the
captures of the run.

## 5. Where the code and its documents disagree

With a run that shows it:

1. `store/jobs.go:256`: a failed update of a row removes the payload that the row
   still names (`jobstore_failed_update`). The comment calls it an orphan.
2. `README.md:20`, `index.html:263`: "Conversion never runs on an unseen map". It
   does when another user saves one between the dashboard's two requests, and
   handleConvert does not ask for a mapped job (`jobserver_unseen`).
3. `gen/panos.go:31`: "second proto noted by caller". No caller notes it
   (`translation_silent`; `README.md:19`: "Nothing is ever silently dropped").

Met while reading. The models allow each of these; a property that touches one
excepts it by name, or speaks of something else:

* `store/jobs.go:344`: a Delete that falls into a Put of the same job removes the file
  of the row that the Put has written. The comment considers only the other outcome,
  a left-over file: "not a correctness bug". `RowHasFile` excepts the job from then on (`Overlap`).
* `index.html:271`: "converting again replaces the outputs". A conversion by the free
  tier leaves the final report of an earlier, paid one, and handleReport serves it.
* `README.md:47-49`: the final report belongs to the paid edition. handleConvert looks at
  the activation a second time for the report's mark, and a licence that ends in between
  makes a final report "free edition".
* `license.go:11-12`: "An EXPIRED key [...] falls back to the free tier's limits". It does at
  the next restart or paste, not while the process runs.
* `license.go:85-86`: "the newest IssuedAt wins". The last pasted does.
* `gen/asa.go:272`: an IPv6 prefix of an access rule becomes one host when its length is 32
  and gets the mask `<nil>` otherwise, and the rule is "converted" (`Mangled6`).
* `gen/asa.go:308`: the helper group of a rule replaces that of an earlier rule of the same
  name, and both are "converted" (`Replaced`). `README.md:21` calls the helpers "collision-safe".
* `aiclient/client.go:119-120`, `388-392`: a retry follows "connection error or HTTP 5xx".
  It follows a 200 with an error object, too, and a body that breaks off.
* `fwir/model.go:8-11`: what is not recognised is in the list of unparsed lines, "nothing is
  ever silently dropped". An object's value that cannot be read, and any word that the
  switch of an interface, object, service or group has no case for, leave no trace
  (`parse/asa.go:403`, `445`, `449`). `NothingSilent` excepts these lines (`Lost`).
* The job limit is checked before the upload: concurrent creations pass it, and
  a Put of a job deleted meanwhile brings it back (`README.md:47`, "1 stored
  job"). `JobsBounded` is what does hold.
* `gen/gen.go:103`: "collision-free target names". The object `a_b` gets the
  name that `a b` was given before it: `disambiguate` stops at a used name when it
  equals the source. `RenamedApart` speaks of renamed objects only.
* An answer of AI Assist is kept under context and index (`index.html:336-377`). A
  conversion in between puts another item at that index, and the panel of the
  earlier one, or of the one the server found, hangs under it.
* `name` is called idempotent (`gen.go:159`, `gen.go:169-170`). A second call for
  a renamed source gives it another name.
* The six silent cases of `Silent`. An ASA has no place for destination zones and for the
  second source zone of a rule, and the rule is "converted". A PAN-OS literal without a
  port (`permit tcp any any`) becomes any service. A FortiGate literal of another
  protocol becomes `protocol IP`. FTD, Check Point and PAN-OS keep one half of a tcp-udp
  literal. FTD and Check Point write no source port of a service object. Check Point
  writes an sctp literal without its port.
* The ASA's rules without a source zone go to the global list, which is asked last.
* IPv6 beyond the ASA: FortiGate writes every IPv6 object as IPv4, PAN-OS gives an IPv6
  host /32, ASA and FTD resolve an FQDN to IPv4 (`Mangled6`).
* The comment on `parseASAACLPort` promises `object-group` port clauses, which it
  does not read: the rule matches every port.
* From ASA to ASA a context can be called ready and not be what it was. `PolicyKept`,
  `NatKept` and `ValuesKept` hold outside these cases, each of which is a
  predicate of RoundTrip:
  * `BoundOnce`: a list that no access-group binds becomes the global one; of two
    bindings of one list the last is kept; a list bound "out" becomes a global one.
  * `PlainNetworks`: `fqdn v6 X` and `fqdn X` are written `fqdn v4 X` (`gen/asa.go:149`); an
    IPv6 prefix in a group is written as a host or with the mask `<nil>`
    (`gen/asa.go:198-202`).
  * `PlainAce`, `PlainServices`: `any4` and `any6` are written `any` (`parse/asa.go:745`), an
    IPv6 prefix as in a group; a source port, `neq`, a service group as port, an ICMP
    type and a time-range are lost and the rule matches more; in service groups
    a tcp-udp port keeps its tcp half (`protoSplitFirst`).
  * `PlainNat`: `unidirectional`, `after-auto`, `no-proxy-arp` and `route-lookup` are read
    past and not written; a service clause, the destination of a dynamic translation, the
    pool of a manual `pat-pool`, the fallback of `B interface` are lost; a mapped source
    that is left out becomes "any" (`parse/asa.go:858` says identity). An address in
    the place of an object gets a helper object which nothing defines:
    helpers are written before the translations ask for theirs
    (`gen/asa.go:393`, against the comment at `gen/asa.go:22`).
  * `InSections`: translations of objects are written as lines of their own, in the order of
    the text. Where lines of their own follow them there, or objects that share hosts stand
    in another order than the one the device asks them in, the first match changes.
  * `AllReadable`: a network object whose value cannot be read leaves no object and no
    entry in the list of unparsed lines.
* An MTU is parsed and never written; `route X 0 0 G` is unparsed; "ready" may stand
  beside unparsed lines.
* The verdict "blocked" of a failed element becomes "review-needed" when the
  round trip does not match as well (`review.go:162-163`).
* Round-trip verification belongs to the paid edition (`README.md:49`). The free
  tier's conversion clears the count checks and keeps the value checks, their
  notes and their effect on the verdict (`server.go:358-362`).

## 6. What is not modelled

* **The other parsers and generators.** PAN-OS, FortiGate and Check Point parsers, and
  of the generators but the ASA's everything beyond access rules. They differ
  from the modelled ones in syntax more than in control, and their round trip
  needs their meaning as RoundTrip has that of an ASA. The cut of FortiGate policy
  names after they were made unique (`gen/fortigate.go:464`) is a hazard no property covers.
* **Files of several contexts in one review.** Values and counts are compared over all
  contexts together, so one context can cover for another; the model reviews one.
* **Analysis, mapping proposal, reports**: read by people, and by nothing that decides.
  Approved mappings are version numbers in JobServer, constants in RoundTrip.
* **Composition.** JobServer stands on atomic store calls; `jobstore_atomic` shows that the
  store gives them for every job until calls on it clash or its row's update fails, which
  the handlers do not prevent. What a torn job means to them (a Get that fails, a
  500) is not in JobServer, and the two are not checked as one.
* **Left-over files.** What a crash leaves on disk (temporary payloads, uploads) is
  in the models, and nothing in the code removes it.
* The HTML of the reports and of the dashboard, the wording of items, the lexing of
  lines, the evidence packet's text, flags and listener. A graceful stop
  that runs into its five seconds is a crash to the store. The limits of
  `license.Limits` are read by nothing in this program.
