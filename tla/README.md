# TLA+ specifications of ppp-blog

The blog is Halo plus four Go services and three Halo plugins. These modules
specify the parts of it that keep state under concurrency and failure, TLC
checks them on small instances, and TLAPS proves what matters most of them for
every instance.

## 1. The system

| component | state | operations | interacts with |
|---|---|---|---|
| comment-service, like pipeline | Redis `like:users`, `like:count`, `like:sync:pending`; MySQL `like_count`; detail cache; hot list | Like, Unlike, SyncDirtyLikes (ticker and admin), consumer's onLikeDelta | Kafka events to its own consumer, Redis, MySQL |
| comment-service, moderation pipeline | MySQL status; page, count, detail caches; hot list; Kafka offset | SubmitComment, Approve/Reject, ListComments, GetHotComments, onCreate, onStatusUpdate | same |
| comment-service, rate limit | a Redis sorted set per IP and per author | Lua script, middleware | in front of all comment routes |
| comment-filter | word list and Aho-Corasick automaton in memory | Filter, words API | called by the moderation plugin; calls the AI |
| auto-reply | quota counters in memory, rules in memory and in a file | Reply, rules API | called by the auto-reply plugin; calls the AI |
| plugin-comment-moderation | none (annotations on Halo's comment) | onAdd, onUpdate, applyDecision | Halo's watcher, comment-filter |
| plugin-auto-reply | `processingComments`, e-mail quota | onAdd, onUpdate, createReply, filters | Halo's watcher, auto-reply |
| plugin-stats-dashboard | visitors, daily views, stats cache, dashboard page | visits, snapshots | Halo |
| server-monitor | alert rules and states, snapshot history | Evaluate, rules API, webhook | its own collector |

### What is hard, and what makes each part correct

* **Like pipeline.** One like is written on three paths that meet in MySQL: a
  relative event, an absolute sync and a cache. Each call to Redis, Kafka and
  MySQL can interleave with any other and can fail. Right means: the Redis
  count is the number of users who like; a count MySQL does not show is marked
  for a sync; the events alone add up; all work is done in the end.
* **Moderation pipeline.** Readers fill caches with values they read earlier,
  while the consumer invalidates; events are duplicated, redelivered after a
  crash, and dropped after three attempts. Right means: nobody sees a comment
  no admin approved; MySQL follows the log; stale cache entries do not last.
* **Rate limit.** Stamps are taken outside Redis and may arrive out of order;
  entries are named by millisecond and a random number. Right means: no window
  admits more than the limit, and refused calls do not count.
* **Plugins.** Halo notifies both plugins of every write, so one comment has
  several pipelines in flight in each; updates are refused on a version
  conflict and not retried. Right means: one reply at most, only to a comment
  that passed; a sensitive one passes only with the AI's consent; every
  comment gets a decision.
* **Quota limiter.** Time is read before the lock; midnight clears everything;
  memory is lost on restart. Right means: the day's limits and the cooldown.
* **Rule store.** Memory changes before the file, a failed save leaves the
  change in memory, and PUT is a read and a write. Right means: what was
  acknowledged survives a restart and other requests' failures; a deleted rule
  stays deleted; the best rule answers.
* **Server monitor.** Conditions flap, samples are lost while a webhook call is
  under way, rules change while they fire. Right means: the webhook's last word
  is right, and is not repeated within the cooldown.
* **Word matching.** Words inside and at the end of others; a breadth-first
  build whose order Go's maps leave open; words changed while comments are
  matched, and gone after a restart. Right means: every place of every word is
  found and nothing else, and each comment is judged by the words of one moment.
* **Pagination.** Cursors with equal times, ids that are not in the order of
  the times, a page key without the page size. Right means: a walk along
  next_cursor shows nothing twice and skips nothing that stayed approved.
* **E-mail quota.** Day and counter are two atomics without a lock around
  them. Right means: no count is lost or given back twice, the limit holds, a
  day is begun once.
* **Dashboard page** (not modelled). A page whose snapshots are written one
  after the other.

## 2. Modules

| module | models | run through | theorems in |
|---|---|---|---|
| `LikeSync` | like requests, SyncDirtyLikes, the consumer's like events | `MCLikeSync` | `LikeSync_proofs` |
| `CommentPipeline` | submission, admin decisions, consumer, readers and their caches | `MCCommentPipeline` | `CommentPipeline_proofs` |
| `CommentPages` | cursor pagination and the cached pages | `MCCommentPages` | `CommentPages_proofs` |
| `HaloReview` | one Halo comment between both plugins, comment-filter and auto-reply | `MCHaloReview` | `HaloReview_proofs` |
| `WordFilter` | comment-filter: word store, Aho-Corasick automaton, filter decision | `MCWordFilter` | `WordFilter_proofs` |
| `FilterPromise` | what comment-filter promises its callers; `WordFilter` implements it | `MCWordFilter` | `WordFilter_proofs` |
| `RuleStore` | auto-reply's rule store, rule handlers and rule engine | `MCAutoReply` | `AutoReply_proofs` |
| `QuotaLimiter` | auto-reply's QuotaLimiter and the calls around it | `MCAutoReply` | `AutoReply_proofs` |
| `AutoReply` | the Reply handler, which joins the two | `MCAutoReply` | `AutoReply_proofs` |
| `EmailQuota` | plugin-auto-reply's daily limit on verification mails | `MCEmailQuota` | `Limits_proofs` |
| `SlidingWindow` | the Lua script and the middleware | `MCSlidingWindow` | `Limits_proofs` |
| `ServerMonitor` | the collector's channel, the worker, the alert engine, the webhook, the alert rules' API and file | `MCServerMonitor` | `ServerMonitor_proofs` |

`AutoReply` EXTENDS `RuleStore` and instantiates `QuotaLimiter` (`Quota`): both
read one clock, and a restart resets both. `CommentPipeline` and
`CommentPages` are two views of the same lists: the first has one page and
every writer of it, the second all pages and only the effect of the writers;
where `CommentPipeline` says which cached page is deleted when,
`CommentPages` lets any page be deleted at any time. `HaloReview` knows
comment-filter by the answer `WordFilter` computes.

How state and actions correspond to the code:

* `LikeSync`: `users`, `cnt`, `dirty` are the three Redis keys, `row` the MySQL
  column, `detail` and `hot` the two caches (of `hot` the members, not the
  scores), `log` the partition, `committed` the group's offset the running
  consumer began at, `fetched`/`con` the position of the one consumer
  goroutine, `req` and `wrk` the local variables of each running request and
  sync, `uncached` the submitted comments whose SubmitComment has not come to
  its SetDetail. A like request is Like or Unlike (Lua script, atomic), then
  PublishLikeEvent, then MarkDirty with updateHotScore behind it; several run
  at once and publish in any order. A sync is PopDirtyBatch, then for each
  marker GetLikeCount, SyncLikeCount, InvalidateDetail, with Requeue on an
  error; an UPDATE may take effect and report an error ("written"). The detail
  cache has five writers: the consumer's SetDetail and invalidation, the
  sync's, getCommentDetail, which reads the row (`GetDetail`, `FindDetail`) and
  caches what it read later (`FillDetail`), and SubmitComment (`SetPending`).
* `CommentPipeline`: the same log and consumer; a comment is reduced to its
  status. A reader's steps are its separate Redis and MySQL calls, so what it
  read may be stale when it writes it to a cache: ListComments is the page's
  miss, FindByPostID, GetCount, CountByPostID, SetCount and SetPage. A cache
  that cannot be read counts as a miss (`Misses`), a query that fails ends the
  request, a statement may take effect although its answer is lost
  ("written"). The cached pages of a post are one entry, with the comments
  shown and the total, because they are written and deleted alike. Approve and
  Reject only publish, so they take no request slot and come at any moment.
* `CommentPages`: `row` is the MySQL row reduced to created_at, the
  AUTO_INCREMENT id and the approval; `page` the Redis keys by cursor; `reader`
  what a client knows of its walk and what its running request read. GetPage
  (`Hit`, `Miss`), FindByPostIDWithCursor (`Query`) and SetPage (`Store`) are
  separate steps, and each may fail.
* `HaloReview`: `comment` is Halo's object with its optimistic lock, the two
  inboxes are notices of writes not delivered yet (in any order), `mod` and
  `run` the reactive pipelines, named by the version of the write that
  started them. Halo's reconciler and an admin are `Edit`. Neither plugin
  shares state between comments, so one comment is enough.
* `QuotaLimiter`: `Arrive` reads the clock, `Allow` is the locked section with
  resetIfNeeded, `MarkQuotaExhausted` comes after the AI call.
* `AutoReply`: a reply is `ListRules` (the copy of the rules), `EvaluateRules`,
  `Decide` (no rule or a template that fails ends it; otherwise it reads the
  clock) and `AskAI`, which is QuotaLimiter's Allow, the AI's call and
  MarkQuotaExhausted. The rule handlers and `RestartService` run between any two.
* `WordFilter`: `words` and `auto` are WordStore's list and AhoCorasick's root,
  `build` the automaton a writer builds while it holds the lock, one edge of
  the trie at a time (`BuildEdge`), in every order of the children. `Match`
  holds the read lock, so it waits for `build` to end; `Review` runs without
  it. A node is named by the characters on its path.
* `FilterPromise`: a set of words in force, and for each call one moment at
  which the comment is judged by them. The refinement mapping takes the words
  of the automaton in use while another is built, and the list otherwise.
* `EmailQuota`: `currentDay` and `successCount` are the two atomics, `swap`
  tells the objects compareAndSet compares; reading the date, comparing,
  swapping, clearing, counting and giving back are steps of their own.
* `SlidingWindow`: `Script` is one atomic run of the Lua script; `expires` is
  Redis' PEXPIRE. What math.random returns is a choice. A call may fail before
  the script runs (`FailOpen`) or after it (`LoseAnswer`): then the entry stays,
  and go-redis sends the same stamp again or the request passes.
* `RuleStore`: `rules` is the sorted slice (as a function, since id and
  priority determine its order) and `file` the JSON file. `Create` and `Delete`
  are the whole handlers, PUT is `Get` and `Update` with `puts` between them; a
  save that fails changes memory and not the file, which is written beside and
  renamed. A reply is `List` and `Evaluate`; what follows is `QuotaLimiter`'s.
  A crash within a save is a failed save and a restart.
* `ServerMonitor`: `slot` is the collector's channel, `hand` and `outbox` the
  worker's sample and its events still to send, `state` the engine's
  ruleState by name. Time is relative: the engine only looks at differences of
  sample times, so a rule's state keeps the time since its condition began and
  since it was announced, cut off where no comparison sees a difference. Metric,
  operator and threshold are one condition, which a sample meets or not;
  `NoMetric` is a metric the engine skips. A metric that could not be read
  counts as 0, which is a choice of conditions like any other. The events of one
  evaluation concern different rules and are sent in any order. The three
  attempts of a webhook call are one outcome: an attempt whose answer was lost
  is repeated with the same words, and the worker sends nothing else meanwhile,
  so the webhook's last word is the same. The webhook is
  configured (without a URL no event is sent), and the engine starts from its
  default rules.

External systems are modelled from how the code uses them: a Kafka partition
is an ordered log, Redis commands and scripts are atomic, `comment_id` is unique in MySQL, Halo refuses
an update of an old version. kafka-go commits in the background, and only a
restart sees how far: the new consumer begins at any offset between the one
the old began at and what that was done with (`Flushed`).

History variables are written and never read by the actions:

| module | history |
|---|---|
| `LikeSync` | `synced` the last absolute count a sync wrote; `lost` comments whose marker a failed call took; `skewed` comments with an event lost, applied twice or published ahead of the like it takes back; `stale` comments whose cached count may be old |
| `CommentPipeline` | `missed` the events given up before they reached MySQL |
| `CommentPages` | `steady` of a page and of a walk: the comments approved ever since |
| `HaloReview` | `past` which ways in a comment took |
| `QuotaLimiter` | `opening` clearings of the counters; `stale` requests that set the day back; `calls` the calls allowed |
| `RuleStore` | `promised` what the rules API acknowledged |
| `EmailQuota` | `clearing`, `late` counts given back to a counter cleared since; `opened` how often each day was begun; `back` swaps to an earlier day |
| `SlidingWindow` | `admitted` the calls the script allowed each key, one for each try of a call; `collided` calls that took the name of another |
| `ServerMonitor` | `met` the conditions the newest sample meets; `told` the last event the webhook received of a rule; `quiet` the time since a rule was announced; `lost` rules of which a message or the state was lost |

## 3. Runs

| run | question | bounds and why they are enough |
|---|---|---|
| like_pipeline | is the Redis count right, is a count the sync has not written always marked, do events alone keep MySQL and the detail cache right, and does the work end, whatever fails? | 1 comment that is still being submitted, 1 user, 2 requests at once (so an unlike can overtake its like on the way to Kafka), one of which may read the hot list and fill the detail cache instead, 2 workers (the ticker's and an admin's), 3 events, 2 attempts per event, any 1 of all failures; an outage of several attempts counts as one. Comments share nothing but the order of the log and the batch |
| like_repair (violated) | does a sync repair like_count? | 1 event is enough |
| comment_pipeline | can an unapproved comment be seen; does MySQL follow the log; do stale caches clear; does the consumer catch up? | 1 comment, 3 events (create, approve, reject, or a like among them), 1 reader, submitter or liker racing the consumer, admins who decide at any moment, 2 attempts, 2 failures of any kind, failing reads, crash, shutdown and duplicates included |
| comment_pages | does a walk show nothing twice and skip nothing that stayed approved? | 3 comments of 2 times (so ties occur and older ones come later), 2 readers who fill the cache for each other, sizes of 1 and of 2 (the default and the largest), 3 approvals and rejections |
| halo_review | one reply, only to an admitted comment; a PASS only with a reason; every comment decided and set free? | comments born approved or not, all three strategies, 1 edit by others, so two moderations race; 2 polls; any 1 failure |
| halo_timeout (violated) | does a sensitive comment pass only with the AI's consent? | 1 failure |
| halo_unmoderated (violated) | is only a moderated comment answered? | no failure |
| auto_reply | does an acknowledged change survive, does a deleted rule stay deleted, does the best rule answer, do limits and cooldown hold? | two scopes, which trade changes of the rules against replies: 2 changes around 1 reply without limits, and 3 replies of 2 authors with each limit alone at 1 (cooldown: 2 ticks) and all three together. 2 ids (so priorities tie), 2 PUTs at once, 1 failed save, days of 3 ticks with all windows, 1 midnight, 1 restart |
| word_filter | does the automaton find exactly the words, and do callers see what is promised? | 2 letters, one also in upper case, blanks and a comment line; up to 3 words out of 5 that are prefixes, suffixes and middles of one another; all texts of 5 letters; 1 request, 1 restart |
| email_quota | is a count lost or given back twice, is the limit kept, is a day begun once? | 4 requests for 1 mail a day, 2 midnights, so a request of the first day can meet the third; 1 restart |
| window_limit | does every window keep the limit? | 3 requests, limits 2 (IP) and 1 (author), window 2 of 4 ticks, 2 random values, 1 call that fails or whose answer is lost |
| monitor_alerts | is what the webhook was told right, once per cooldown, and complete in the end? | 2 rule names, 1 metric and one the engine does not know, durations of 0 and 1 sample, cooldown of 3 samples (so an alert can fire again within it), 1 change of the rules, 1 failure |

The failing calls of a run are the constant `Faults`; `MaxFaults` says how many
fail. `MaxRetry` is 3 in the code, and smaller where one attempt more adds only
states. Deadlock is not an error where the bounds (events, requests,
edits, changes) let the instance stop; in `monitor_alerts` it is.

### What the violated runs show

* `like_repair`: docs/TROUBLESHOOTING.md tells an operator to trigger a sync
  when like counts differ. The sync writes an absolute count that contains
  likes whose events are still in Kafka; the consumer adds them again.
* `halo_timeout`: the guide says AI failure means reject; the plugin's 3s
  timeout is shorter than the AI's 30s and means pass.
* `halo_unmoderated`: the guide says replies go only to moderated comments; a
  comment Halo creates approved is answered while it has no decision.

What the passing runs say of the same code is weaker, and is what it does
promise: ReplyOnlyToAdmitted and PassNeedsReason name the other ways in (a
comment approved by somebody else, a filter client that gave up), DailyLimits
counts the restarts and the requests that set the day back, SendLimit the
counts given back after midnight, NoLostMarker the calls that lose a marker,
DeltaExact and RowFollowsLog the events the consumer gives up or repeats.

Two exceptions need no failure. Of a like and an unlike of one user in two
requests the unlike may be published first; GREATEST(0, ...) then swallows it,
and MySQL counts one like too many until a sync. DeltaExact excepts the comment
of which that was published. A fill of the detail cache that read the row
before an UPDATE may be written after the consumer's SetDetail; DetailFresh
excepts the comment while such a value is under way or cached, until the entry
is written again, deleted or expires. So ApproveShows is a liveness property: a page
or a detail from before the approval may be cached after the invalidation, and
only its TTL takes it away; once no old value is under way, none comes back.
A comment that is approved and rejected again may be cached as approved for as
long: NothingUnapproved speaks of comments never approved, RejectHides of the
end.

Two requests of one millisecond with the same random number are one entry of
the sorted set (lua_scripts.go:13; Redis seeds math.random alike for every
script), so a window may admit more than its limit. WindowLimit allows for
exactly as many calls as took the name of another. It counts the calls whose
script ran in the millisecond of their stamp: one that is delayed comes after a
later call's pruning, or after the key expired, and may be one too many.

One more disagreement needs no run: blog-post.md:164 says the quota is stored
in Redis, while limiter.go:30 keeps it in process memory. That is why
DailyLimits allows one more limit per restart.

### Fairness

Liveness is checked under weak fairness of the steps the code takes by itself:
a handler that started runs to its end (net/http and gin do not stop it), the
consumer's loop never stops, the sync ticker fires
every 30s (in `LikeSync` the three are one weak fairness, `Work`: as long as
one of them has something to do, one of them does it), Redis expires keys with a TTL, server-monitor's collector ticks and its worker
takes samples and ends every webhook call (a deadline of 15s), Halo delivers its notices and
reactive pipelines run on. comment-filter's build is a loop without a wait,
and its read lock is taken under strong fairness: a sync.RWMutex lets the
readers that wait in before the next writer. No request, edit, failure or restart is fair.

## 4. Proofs

`LikeSync_proofs` proves for every set of comments, users, requests and
workers, every batch size and every bound:

* `TypeCorrect`: `Spec => []TypeOK`. TypeOK is inductive with the assumption on
  the constants; its consumer conjunct ("a consumer that is not idle has an
  event") is needed for `Current` to be an event.
* `CountCorrect`: `Spec => []CountMatchesUsers`, inductive with TypeOK. Only
  the two Lua scripts change the count; an unlike by a user who likes finds a
  set that is not empty, so the clamp at zero never acts.
* `NoMarkerIsLost`: `Spec => []NoLostMarker`, whatever fails. NoLostMarker
  alone is not inductive; the invariant adds that a worker about to write a
  count that is no longer the current one has a marker behind it. For each step
  the proof follows the marker from the request to the set, to the worker's
  batch and to the count being written; the steps that lose one put the
  comment into `lost`.
* `DetailStaysFresh`: `Spec => []DetailFresh`, with all writers of the cache
  and any failures. DetailInv says of every count a call is about to cache
  (Carries: a reader's, the consumer's, SubmitComment's) that it is the row's,
  unless an UPDATE overtook it, which makes the comment `stale`; that nobody
  caches another count than 0 before the comment has a row; and, as CreatesFirst,
  that the create events stand before all others.
* `DeltaIsExact`: `Spec => []DeltaExact`, for any number of concurrent
  requests, whatever order they publish in. BalanceInv says of a comment that
  is not skewed: its count is what the log's events add up to, and the events
  not published yet; of any set of users no more likes wait to be published
  than there are likers and waiting unlikes among them (Covered), so an unlike
  with no like of its user waiting finds a like in the log to take back; no
  prefix of the log adds up to less than zero, so the row's clamp never acts;
  its create event comes before the events that need the row; and
  until a sync the row is what the applied part of the log adds up to. Only an
  unlike that is published while a like of the same user waits, a lost or
  doubled event and a restart that repeats or cuts one skew a comment.

`CommentPipeline_proofs`, for all comments, requests, readers and failures:

* `TypeCorrect`: `Spec => []TypeOK`.
* `NothingUnapprovedHolds`: `Spec => []NothingUnapproved`. The invariant adds
  what the consumer carries: as long as no approval of a comment is in the log,
  it is not approved in MySQL, in a cache, in what a reader has yet to cache, and
  in what the consumer's SetDetail is about to write. From that the totals
  follow: the cached count, a cached page's total and a request's are at most
  the number of comments an admin approved.
* `RowFollowsLogHolds`: `Spec => []RowFollowsLog`. The invariant is that a row's
  status is that of some prefix of the log, no shorter than what the consumer
  is done with. A crash takes the consumer back and not the row, so the row may
  be ahead; a redelivered event sets it back, but never behind the consumer. It
  needs that a comment's create event stands before all its others (Ordered).

`CommentPages_proofs`, for all comments, times, sizes, readers and any
deletion of cached pages:

* `CursorsAreRowsHolds` (every cursor is the position of the last comment the
  page or walk has shown, and what is shown has a row), `NothingComesTwice` (`Spec => []NothingTwice`) and
  `NothingIsSkipped` (`Spec => []NothingSkipped`) from one invariant: every
  page, cached or in a reader's hand, shows what lies between its cursor and
  its next_cursor, all of it that has been approved since; and a walk has shown
  all of it up to its cursor. PageOf proves it of Query's LIMIT n + 1 for every
  finite set of rows, by the least-number principle (a page that is cut off has
  a last comment). That the page size is not in the cache's key does no harm
  because the invariant never mentions it.

`HaloReview_proofs`, for every bound and all strategies:

* `TypeCorrect`, `OnlyAdmittedAnswered`, `PassHasReason`: ReplyOnlyToAdmitted
  and PassNeedsReason for any failures.
* `OneReplyHolds`: `Spec => []OneReply` for at most one failed call. With two,
  two failed listings in a row let a second reply follow. The invariant is
  that one pipeline runs at a time (processingComments), that it is about to
  create a reply only while there is none, and that after a reply only a failed
  listing brings a pipeline to the second check.

`AutoReply_proofs` proves of the rule store, for all ids, rules, patches, clocks
and bounds:

* `TypeCorrect`: `Spec => []TypeOK`. PatchedBody says that a PUT's fields make a
  rule of a rule; it rests on the assumption that each field has its type.
* `AcknowledgedKept`: `Spec => []Acknowledged`. With TypeOK it is inductive:
  every change goes through Saved, which changes what is stored under one id,
  and either writes the whole list or leaves the file as it was
  (SavedAcknowledged).
* `DeletionKept`: `Spec => DeletedStaysDeleted`, an action property, from the
  same invariant: an id promised to be deleted is in neither memory nor file,
  so neither Update nor Restart can bring it back.
* `BestRuleHolds`: `Spec => []BestRule`. Sorted is a choice among all
  enumerations of the enabled rules, so the proof first shows that one in order
  exists: the place of a rule is one more than the number of those that come
  before it, and an injection of a finite set into the numbers up to its size
  meets each of them. FirstMatch then has no better rule that matches, and
  WindowOpen's comparison of minutes is the promised one, over midnight too.

and of the limiter, for any limits, requests, authors and lengths of a day:

* `LimiterTypeCorrect`; `LimitsHold`: the calls of a day, and each author's, are
  at most one limit for each time the day's counters were cleared, and those are
  counted by the restarts and the stale requests; `CooldownHolds`: between two
  clearings an author's calls are a cooldown apart, whatever the order of the
  stamps, because the last stamp kept is one of a call and a stamp before it is
  refused. (A cooldown of 0 switches the check off.)

`ServiceImplementsRules` and `ServiceImplementsLimiter` are refinements: each
step of the service is a step of the rule store and of the limiter, or a
stutter. What is proved of the parts follows for the whole: `ServiceKeepsRules`,
`ServiceKeepsDeletions`, `ServiceRepliesBest`, `ServiceKeepsLimits`,
`ServiceKeepsCooldown`.

`WordFilter_proofs`, for any alphabet, words file, words and texts:

* A node of the trie is a string, so a fail link is right when it leads to the
  longest proper suffix of its node that is a node (Linked, OfLongest).
  FollowRight: the function by which the code follows fail links has one
  solution only, the longest node that is a suffix of what was read; this is
  where an induction over the length of the node would stand, and the
  least-number principle stands for it. StatesRight and FindAllRight say the
  same of a whole text and of the words found in it.
* `EveryWordFound`: `Spec => []FindsAll`. The build is one edge of the trie per
  step, in any order. Its invariant is Linking, with a set `done` of the nodes
  that have their fail link and their outputs: `done` is closed under prefixes,
  the queue holds nodes of two lengths that follow each other, in order, and
  whatever is not done hangs below the queue. So all shorter nodes are done when
  an edge is linked (LevelDone), and a link reads only shorter nodes (LinkRight,
  BuildEdgeRight, BuildNodeRight). Whatever order a map gives, the
  queue gets every child (OrdersAll), so an empty queue leaves nothing undone
  (LinkedComplete).
* `TypeCorrect`: `Spec => []TypeOK`, from the same invariant.
* `FilterImplementsPromise`: the initial states and every step map to those of
  FilterPromise or to a stutter. A comment is judged at the step that matches
  it; the words in force are those of the automaton in use, which differ from
  the store's only while a build runs, by one word or by all of the file. That
  every call is answered is left to TLC.

`Limits_proofs` holds the two limits that count requests. For the sliding
window, with any keys, limits, windows, requests and failures:

* `TypeCorrect`: `Spec => []TypeOK`, with the bound on each sorted set.
* `WindowLimitHolds`: `Spec => []WindowLimit`. A window in the past never
  changes, so the invariant adds what the windows that are not over need. No
  stamp is ahead of the clock (StampsPast); a key expires no later than one
  window from now (ExpiresSoon), and not before its youngest prompt call has
  left the window (CallsLive); so for every start of such a window the prompt
  calls after it are at most the entries after it, and one more for each entry
  that took another's name (CallsEntered).
* `DeniedRight`: `Spec => DeniedOnlyWhenFull`, an action property. The entries
  after any time are at most the admitted calls after it (EntriesCalled). A
  request asks for one key again only when an answer was lost, and the number of
  that failure tells its tries apart (NotYet).

For the mail quota, with any limit, requests, midnights and restarts
(the specification is `MailSpec`, of names that do not meet the window's):

* `MailTypeCorrect`: `MailSpec => []MailTypeOK`.
* `CountIsExact`: CountExact, and `LimitKept`: SendLimit, which needs it, because
  what a request sees when it counts itself bounds those let through only if the
  counter holds every one of them.
* `DayBegunOnce`: BegunOnce, from an invariant by which only days up to the
  counter's are begun, and a request whose swap would succeed brings another
  day than the counter's.

`ServerMonitor_proofs`, for any names, rules, samples, failures and cooldowns:

* `TypeCorrect`: `Spec => []TypeOK`.
* `ToldRightHolds`: `Spec => []ToldRight`. An event still to be sent says what
  its rule's state says (EventsRight), the worker evaluates a sample only when
  nothing is left to send, and a name without a rule has no state.
* `AnnouncedOnce`: `Spec => AnnouncedOncePerCooldown`, an action property, from
  the same invariant: the cooldown the engine keeps is the time since the
  webhook was told, but for rules of which something was lost (CooldownRight).

The assumptions are those of the modules (`LikeSyncAssumption`,
`PagesAssumption`, ...): bounds are numbers, sets that are counted are finite,
and `None` is not a value. TLC evaluates them in every run. No theorem module
reaches a RECURSIVE operator. `WordFilter` assumes of strings.ToLower that it
changes nothing twice, that only a blank becomes a blank and that `#` stays
itself, and of the words file that it is finite.

Only model-checked: every liveness property (Drains, RejectHides,
ApproveShows, CatchesUp, Moderated, Released, StayingAlertIsAnnounced,
GoneAlertIsResolved, and of Implements that every call is answered), which with
ENABLED is out of the prover's reach. Induction over data is too; where a proof
needs it (Follow, the build of the automaton, the order of the rules), it takes
the smallest number for which the claim would fail.

## 5. Not modelled, and the plan

Abstracted: message texts, like_count in CommentPipeline (it is LikeSync's
subject), comment content in Halo, deletion of comments, the
time a call takes. The consumer group is assumed to exist (its StartOffset is
the end of the log, so events before its first start are never read). Halo's
restart, which re-adds comments, and a second instance of a service are not
modelled.

ServerMonitor leaves out the buffer of samples and the endpoints that read it.
RuleStore leaves out the delay, and the texts of templates but for the one that
cannot be rendered.

Observed while modelling, and promised otherwise by no document: of two
concurrent PUTs of one rule the later overwrites the other's fields; a rule
whose save failed stays in memory, is made permanent by the next save, and is
gone after a restart otherwise; an alert rule that is removed while it fires is
never resolved for the webhook; an alert that was held back by the cooldown is
still reported as resolved; a webhook event that fails three times is not
repeated.

A trigger of the reply listener that arrives between a pipeline's last poll
and the moment it sets the comment free is dropped
(CommentReplyListener.java:100), and nothing repeats it: `HaloReview` has the
step, but no document promises an answer, so no property forbids it.

Not modelled:

* plugin-stats-dashboard: its page is built from snapshots written one after
  the other, and its counters tolerate what is lost; no test or document says
  what must hold between them.
* NewUserNotificationPreferenceInitializer keeps no state; what happens when
  two of its runs meet is decided by Halo's refusal of a second object of one
  name.
* the shard of a post (CRC-32 modulo the count) is a pure function, so every
  instance has one post in one shard.
* configuration parsing, metrics, health probes, deployment and validation
  scripts: no state the rest depends on, or pure I/O.

What remains to be done: the dashboard page, once it is said what it promises.
