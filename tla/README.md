# LightBlog in TLA+

A formal model of LightBlog (`src/`): a blog server in C++ that answers over
HTTP from an SQLite file, with a cache of rendered pages and a map of login
sessions in memory. The directory holds TLA+ modules translated from the
source, TLC configurations that check them on small instances, and theorems
proved with TLAPS for every instance.

How to run: `tlc -config PageCacheOneThread.cfg MCPageCache` (any run of the
table in section 3), `tlapm PageCacheProofs.tla`.

## 1. Inventory

### Who runs what

`main.cpp` creates one `HttpServer` and one `BlogSystem`, both global, and
starts `THREADS` threads (default 1) in one `io_service`. Request handlers
(`BlogPages::*`, `main.cpp:33-252`) run on those threads, to the end, without
waiting. Four of them start a detached `std::thread` instead: `/change`,
`GET /login`, `POST /login` and `/reload` run on a thread of their own. So even
with `THREADS` = 1 there are several threads at work in `BlogSystem`.

They share, with no mutex and no atomic anywhere in `src/src/blog.cpp`:

| state | declared | written by |
|---|---|---|
| `cache`: page key -> gzip page | `blog.h:203` | `get_posts`, `get_this_post`, `create_post`, `update_post`, `delete_post`, `/reload`, and any `cache[key]` of a key that has gone |
| `sessions`: cookie -> username | `blog.h:204` | `is_logged_in` (sweep, eviction), `loggout`, `create_session`, and any `sessions[cookie]` of a cookie that has gone |
| `past`: time of the last sweep or login | `blog.h:205` | `is_logged_in`, `create_session` |
| `posts`, `users`: tables | `blog.cpp:23-37` | `create_post`, `update_post`, `delete_post`; `change_user_details` |

Every handler opens its own SQLite connection, and no two statements are in
one transaction.

### Components

| component | source | state | hard behaviour | correct when | modules |
|---|---|---|---|---|---|
| Posts and page cache | `blog.cpp` 413-480, 742-815, 874-1034; `main.cpp` 182-251 | `posts`, AUTOINCREMENT, `cache` | three to four unsynchronised accesses per handler, statements that throw, `operator[]` inserting, 32-bit page arithmetic | the cache shows what the database would; addresses are unique; deleted posts stay deleted; every request is answered; no post is missed by who asks for page after page | `PageCache`, `PageCacheRaces`, `Paging`, `Site` |
| Users and sessions | `blog.cpp` 67-108, 132-152, 300-319, 341-359, 532-571, 1036-1232 | `users`, `sessions`, `past` | sweeps, renames and logouts during a request; check-then-update; errors returned as text; a random source that fails | requests go on only under a logged-in name; one session per user; passwords change on request; usernames unique | `Sessions`, `SessionsHistory`, `SessionsForms` |
| HTTP connections | `server_http.h` | socket, timer, request buffer, response | a timer that fires as its operation completes; the response sent by a destructor; pipelined bytes | answers whole, once, in order; each connection ends, for a cause | `HttpConnection`, `HttpExchange` |
| Static files | `main.cpp:20-136` | `ifstream`, buffer | an asynchronous loop holding response and file | the whole file, once | `HttpConnection`, `Routes` |
| Routing | `main.cpp:278-306`, `server_http.h:141,176,321-341` | compiled patterns per method | overlapping patterns in an unordered map | a link reaches its post | `Routes`, `Site` |
| URL and form decoding | `blog.h:122-196`, `blog.cpp:208-228, 852-872` | none | order of splitting and decoding, several titles with one encoding | what is typed is what is stored | `UrlCodec`, `Site` |
| BBCode | `bbcode/*.cpp` | lexer state and buffer, tag stack, text so far | overlapping tags, positions that move, state left over | text kept, HTML nested, right addresses | `BBLexer`, `BBParser`, `BBCode` |
| scrypt | `scrypt/*.cpp` | contexts, tables, buffers | block and buffer limits, shared contexts, exchanged halves, spare bits | the standards' functions; what was stored verifies, and nothing else | `Sha256`, `Sha256Stream`, `Pbkdf2`, `Salsa20`, `Scrypt`, `Base64`, `PasswordHash` |
| sqlite_modern_cpp | `sqlite_modern_cpp.h` | prepared statement | execution by destructor, errors in the middle of a select | a statement runs as often as asked, or its caller is told | `Statement` |
| Front end | `web/js/essentials.js`, `web/view`, `web/index` | browser page | addresses agreed between two languages | the script asks for what the reader opened | `Site` (requests only) |
| Schema and startup | `blog.cpp:15-50`, `sql/sql.db` | tables | a shipped file older than the code | the statements fit the tables | not modelled |
| HTTPS | `server_https.h` | | never instantiated | | not modelled |
| SQLite, Boost | external | | | taken as given | in the modules that call them |

### How they interact

- A request comes in over a connection (`HttpConnection`), is given to a
  function by the table of patterns (`Routes`), which decodes it (`UrlCodec`).
- A view reads `cache`, then `sessions` (through `is_logged_in`), then the
  tables, and writes `cache`. The page holds the posts' BBCode as HTML (`BBCode`).
- A mutation reads `sessions`, checks and writes `posts` in separate
  statements (`Statement`), then clears `cache`. `create_post` also reads `users`.
- `/change` writes `users` and leaves `sessions` as it is, although sessions
  refer to users by name. It and the login hash with `PasswordHash`.
- `/reload` clears `cache` from another thread than the one that fills it.

## 2. Modules

Composition, top to bottom:

```
PageCache <- PageCacheRaces                    posts and cache, per statement
Sessions <- SessionsHistory <- SessionsForms   users and sessions, per access
Site -> Paging, Routes -> UrlCodec             end to end, a handler per step
HttpConnection => HttpExchange                 one connection; refinement
BBCode -> BBLexer, BBParser                    one post through the library
MCLibraries -> Sha256 (-> Words), Sha256Stream, Pbkdf2,
               Scrypt (-> Salsa20 -> Words), Base64, Vectors
            <- Libraries -> Statement, PasswordHash
```

`MC*` are the instances for TLC, `*Proofs` the theorems, and `SequenceFacts` lemmas they share.

The same program is seen at three grains. `PageCache` and `Sessions` take one
SQL statement or one access to a shared map or to `past` as a step; what lies
between two such accesses is local to its thread. `Site` takes a whole handler
as a step and shows what requests mean, relying on the other two for what
happens between statements. `Statement` looks inside a statement. `HttpConnection`
takes a completion handler or an event of the network as a step.

An access to a shared map is taken as indivisible: an unlocked `std::map` may
do worse than any interleaving of whole accesses, and what a corrupted tree
does is outside the model. Results hold for executions in which no two accesses
to one map coincide in time.

### PageCache

| action | code |
|---|---|
| `Lookup` | `cache.find(key) == end() \|\| is_logged_in(request)` in the three view handlers; whether a session exists is left open, so both branches are possible when the page is cached |
| `Serve` | `send_page_encoded(…, cache[key])`, which inserts `""` (`Blank`) when the key has gone |
| `ViewCount`, `Erase` | the first count of `get_posts` and `get_this_post`, and the early return with `cache.erase` |
| `ViewRows`, `ViewNav`, `Fill` | the SELECT of the rows, the second count and the Back and Next buttons, the store into the cache |
| `Admit`, `Refuse` | `is_logged_in` and the tests for empty fields |
| `CheckExists`, `CheckSlug` | the two counts of `update_post`, the counts of `create_post` and `delete_post` |
| `Insert`, `AuthorsDone` | the insert and `cache.clear()` inside the callback over the author's row, and the end of that select, whether the callback ran or not |
| `Update`, `Delete`, `Flush` | the write, then `cache.clear()` |
| `Conflict`, `Reject` | a write that the UNIQUE column, or the end of AUTOINCREMENT, refuses |
| `DbError` | any statement throwing for reasons of its own (a lock held by another connection); the handlers catch and answer |
| `ReloadStart`, `ReloadClear` | `/reload` |
| `Respond` | the last reference to the response goes and it is sent |

Data kept: ids (given out in order and never again), slugs (the `postid`
column), one text per post, pages as the set of rows shown with their buttons.
A page with its rows in `id DESC` order is determined by that set. Data left
out: the controls added after the store for a logged-in reader, BBCode,
compression, dates.

The `posts` table starts empty. `find_post` touches neither the cache nor a
table; it is in `Site`. A creation goes through `Insert` and `Flush` and back to the
select of its author, which may still fail: the reply is then `{server_error}` with
the row in the table. Two authors with one username would make `create_post`
insert twice; usernames are `Sessions`' subject.

### Sessions

| action | code |
|---|---|
| `Enter`, `Stamp`, `Sweep` | `is_logged_in`: the expiry test, `past = now`, `sessions.clear()` |
| `Find`, `Who`, `Verify` | `sessions.find(cookie)`, `sessions[cookie]`, `get_user_id` |
| `EvictWho`, `Evict` | the user is not there: `loggout(sessions[cookie])` |
| `OutWho`, `Out` | `process_logout_get` |
| `Author` | the author argument of `create_post` and `update_post` |
| `Original` … `UpdateUser`, `ChangeFails` | `change_user_details`, with `get_user_info` as `OldCount` and `OldPass`, `hash_password` as `Hash` |
| `Login`, `LoginCount`, `LoginCheck` | `process_login` and the salt of `create_session` |
| `Drop`, `Restamp`, `Store` | the rest of `create_session` |
| `Tick` | time |

`visit` stands for every handler that asks `is_logged_in` and then leaves users
and sessions alone (views, `/reload`, `GET /login`, deletion); a handler that
asks twice (a view adding its controls) is two visits. `loggout` removes the
first match in the order of the cookies' characters; they are random, so any
match. A browser presents a cookie only after the answer that sets it has left
(`Presented`). Hashes are the password they were made from; `Error` is what
`get_user_info` returns when it fails and `Junk` what an uninitialised buffer
holds. `hash_password` leaves its buffer so when it has no salt, or
`libscrypt_scrypt` or one of the encoders fails (`HashFails`), and its caller does not
ask. A cookie is made of a salt of its own, which may fail too (`SaltFails`). Of several
rows of one username the last one decides a login, and no order is
asked for, so any of them may. Accounts are never added or removed by the program. `SessionsForms`
adds which forms another one has overtaken since they were let in.

### Paging, UrlCodec, Routes, Site

| action | code |
|---|---|
| `Submit` | a form of the page leaves the browser: its fields as jQuery or the browser encodes them, its address, the cookies |
| `Process` | the request arrives: the table of patterns, `get_post_data`, `uri_decode`, `get_session_cookie`, then `create_post`, `update_post` or `delete_post` |
| `Acknowledge` | the author has the reply |
| `TurnPages` | a client of the interface: `/api/home`, the page beside the one it has, as long as that came with a button (`Continue`), or any page (`Jump`), all through `get_posts` |
| `Press` | Back or Next: the document `/index/N`, its script if it is found (`Beside`), and what `loadPosts` asks for |
| `Click`, `Ask` | the link of a post on a page, which may be old; the script of its document, or a client that knows the interface, asks for the post |
| `Search` | the search box and `find_post` |
| `Leave` | the reader goes elsewhere |

A text is a sequence of characters: those that an encoder, a decoder or a
pattern treats apart are themselves (a blank is `sp`), a run of letters is one. `Product` wraps
around beyond `MaxInt` as the `int` of `page * 10` does. The quotient and the
buttons after an overflow are undefined in C++, so any branch (`Branches`).
The order of an `unordered_map` is a parameter (`ahead`): which of the words
that `^/REGEXSEARCH$` also matches come before it.

### HttpConnection and HttpExchange

| action | code |
|---|---|
| `Accept` | the accept handler, `read_request_and_content` |
| `HeadRead`, `ContentRead` | the handlers of `async_read_until` and `async_read`, through `find_resource` and `write_response` to the end of the resource function |
| `ThreadAnswers` | a detached thread has written its answer and lets go of it |
| `NextChunk` | the callback of `default_resource_send` |
| `Written`, `Failed` | the handler the deleter of the response gives to `send`: keep alive or close |
| `ReceiveHead`, `ReceiveContent`, `Transmit`, `Transmitted`, `Abort`, `Hangup` | what Boost.Asio and the peer do with the operation under way |
| `Expire`, `Timeout` | a timer runs out; its handler shuts the socket, also when `timer->cancel()` came too late (`late`) |
| `Send` | the client sends a token |

Connections share nothing but the `io_service`, so the module is one connection
with any client. A head is two tokens, the second of which ends it.
The callback of `default_resource_send` captures its parameter `server` by reference
and uses it when the function has returned (`main.cpp:27`). That is undefined; in the
builds `NextChunk` follows, the sending goes on, as `send` (`server_http.h:193`) is not
virtual and uses no member of the object it is called on.
`HttpExchange` is what a client is promised: answers to a growing choice of
its requests, each sent whole before the next begins, nothing after the socket
is shut. The refinement mapping takes as still to come of an answer what is in
the buffer and, if the callback reads on, the unread rest of the file.

### BBLexer, BBParser, BBCode

`BBLexer` is `get_lexeme` with its state table and its buffer; `BBParser` is
`parse` with its table of some two hundred rows, the stack of tags and the
replacement of a pair as soon as its closing tag is there; `BBCode` alternates
them as `BBLib` does. A character is one of the classes the lexer tells
apart; the text parsed so far is a sequence of items, a lexeme or one HTML tag
with the lexemes it was put in place of, so that positions move as in the code
but are counted in items. A tag also has, in `from`, the number of the lexeme it
began with, which the code does not keep. With it `InPlace` tells whether a tag
is still at the position noted for it. When it is not, `erase` takes
other text or throws, depending on the lengths of the HTML in front: the
model stops there (`lost`).

### The libraries

| module | models |
|---|---|
| `Statement` | `database_binder`: prepare, bind, execute, the two kinds of `>>`, the destructor while an exception may be on its way; with any numbers of rows, or as a count, which has one (`single`) |
| `Sha256` | `SHA256_Transform`, a round a step, on real words (`Words`: a word is the set of its bits) |
| `Sha256Stream` | `Init`, `Update`, `Final`: the context and the padding, over any block size and any compression function |
| `Pbkdf2` | HMAC and PBKDF2, over a symbolic hash: a byte is the set of the names whose exclusive or it is |
| `Salsa20`, `Scrypt` | `salsa20_8` and `smix`, over symbolic and over real blocks |
| `Base64` | encoder, and decoder a character a step |
| `PasswordHash` | `hash_password`, the allocations of `libscrypt_scrypt`, the line of `libscrypt_mcf`, `libscrypt_check` |
| `Vectors` | examples of the standards |

`Libraries` instantiates the two of them theorems are about, with constants of
their own; `MCLibraries` puts all into one run: a behaviour is one call of one of them.

## 3. What the runs check

| run | instance | properties |
|---|---|---|
| `cache_one_thread` | 1 io thread, 1 reload thread, 2 slugs, 2 texts, 2 home pages, 2 posts | `TypeOK`, `Coherent`, `AnswerIsCurrent`, `SuccessTookEffect`, `EditMovesPost`, `Answered` |
| `cache_races` | 2 io threads, 2 slugs, 2 texts, 1 home page, 2 posts | `UniqueSlugs`, `StaleOnlyByOverlap`, `BlankOnlyBySweep`, `GoneForGood` |
| `sessions_serial` | requests one at a time, 2 accounts, 3 names, 2 passwords, 2 logins; statements may fail, and so may the making of a cookie | `TypeOK`, `UniqueUsernames`, `OneSessionPerUser`, `LogoutEndsSession`, `SweptAreExpired`, `SessionsLast`, `PasswordKept` |
| `sessions_concurrent` | 2 threads of any request each, 1 account, 2 names, 2 passwords, 1 login, statements and `hash_password` may fail | `AuthenticatedByLogin`, `LostByOverlapOnly` |
| `http` | 2 patient clients and one that pipelines, 3 or 4 requests each, of every kind | `TypeOK`, `OwnContent`, `AnswersWholeInOrder`, `EndsForCause`, `NoneForgotten` |
| `bbcode` | posts of up to 4 characters, formatting tags, or links | `WordsWhole`, `TagsReplacedOnly`, `WellNested`, `FormattingAsWritten`, `OwnAddress`, `AllConverted` |
| `libraries` | one call of each, see below | `StatementsRun`, `FailuresTold`, `DigestIsStandard`, `KeyIsStandard`, `MixIsStandard`, `Base64Exact`, `OnlyOwnPassword` |
| `site` | up to 5 posts, 2 to a page; titles and searches of up to 2 characters of every class; both orders of the patterns | `CarriedAsTyped`, `LinkLeadsToPost`, `NothingMissed` |
| `username_race`, `empty_password`, `own_account`, `site_links` | expected to fail, see section 4 | `UniqueUsernames`, `PasswordChangesOnRequest`, `OwnAccountOnly`, `PostsShown` |

Posts and the cache:

- With the default single io thread, the cache never offers a page that the
  database would not give, but for entries that a reload blanked and for the
  instant between a write and its clear, and no answer mixes two states of the
  table. The order "write, then clear" is what this needs.
- With more threads the same does not hold, and `StaleOnlyByOverlap` says
  exactly which overlap breaks it: a view that a write overtakes between its
  first SELECT and its store. Nothing else makes a page stale. A blank page
  arises only when the entry was removed after `cache.find` saw it, so it can
  happen with a single io thread and a reload.
- However many handlers found a title free, addresses stay unique, because of
  the UNIQUE column; an edit that lost its post to a deletion does not bring it
  back. No edit keeps its title (`EditMovesPost`): the title count includes
  the post. Every request is answered, whatever throws.
- A client that asks for `/api/home`, `/api/home/1` and so on, until a page comes
  without Next, has been given every post there was at the start, whatever is posted
  and edited meanwhile; a deletion may pull one past it. (A reader cannot do so with
  the buttons: section 4, finding 4.) `page * 10` overflows only for page numbers not
  reached in this way; the page is then of rows from wherever it wraps to, and nothing
  is claimed of it.

Sessions:

- Whatever the interleaving, a request goes on as logged in only under the name
  its cookie was obtained with; the blank entries `sessions[cookie]` leaves let
  nobody in.
- One at a time, whatever fails, a user has one session, a logout ends the one it was
  sent with, and the sweep removes nothing younger than `SESSIONEXPIRETIME`. A session
  ends by the sweep, its own logout, a later login of its user, or a request made with
  it whose user is not found any more; where statements fail, also when that user
  could not be looked up, and where the random source fails, the session stored under the
  empty cookie passes to whoever logs in next. Where `hash_password`
  works, a stored hash changes only to the new password's or, if a statement fails, to the
  text of that failure. Under threads two logins of
  one user leave two sessions, and a sweep may catch a session stored after the
  clock was set; these are stated for one request at a time because that is
  when they are true.
- Under threads, a form that leaves the password empty replaces a hash only
  after another form has changed the table since it was let in.

Connections:

- `AnswersWholeInOrder` is the refinement of `HttpExchange`: however a file
  falls into chunks, whichever thread answers, whatever times out, early or
  late, the client receives answers whole, once and in order, or the
  connection is shut.
- The resource function of a request finds its own content; nothing else if the
  client waits. A client that pipelines may find the next request's bytes
  there, and its connection may end for want of a whole head (`EndsForCause` is
  about clients that wait).
- Every connection ends, whatever its client leaves undone (`NoneForgotten`).

BBCode: the lexer's buffer never cuts a word in two; the parser changes tags and
nothing else (less the few words the lexer drops at the end of a post); its
HTML is nested whatever was written, as long as the tags replaced are at their
positions (see section 4 for when they are not); without links they always are,
and HTML stands where a tag of that name was written; links have the address
between their own tags; well nested tags are all converted.

Libraries: a statement runs to its end exactly as often as asked, with its own
parameters, or the handler is sent an exception, and who takes the value of a count has
it and is told of every execution that failed; SHA-256, PBKDF2 and smix are the standards'
functions; the base64 decoder takes exactly the encodings; a password passes
against a line if and only if the line was made of it. Together these say that
`POST /login` accepts the password that was set and no other, up to collisions.

From form to table and from link to post: what was typed is stored and found,
character by character, for every escape and every neighbour cookie; and
`/api/view/` with the address on a page answers with that post, while it is
unchanged, or with nothing.

### Bounds

- `MaxId` (2; 5 in `site`): AUTOINCREMENT ends there, as SQLite's does at its
  maximum (`SQLITE_FULL`, `Conflict` in the model). Two posts with `PageSize`
  1, and five with 2, give a full page, a last page and a page beyond the last.
- `Pages` {0, 1}: page 0 is the only one the code treats apart. In the races
  run one home page is enough to share a key between two threads.
- `MaxInt` (15), `MaxPage` (9): the least numbers with which `page * PageSize`
  overflows for a page that may be asked for (8), to a negative offset.
- `Slugs`, `Texts`: two of each, one to keep and one to change to.
- `Cookies` (2; 1 under threads): each login uses one; two are needed to
  replace a session and no property relates three. With one cookie the two
  threads still race each other's sweep, eviction and logout against it.
- `Expire` (1 or 2): the age of `past` counts up to it and stops.
- Threads: two suffice for every race named above, each being between one
  handler and one other; two threads run any number of requests each.
- `ChunkSize` (2): files of 1, 2 and 3 tokens are shorter than the buffer, of
  its length, and of a buffer and a rest. Bodies of 0 to 2 arrive with the head
  or after it.
- BBCode: two overlapping pairs, or a pair in a pair, are four tags; the read
  buffer holds 2, 3 or 4 characters, so words and blanks cross its end.
- Libraries: `Sha256Stream` with blocks of 4 bytes and words of 64 (bits carry
  between the two words of count), up to 40 bytes in pieces of 0 to 9;
  `Pbkdf2` with blocks of 3 and hashes of 2 bytes, keys below, at and above
  the block, up to 3 rounds and 5 bytes; smix with N 2 and 4, r 1 to 3, every
  order of reading; base64 of up to 6 characters into 1 to 4 bytes; a line of
  8-bit words and 2-bit fields. The real sizes run on the standards'
  examples.
- `PasswordHashAssumption` leaves out the greatest power of two of the width, for which
  see section 4; `hash_password` itself is only ever called with 16384.
- Symmetry is used over names, passwords, cookies, accounts, slugs, texts and
  threads of one kind, in runs with no liveness property.

`CHECK_DEADLOCK` is FALSE where the system does come to an end: a connection
that is shut, a post that has been parsed, a call that has returned.

### Fairness

- `Answered`: weak fairness of `Work(t)`, the steps of a request that has been
  taken. Handlers hold no lock and wait for nobody, so a thread with a request
  in hand goes on as soon as the operating system lets it. Nobody must ask
  anything, and nothing must fail: `DbError` is not part of `Work`, so no
  request depends on a failing statement for its answer.
- `NoneForgotten`: weak fairness of `Handler` (the `io_service` runs a handler
  that is queued, a detached thread ends), of `Service` (bytes that have arrived
  are read, bytes are sent while the peer takes them or the write fails) and
  of `Expire` (time passes). `Send` and `Hangup` have none: the client may stop
  at any point.

## 4. Findings

With a run that shows them:

1. `UniqueUsernames` fails with two `/change` forms at once
   (`blog.cpp:1105`): count and update are separate statements, and the column
   is not UNIQUE. Both accounts are then locked out, as each login requires a
   count of exactly 1.
2. `PasswordChangesOnRequest` fails when a statement throws in `get_user_info`
   (`blog.cpp:1127`): its text "database server failure" is stored as the hash.
3. `OwnAccountOnly` fails when an account takes over the name another one gave up
   (`blog.cpp:1102`): the old session resolves to the new bearer of the name.
4. `PostsShown` fails for every link (`essentials.js:200`): a post's link is
   `/postid`, and the script of its document asks for the fifth part of the
   address where the postid is the fourth. It fails for every button too
   (`essentials.js:100`; with `Runs` = {`Pressing`} TLC finds that instead): Next links to
   `/index/N` (`blog.cpp:459`), whose document loads its script from `js/`, that is
   `/index/js/`, where there is none, so no posts are shown; with its script it would
   ask for `/api/home` in any case.

Met while modelling, without a run of their own; the models follow the code:

- `timer->cancel()` does not recall an expiry that is queued already, so a
  request that was read in time may lose its connection (`server_http.h:250`);
  `late` in `HttpConnection`.
- The error of the first `sqlite3_step` of a single-value select is dropped: the second
  starts the statement again (`sqlite_modern_cpp.h:158`). A count, the only value
  LightBlog takes so, has a row, which is then one too many (`more_rows`), so
  that its caller is told after all; of a statement that may have no row he is not, and
  his variable keeps its old value.
- `create_post` inserts while its select of the author runs (`blog.cpp:906`): if that
  select fails afterwards, the reply is `{server_error}` though the post is there.
- `default_resource_send` uses its parameter `server` by reference after it has returned
  (`main.cpp:27`), see section 2.
- On libstdc++'s order `^/REGEXSEARCH$` comes before `/login`, `/logout`,
  `/reload` and `/index`, which are then answered with `web/view`.
- A search for `.`, `!`, `~`, `*`, `'`, `(` or `)` matches no pattern, as
  `encodeURIComponent` leaves these and `REGEXSEARCH` lacks them. A title of
  characters that `title_encode` drops has the address `/`.
- BBCode (`bbcode_parser.cpp`): state that outlives its tag. A slash in the text
  of a link leaves `_tmp_tag.type` at `closing`, so that a following `[hr]` is
  replaced by nothing, `[*]` by `</li>`, and `[url]` is taken for `[/url]`. A
  blank at the end of a link's text, or in `[url ]`, has a tag recorded a second
  time, from position 0. Text left behind by an unclosed `[email]` or `[list]`
  joins the next address. `[color ]` becomes `offtopic` and `[black ]` `white`;
  `[code ` is replaced with no `]`.
- BBCode: the `[` that ends a link's text is noted before the link in
  front of it is replaced (`bbcode_parser.cpp:212`, `:748`), so the next tag
  has a stale position. `erase` then takes whatever is there or throws
  `out_of_range`; where the HTML happens to be as long as the tag (`[b]`,
  `<b>`) it is even right. This is where `lost` stops the model.
  `FormattingAsWritten` is stated without links and `OwnAddress` without the
  cases above.
- The shipped `sql/sql.db` has a `posts` table without the column `postid`;
  `create table if not exists` (`blog.cpp:30`) leaves it so, and every
  statement that names `postid` throws on it.
- For N = 2^31 `libscrypt_mcf` writes a line (`crypto-mcf.cpp:27`) that
  `libscrypt_check` refuses (`crypto_scrypt-check.cpp:69`).

## 5. Proofs

For any sets of threads, slugs, texts, pages, accounts, names, passwords and
cookies, any page size, any limit on ids, any expiry time, any forms and any order of
the patterns, any clients, requests, files and chunk sizes, any posts, any statements and
any passwords to hash:

| theorem | module | states | assumes besides the named ASSUMEs |
|---|---|---|---|
| `TypeCorrect` | `PageCacheProofs` | `Spec => []TypeOK` | |
| `AddressesUnique` | `PageCacheProofs` | `Spec => []UniqueSlugs` | |
| `DeletedForGood` | `PageCacheProofs` | `Spec => GoneForGood` | |
| `CacheCoherence` | `PageCacheProofs` | `Spec => []Coherent` | `OneIo`, `NoClash` |
| `CurrentAnswers` | `PageCacheProofs` | `Spec => []AnswerIsCurrent` | `OneIo`, `NoClash` |
| `SuccessIsTrue` | `PageCacheProofs` | `Spec => []SuccessTookEffect` | `OneIo` |
| `EditsMove` | `PageCacheProofs` | `Spec => EditMovesPost` | `OneIo` |
| `StaleByOverlapOnly` | `PageCacheProofs` | `RacesSpec => []StaleOnlyByOverlap` | `NoClash` |
| `BlankBySweepOnly` | `PageCacheProofs` | `RacesSpec => BlankOnlyBySweep` | |
| `TypeCorrect` | `SessionsProofs` | `Spec => []TypeOK` | |
| `LoginRequired` | `SessionsProofs` | `HistorySpec => []AuthenticatedByLogin` | `SaltWorks` |
| `LostUpdatesNeedOverlap` | `SessionsProofs` | `FormsSpec => LostByOverlapOnly` | `SaltWorks` |
| `NamesStayUnique` | `SessionsProofs` | `Spec => []UniqueUsernames` | `OneThread` |
| `AtMostOneSession` | `SessionsProofs` | `Spec => []OneSessionPerUser` | `OneThread` |
| `LogoutIsEffective` | `SessionsProofs` | `Spec => []LogoutEndsSession` | `OneThread` |
| `SessionsEndForCause` | `SessionsProofs` | `Spec => SessionsLast` | `OneThread` |
| `PasswordsKept` | `SessionsProofs` | `Spec => PasswordKept` | `OneThread`, `HashWorks` |
| `SweepsOnlyExpired` | `SessionsProofs` | `HistorySpec => SweptAreExpired` | `OneThread` |
| `TypeCorrect` | `HttpProofs` | `Spec => []TypeOK` | |
| `ContentIsOwn` | `HttpProofs` | `Spec => []OwnContent` | |
| `EndsForCauseOnly` | `HttpProofs` | `Spec => EndsForCause` | |
| `ExchangeImplemented` | `HttpProofs` | `Spec => AnswersWholeInOrder` | |
| `TagsOnly` | `BBCodeProofs` | `Spec => []TagsReplacedOnly` | |
| `WordsStayWhole` | `BBCodeProofs` | `Spec => []WordsWhole` | |
| `FormattingStands` | `BBCodeProofs` | `Spec => []FormattingAsWritten` | |
| `HtmlNests` | `BBCodeNestingProofs` | `Spec => []WellNested` | |
| `PagingMissesNothing` | `SiteProofs` | `Spec => []NothingMissed` | |
| `FormsAndSearches` | `SiteProofs` | `Spec => []CarriedAsTyped` | |
| `LinksLead` | `SiteProofs` | `Spec => []LinkLeadsToPost` | |
| `StatementsAlwaysRun` | `LibraryProofs` | `Statement!Spec => [](StatementsRun /\ FailuresTold)` | |
| `PasswordsTold` | `LibraryProofs` | `Hash!Spec => []OnlyOwnPassword` | |

### What is assumed

- `OneIo` is the default of the program, one io thread; `/reload` threads are any
  number. `OneThread` is one request at a time, which is when the
  properties of `Sessions` it is for are true (section 3): the run
  `username_race` shows one of them failing without it.
- `NoClash` says that no post is titled like the cache key of a home page;
  the code does not ensure it (a post titled `home0` shares the entry of the first
  home page), and the properties are false without it.
- `SaltWorks` says that `/dev/urandom` can be read when a cookie is made; without it sessions are
  stored under the empty cookie, and `AuthenticatedByLogin` is false. `HashWorks` says
  that `hash_password` does not fail: a form's new password is otherwise replaced by
  whatever the buffer holds, and `PasswordKept` is false.
- The named ASSUMEs: io threads and `/reload` threads are different threads, pages
  are numbers and a page holds at least one post, `Expire` is positive, the
  special values ("no entry", "empty string", the error texts) are none of the
  ordinary ones; accounts are finitely many (`SessionsAssumption`), which
  `count(*)` needs; a request of a client has a content of some length and a file of
  some size, and chunks are not empty (`ClientAssumption`); a post consists
  of characters and is read in pieces of at least one, and the letters that stand for
  tag names are none of the lexer's own characters (`PostAssumption`); a statement has
  some number of parameters, rows and executions (`StatementAssumption`); N is no
  power of two beyond what `libscrypt_check` reads back, r and p fit their fields,
  and the three together fit their word (`PasswordHashAssumption`; in the code `SafeN`
  is 30, the fields have 8 bits and the word 32, and `hash_password` is only called
  with N = 16384); what is typed is text, the browser sends the author's session in the
  first cookie of its name, and two ids are never printed alike nor as one of the marks
  of a form (`SiteAssumption`; the prover knows nothing of `ToString`).

### The arguments

Posts and the cache (`PageCacheProofs`):

- `TypeOK` is not inductive in either module: that the page a view stores is a
  page, or that the name written into a row is not empty, depends on the kind of
  request at each point. `Shape` says which kind that is; `TypeInv` is both.
- `AddressesUnique` is inductive over the types, and uses of the write steps only
  `Conflict`, the UNIQUE column: the counts that come before are not needed.
- `Coherent` is not inductive: that `Fill` stores a fresh page depends on what its
  thread holds. `CacheInv` adds `Snapshot`, what a thread part way through a view
  has read is still true, and `WorkersReload`, `/reload` threads never write the
  table. Under one io thread no write can come between the reads of a view,
  which is where `OneIo` enters; a write puts its own thread at "flush", the
  exception `Coherent` names, and the flush empties the cache.
- `SuccessIsTrue` and `EditsMove` need the other half of a handler, `WriteInv`: what the
  counts said still holds when the write comes (the post is there, its new title is free),
  and what was written still holds when the answer is made. Ids are unique, so
  an edit changes one row; the row it changes has another slug than the one
  the count looked for, which was taken by nobody.
- `StaleByOverlapOnly` replaces `OneIo` by the history variable `late`: `Unspoilt` is
  `Snapshot` for the threads that are not late, and a write makes late every
  thread that is reading, so `Unspoilt` survives any number of threads.
- `BlankBySweepOnly` needs `FoundOrSwept`: a thread about to serve an entry has
  seen it there, or is in `swept`.

Users and sessions (`SessionsProofs`):

- `LoginRequired` needs `Provenance`, a chain from the login to the request:
  a cookie that is out has at most one login, since `generate_salt` never gives
  the same one twice; a session carries the username of its cookie's login or the empty
  one that `operator[]` inserted; a request carries a cookie that is out already, so its
  login does not change under it; and `get_user_id`, which demands exactly
  one row, turns the empty username away, since no row can have it
  (`change_user_details` refuses an empty username).
- `LostUpdatesNeedOverlap` adds `OverlapInv`: as long as no other form has changed
  the table since a form was let in, the count and the password that form has
  read are those of its user, whose name is in the table exactly once.
- With one thread, `SerialInv` relates `users`, `sessions` and where that thread is: a
  session has a name, and no two the same, except that between "drop" and "store"
  the name logging in has none; a form has its new name for itself
  from the count to the update; a logout that has removed its session finds it
  gone. `SessionsEndForCause` adds `FreshInv`: the cookie a login is about to store has no
  session, unless it is the empty one. Usernames change while sessions keep the old ones, so "one session per
  user" must be stated and proved about names, not accounts.
- `SweepsOnlyExpired` needs `AgeInv` besides: every session is at least as old as
  the clock says, so that the clock's reaching `Expire` is enough.

Connections (`HttpProofs`):

- `ConnInv` ties the variables of a connection to the stream of tokens its client
  sends: the buffer is the part of the stream that was taken and not yet used;
  each operation under way has its timer, request and position in it; what is to
  be sent (`out`) and the unread rest of the file (`pos`, `more`) are the
  unsent end of the answer in hand.
- `ExchangeImplemented` then shows that each step maps to one of `HttpExchange` or to a
  stutter: `Start` begins an answer when the last is whole, `Transmit` sends its
  next piece, `NextChunk` moves the boundary between buffer and file and
  changes nothing the client sees, and everything that shuts the socket is one step there.
- `ContentIsOwn`: the content of a request is at the front of the buffer when its
  function is called; behind it there is nothing if the client waits, as
  it then sends no token of the next request before the answer is out.

BBCode (`BBCodeProofs`, `BBCodeNestingProofs`):

- `TagsOnly`: `ParserInv` says that the sources of the items are the lexemes
  taken. A tag is replaced by an item whose source is what `Erased` says was there, and the
  sources of a sequence cut in three and put together again are the same.
- `WordsStayWhole`: `LexerInv` says that the strings of the lexemes, followed by
  what is being collected, are the characters taken; that a word being collected
  is still a word in the state the lexer is in; and that no two words stand next
  to each other, refills included.
- `FormattingStands`: `Sound` says of a post without links that every tag on the stack
  is at its position, opening tags in ascending order; that `_tmp_tag` is where
  its state says it is, for each of the two hundred rows; and that replacing a
  pair moves no opening tag that stays on the stack.
- `HtmlNests` holds with links too, where tags may be out of place. `Nested`
  rests on three facts. What stands between two numbers of lexemes only becomes
  fewer items, so a tag that is at its position (`InPlace`) has had nothing in
  front of it replaced. Replacing a pair puts an opening and a closing tag around
  a part that closes what it opens (`Neutral`), because what was
  replaced there before were such pairs, or void tags. And the state of the parser says
  what has been read since the `[` that was noted, so that a tag recorded at
  its end is plain text between its positions (`Pending`).

`SequenceFacts` has the facts on sequences these need: folds, flattening, prefixes. The
library's induction theorems cannot be used, as they take an operator;
where a proof needs induction over the numbers it is an induction over a set of
them (`SetInduction`), and a recursive function is unfolded by way of the
function that satisfies its equation.

`PagingMissesNothing` needs `StillAhead`: a post that was there when the client
began and has not been given to it yet has at least a page's worth of newer posts
for each page it has asked for, and there is a page to go on to. Posting only adds newer
ones, an edit changes no id, and the next page shows the posts with exactly one page's
worth more. `Table` bounds the posts by the ids given out, which are
below `MaxInt`, so that none of this is reached by an overflow; the counting
itself is a lemma on finite sets.

Forms, searches and links (`SiteProofs`):

- `Decoded` is the lemma the rest stands on: a text put together from one part for each
  character, of which each is the character or its escape, is what `uri_decode`
  has it from. `UrlCodec` decodes with a fold; `DecodeIs` takes it apart into the state
  after each place, and an induction over the parts carries it from one end of a
  part to the next. What the browser and the scripts write (`ValueDecoded`,
  `SearchDecoded`) is made of such parts.
- A field is found by its key: `TwoFields` and `ThreeFields` say that `get_post_data`
  returns exactly the value that was written, because the key begins a word at one
  place only, as the values have neither `&` nor `=` left in them.
- `TextRoutes`, `FormRoutes` and `LinkDocument` say which function an address reaches for
  every order of the patterns: all that match agree on it, except those for a link whose
  address is a word of the table, which `LinkLeadsToPost` excepts.
- `FormsAndSearches` and `LinksLead` follow from one invariant, `CarriedInv`: every
  post, and every row a reader still has before him from an old page, has the address
  `title_encode` makes of its title, and no two posts the same (`OneEach`, `Texts`); a
  request under way is that of its form, whose id is still there (`Underway`);
  and what the reader was given is the answer for the address he followed.
  `Table`, of the theorem above, gives the ids their bound.

Libraries (`LibraryProofs`):

- `StatementsAlwaysRun` needs to know what the flags of `database_binder` stand for
  (`StatementInv`): while it lives and no exception is on its way, every execution asked
  for was completed, and none of a count was begun in vain; the parameters are those of
  the execution that is due or has just been; once it is gone, the destructor's own was
  added if it was due (`Asked`), and no more.
- `PasswordsTold`: `HashInv` says at each step where the passphrase, the salt, the
  parameters and the derived key are: what `libscrypt_check` takes out of
  the line is what was hashed with, as N = 2^k with k at most `SafeN`, and shifts and
  masks take apart what others of them put together. Powers of two are counted as sets
  of subsets, for want of induction; the hash itself is a record of its arguments.

TLC checked `CacheInv`, `SessionsInv`, `OverlapInv`, `SerialInv`, the parts of `AgeInv`, `WriteInv` and
`ConnInv`, what `Nested` says of tags and nesting, and the parts of `CarriedInv`, on the instances of the
runs before they were proved.

### Only model-checked

- Liveness, `Answered` and `NoneForgotten`: outside TLAPS' reach.
- `OwnAddress` and `AllConverted` of BBCode. `OwnAddress` needs to know which text
  has been collected for which open link, through every row of the table
  and but for the exceptions of section 4; `AllConverted` says that the parser does for a whole post what a fold over
  its tags does, which takes an invariant over the rest of the post as well.
- The computations of the libraries (`DigestIsStandard`, `KeyIsStandard`,
  `MixIsStandard`, `Base64Exact` in `MCLibraries`): they are partly RECURSIVE, and are
  compared with the standards' definitions and examples.

## 6. Not modelled, and the plan

Not modelled:

- Schema and startup. The constructor runs its two statements before any
  request is taken; the tables they declare are the initial states of
  `PageCache`, `Sessions` and `Site`. What the shipped file holds is data.
- HTTPS: `server_https.h` is never instantiated.
- What pages look like: HTML around the posts, controls, gzip, dates, style
  sheets, and what the scripts draw.
- `truncate`, which cuts the HTML of a post at 2024 characters, possibly inside a
  tag: a tag is one item in `BBParser`, and lengths are not modelled.
- The parts of the libraries LightBlog never calls: column conversions and
  user-defined functions of sqlite_modern_cpp, loading another schema of tags
  (`bbcode_config.h`), `crypto_scrypt-hexconvert.cpp`.
- SQLite and Boost, which are external; `sqlite3.h`, by far the longest file of
  the tree, is declarations and comments. Their effect is in the actions that call them.
- The corruption of an unlocked `std::map`, and simultaneous calls on one socket.

Two compositions are left as assumptions rather than modules. `PageCache` leaves
open whether a request is logged in, which is more behaviours than `Sessions`
allows; `Site` takes handlers as single steps, which `CurrentAnswers` justifies
for what readers are shown with one io thread.

The plan has left: the streaming of `Sha256Stream`, whose invariant (the digest so far is
that of the whole blocks taken) is known from its run, and `OwnAddress` for the posts
section 4 does not except.
