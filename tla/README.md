# A formal model of IST-RMB, the reliable message board

IST-RMB is a message board of three programs: an identity server (`idserv`, Go)
that knows who is there, message servers (`msgserv`, C) that keep the messages
and pass them on to each other, and clients (`rmb`, C) that publish and read. Its documentation is a set of pages
that Doxygen 1.8.11 wrote and that the repository ships in `src/docs`, with a
search box in JavaScript. This directory holds TLA+ modules that model the
three programs and the search of the pages, the TLC configurations that check
them on small instances, and proofs for every value of the constants. Source paths are relative to the repository, whose
implementation is in `src/`.

## 1. The system

### Components

**Identity server** (`src/idserv/main.go`). State: the list of registered
servers, a slice that belongs to the main goroutine, and two channels.
Operations: each datagram has a goroutine; a `REG` is put on `serverRecv`, a
buffered channel, and appended to the list by the main goroutine; a
`GET_SERVERS` asks the main goroutine over `askForServers`, which is unbuffered
and carries both the request (nil) and the answer; a timer, set once, empties
the list. Hard: of two requests one may take the other's nil for its answer;
`append` writes in an array that answers still being written share, or moves
the list to another; the channel is full; the test for duplicates leaves only
its own loop; two bytes are cut from every `REG`. Correct when: whoever asks is
answered and whoever registers gets on the list, and, until the timer empties
it, a request that overlaps no other gets all that was listed.

**Message server: joining** (`src/msgserv/identity.c`). State: the identity
server's socket, the list of servers with their descriptors. `handle_join`
sends `REG`, asks for the list (five tries, two seconds each), connects to
every server of the answer but itself, and writes `SGET_MESSAGES` on the first
connection that succeeds. A timer sends `REG` again later. All of it blocks
the process. Hard: several servers join at once; a `REG` may be lost; a server
of the list may have stopped, or not take a connection in time. Correct when:
any two servers that have joined are connected, where a connection could be
made, however their joins interleaved, and a joiner learns what the others hold.

**Message server: select loop and connections** (`src/msgserv/main.c`,
`src/msgserv/message.c`). State: the sets of descriptors, the list of servers,
the state of the frame being read (`sms_state`). One iteration serves, in this
order: standard input, the listening socket (accept one connection), the UDP
socket (one datagram), every connection that is readable (read all there is).
A `PUBLISH` datagram is stamped, stored, and shared on every connection with an
`SMESSAGES` frame of one message; `SGET_MESSAGES` is answered with a frame of
the whole board; the lines of a frame are stored and not forwarded. Hard:
frames cut by TCP, several frames in one read, peers that stop at any point,
connections waiting to be accepted while messages are shared. Correct when: no
message is taken in that was not published, none is dropped, stamps respect
cause and effect, and servers that are left alone end up with the same messages.

**Message server: message board** (`src/utils/util_matrix.c`,
`src/utils/struct_message.c`, `src/msgserv/message.c`). State: a ring of
`-m` slots, a counter of additions that never goes back, the overflow flag,
the logical clock `g_lc`. Operations: add a message, answer with the last n.
Hard: the index arithmetic once the ring has gone round, the flag that is never
initialised, copies that arrive with stamps ahead of or behind the clock.
Correct when: an answer is the last n messages added, in order, and stamps grow
round the ring.

**Message server: byte stream to lines** (`src/msgserv/message.c`). State:
`to_hold`, the tail of the last chunk. Cuts what `recv` returns into lines, and
loops around short writes. Hard: a chunk that ends or starts at a newline,
short writes. Correct when: the lines handled are the lines sent.

**Message server: list of servers** (`src/utils/util_list.c`,
`src/utils/struct_server.c`, `src/msgserv/identity.c`). State: a linked list of
servers with a descriptor each, -2 not opened, -1 to be removed.
`parse_servers` and `tcp_new_comm` push, `join_to_old_servers` opens what is to
be opened and asks one server, a failed write and a closed peer mark an entry,
`remove_bad_servers` takes marked entries off before each `select`. Hard: the
removal while the list is walked, attempts that fail, joins that are tried
again, and descriptor numbers that are given out again inside one iteration.
Correct when: a pass loses no open connection, no number is in two entries or
in one after it was closed, what is read is what `select` reported, and each join
asks exactly one of the servers it connects to.

**Client** (`src/rmb`). State: the list of servers, the active one, the
watchdog (`_test_server`, `_last_test_server`), the ban list. Timer ticks probe
the active server; one that does not answer within two ticks is banned and
another is selected, the list fetched again when it runs out. Hard: an answer
that races the tick, an answer of a server already given up, an error flag that
outlives the error. Correct when: a server that answers is not banned, a banned
one comes back, and the client always ends up with a server if one is listed.

**Documentation pages: search box** (`docs/search/search.js`, with the sections
of `searchdata.js`). State: the text in the field, whether the box is in use,
the last value searched for, the timer between a key and its search, the
results window with the address of its frame, the window of filters with the
timer that hides it, the filter. Operations: focus and blur, keys, the pointer,
the choice of a filter, closing, and the timers. Hard: a search is started by a
timer and by a choice; four handlers hide the window; `keyTimeout` is zeroed
without stopping the timer. Correct when: text, last search, window and frame
agree, the label stands in a box not in use, and what is typed is searched for.

**Documentation pages: results page** (`search.js` again, with pages such as
`all_3.js`). State: the rows shown, the rows whose children are open, the
focus, the key being held. Operations: the filter on loading, the keys, clicks.
Hard: terms are compared as encoded ids; `Up` looks for the children of the row
before and not of the row shown before. Correct when: what is shown is what
starts with the term, the focus stays on display, and the keys go through what
is displayed in order, save where `Up` takes the children of the wrong row.

These scripts are Doxygen's and not the project's, and they are the only
JavaScript of the repository with a behaviour; the pages work only if they do.

**Lists of files and structures** (`docs/dynsections.js`) and the vendored
`jquery.js` are not modelled.

**Command lines, prompts, printing**, the unit tests and the example programs
of the course (`basis/`) keep no state that outlives them.

### Interaction

```
 client --PUBLISH / GET_MESSAGES (UDP)--> server --REG / GET_SERVERS (UDP)--> idserv
                                            |  ^
                       SGET_MESSAGES (TCP)  |  |  SMESSAGES + lines (TCP)
                                            v  |
                                          server
```

The documentation pages stand alone: the search box sends the frame to a page
of results, and the page gives the focus back.

Processes share nothing but messages. Each message server is one thread, so two
handlers of a server never interleave; everything else does. UDP may lose,
TCP may cut, and any process may stop.

## 2. The modules

| module | what it is | models |
|---|---|---|
| `Window` | the last `Capacity` elements of a growing sequence: `Latest`, `Push` | the content of the ring |
| `BoundedLog` | abstract specification of one board | what a board promises |
| `Board` | the ring, its index arithmetic, `g_lc`, and the handlers that use them | `util_matrix.c`, `struct_message.c`, the handlers of `message.c` |
| `Bulletin` | abstract specification of all the servers together | what the servers promise |
| `Mesh` | the servers: join, select loop, share, answer, receive, stop | `main.c`, `identity.c`, `message.c` of `msgserv`, and the identity server's list as they use it |
| `ServerList` | one server's list entry by entry, and its descriptors | `identity.c`, the stages of `main.c`, `util_list.c` |
| `IdServ` | the identity server: goroutines, channels, the slice and its array | `idserv/main.go` |
| `Client` | one client: lists, choice of a server, watchdog, bans, commands | `main.c`, `message.c`, `ban.c`, `identity.c` of `rmb` |
| `SearchBox` | the search field, its timer, the results window, the filters | `search.js`, `SearchBox` and `init_search` |
| `SearchResults` | one page of results: filter, rows and children, keys | `search.js`, `SearchResults`, `createResults`, `convertToId` |
| `MCBoard`, `MCMesh`, `MCServerList`, `MCIdServ`, `MCClient`, `MCSearchBox`, `MCResults` | instances for TLC | |
| `SequenceProofs` | lemmas on windows and sequences, and induction over numbers | |
| `BoardProofs`, `MeshProofs`, `ServerListProofs`, `ClientProofs`, `IdServProofs`, `SearchBoxProofs`, `SearchResultsProofs` | theorems and proofs | |

`Mesh` extends `Window` and keeps each server's board as a window; `Board`
shows the ring is one (its `Kept` is the window, `RingImplementsLog` the
proof), which is what lets `Mesh` leave the ring out.

### Board

`slots`, `size` and `overflow` are the fields of `struct _matrix`, `clock` is
`g_lc`, `reply` the messages of the last answer. `overflow` starts at either
value: `create_matrix` does not set it. The actions are the handlers
`HandlePublish`, `ParseMessage`, `HandleGetMessages` and `HandleSgetMessages`;
`GetFirst` follows the branches of `get_first_n_messages`, and `Walk` its loops
with their break at an empty slot. `HandleGetMessages` takes what `atoi` makes
of the request, negative numbers too, which are stored unsigned.

### Mesh

A server's `phase` says where it is: `prompt` (running, not joined), `lookup`
and `connect` (inside `handle_join`), `loop` (joined), `down`. A connection is
the pair of the server that opened it and the one that accepted it; `links[s]`
holds those with an open descriptor in s's list, `backlog[s]` those s has not
accepted, `inbox[s][c]` the lines s can read from c. `ready[s]` is the set
`select` filled, less what has been served; `sharing[s]` is where
`share_last_message` is in the list; `drain[s]` and `sms[s]` are the connection
being read by `server_treat_communications` and its `sms_state`.

| code | actions |
|---|---|
| `handle_join` | `Register`, `Lookup`, `LookupFails`, `Connect`, `Joined` |
| the loop of `main.c` | `Select`, `UpdateReg`, and the order in which the guards of the others take up `ready` |
| `tcp_new_comm` | `Accept` |
| `handle_client_comms`, `handle_publish` | `Publish` |
| `share_last_message`, `send_to_server` | `Share`, once per connection |
| `server_treat_communications` | `Treat`, then `RecvHeader`, `RecvSget`, `RecvMessage`, `RecvDiscard`, `RecvOverrun` per line, `RecvAgain` or `RecvEof` at its end |
| `close_communication` | in `RecvEof`, `Share`, `RecvSget` |
| clients, crashes, the identity server's timer | `ClientSends`, `Stop`, `Wipe` |

One action is one system call with what the code does up to the next one that
others can see, so joins, shares and reads of different servers interleave at
every point where they can.

`stamp`, `deps`, `seen` and `failed` are history variables: no guard reads the
last three, and `stamp` is read only by `ClientSends`, which has each text
published at most once. `failed` holds the connections that could not be made.

What is abstracted, and where the model leaves more open than the code:

- The order inside a list of servers, and of the backlog: any connection may be
  next. The code has one order; the properties hold for all.
- A server that stops does not come back under the same name. A new process has
  an empty board and new sockets and is a server of its own.
- `UpdateReg` happens between two iterations. In the code the timer is tested
  at the end of an iteration; `REG` touches nothing else of the server.
- `send_to_server` may close a descriptor that `select` had reported. The loop
  then tests descriptor -1, which C leaves undefined; the model takes the test
  as false, which is what the macro gives without a bounds check.
- A connection to a server that runs may be made or fail: its backlog of five
  may be full while it is blocked in its own join, the five seconds of
  `SO_SNDTIMEO` may pass. The entry then has descriptor -1 for ever
  (`identity.c:171`), and nothing is tried again. What the servers promise each
  other, `MeshComplete` and `Converged`, is promised to all pairs but those. A
  `socket` that fails ends the join, which the user may try again: that is in
  `ServerList`.
- A write to a live peer succeeds whole. A write to one that has closed is lost
  or fails. Full socket buffers, the five seconds of `SO_SNDTIMEO` and short
  writes are left out.
- Lines are whole: how the chunks of 140 bytes become lines is not modelled, so
  neither is that `to_hold` is not cleared where a chunk ends in a newline
  (`message.c:233`), so that its content is put before later lines. With `Segmented` a frame may arrive
  in pieces at line boundaries, and `recv` may find nothing between two of them.
- A header read inside a frame is longer than `lc_buffer` (`message.c:158`), and
  what `sscanf` then does is undefined: the line is dropped (`RecvDiscard`) or
  the process ends (`RecvOverrun`). With whole frames this is not reached. The
  same overrun by a stamp of more than five digits is not modelled.
- Texts are model values; a text is published by at most one client, once.
- The identity server is the one `msgserv` is set to by default, which is not in
  the repository: it lists each server once, under the address it sent. The list
  of `idserv` differs (section 3). When `Reliable` holds it is what `msgserv` may
  expect: a `REG` is listed and a look-up returns the list. When it does not, a `REG`
  may be lost, a look-up may fail, and the list may be emptied at any time.

### Client

`pc` says where the one thread is: in `init_program`, at the top of its loop or
in `select`, choosing a server, fetching a list, or gone. `sel`, `servers`,
`err`, `silent`, `test` and `lastTest` are `sel_server`, `msgservers_lst`,
`err`, `server_not_answering`, `_test_server` and `_last_test_server`; `servers`
counts entries, because the identity server lists a server once for each `REG`
and `rem_awol_server` takes off one at a time. `ban` is the time left of each
server's ban, -1 for none: a counter that has gone below zero is never told
apart from a server that was never banned.

| code | actions |
|---|---|
| `init_program`, `fetch_servers` | `FirstFetch`, `Fetch`, `FetchFails` |
| the block at the top of the loop | `GiveUp`, then `Skip` and `Choose` per `select_server`/`is_banned`, `RunOut` |
| the timer, `exec_server_test` | `Tick` |
| `handle_incoming_messages` | `Receive`, `ReceiveStray` |
| the commands that send | `Publish`, `ShowLatestMessages` |
| `exit`, SIGINT | `Exit` |

The client does not look at who sent a datagram nor which request it answers, so
`pending` is just the number of answers that may still come, to whichever
request, and a `Receive` may be an answer of a server given up long ago. A
request may never be answered, and a send may fail. A fetch returns any list:
`get_servers` sends a request every two seconds and reads one answer, so what it
reads may be the answer to a fetch of long ago. One `select` that reports
several descriptors is several steps; any order of them, the code's included,
is a behaviour of the model. `awaiting` and `waited` are history variables no
guard reads.

### ServerList

`nodes` is the list from its head, with the server and the descriptor of each
entry; `inUse` is what the kernel has given out, the lowest free number first.
`at` goes through one iteration in the order of `main.c`: accept, standard
input, UDP, connections. `rfds` and `todo` are what `select` reported. A join
takes one step per entry (`Connects`, `ConnectFails`, `SocketFails`,
`NothingToOpen`), since each opens a descriptor; a share and a round of reads
are one step each, with any set of entries closed by it. `Pass` is the loop
of `remove_bad_servers`, and `Over` one turn of it: it tests the successor of each entry it comes to, so an
entry after a removed one is kept, and the head has a test of its own.
`ConnectFails` may leave a descriptor open that no entry holds: the code closes
the socket only when `connect` is what failed. Two joins can happen, since a
join that ends in `SocketFails` may be tried again, on top of what the first has
put on the list. `since`, `opened` and `asked` are history variables. Mesh is
this module for many servers with the entries reduced to a set of open
connections; the two are not shown to refine each other.

### IdServ

Goroutines are counted (`regs`, by entry) or placed (`asker`, by request), a
slice is an array's number and a length, and `arrays` holds every array the list
was ever in. A receive from a channel is one step with what the receiver does
before it next blocks, except that an answer is written in a step of its own:
that is where it meets `Appended`, in place or in a new array, and `Wipe`.
`Cross` is the nil of one request taken by another for its answer. `AnswerDuringAdd` is the data race of the
code: the cell being written is read as it was, as it will be, or `Mixed`. An
entry is what a `REG` gave after the cutting of fields, and is added as often as
it comes: the `break` of the test for duplicates leaves the wrong loop.

### SearchBox and SearchResults

A handler of the page is one step. Text is a sequence of characters, since
`Page` goes by its first letter and `OnSearchFieldChange` by its blanks. The
frame shows the old document until `FrameLoads`, and `KeyUpDown` gives the focus
to whatever document is there. `Search` throws for a filter that does not exist,
one past the last, which `SelectDown` can reach; what the caller had left to do
is then not done. Timers are counted, because a choice of filter zeroes
`keyTimeout` without stopping the timer it stood for.

`SearchResults` takes the page as a constant: ids, labels and numbers of
targets. `FocusOn` is the browser's `focus()`, which does nothing for what is
not displayed. Keys come as the three events of the browser, of which the first
`keypress` after `keydown` does nothing. Rows with the same id share one block
of children, that of the first (`ById`), as `getElementById` finds it. Positions
on the screen, styles and `Enter` on a link are left out.

## 3. The runs

| run | instance | shows |
|---|---|---|
| `board` | ring of 3, up to 7 additions, 2 texts, stamps 0 and 3, requests -1 to 4 | types; stamps grow round the ring; the ring implements `BoundedLog` |
| `mesh` | 2 servers, 2 texts, capacity 2, one stop, connections that fail, reliable, frames whole | types; the mesh is complete where connections could be made; no line is dropped; quiet servers agree; the servers implement `Bulletin`, whose stamps respect cause and effect |
| `mesh_fair` | 2 servers, 2 texts, capacity 1, no stop, connections that fail, with fairness | lines that reached a server are taken in; a joiner that asked gets each message of the board, unless it is pushed off before the request is read |
| `mesh_faults` | 2 servers, 1 text, one stop, unreliable identity server, frames cut | the servers still implement `Bulletin` |
| `mesh_miss` | 3 servers, 1 text, no fault | a joiner can miss a message for good |
| `mesh_split` | 2 servers, 1 text, frames cut | the rest of a frame is dropped when its second piece is late |
| `servers` | 2 descriptors, answers of up to 3 entries, 2 joins | types; numbers have one owner and are open; each join asks one server; reads are of what was reported; a pass loses nothing |
| `idserv` | 2 requests, 4 registrations of 2 entries, a channel of 1, with fairness | types; exactly one waits while the main goroutine sends; a request alone gets all that was listed; all are answered and listed |
| `client` | 2 servers listed up to twice each, ban time 5, 2 answers on their way, stray datagrams, with fairness | types; the active server is listed and not banned; failures have a server; requests are answered or their server given up; a server is found |
| `client_test` | the same, no strays | a server that answered is marked as not answering |
| `search` | 7 texts, 2 sections, 2 timers at once, with fairness | types; a hidden window remembers nothing; the frame follows the last search; the label stands in an idle box; the filters are not hidden under the pointer; what is typed is searched for |
| `results` | 6 rows, two of one id, three with children, a term whose rows do not stand together, 14 terms | types; the filter is exact; the focus is on display; keys follow the order but for `Up` where `Nav` is misled |

### Bounds

`Capacity` 3 and `MaxAdds` 7 take the ring round more than twice, so every
branch of `get_first_n_messages` is met with each position of the next slot;
`BoardProofs` removes both bounds. Requests -1 to 4 stand for negative,
refused, below, at and above the capacity. Stamps 0 and 3 lie behind and ahead
of the clock in turn.

Two servers are enough for joins that cross (each connects to the other), for a
publication during a join and for an answer to a closed connection. With two
texts one can be the cause of the other at the other server.
In `mesh_fair` a board holds one of the two, so that a datagram served before a
request in the same iteration pushes off what the joiner asked for; nothing
stops in it, since with two servers each stop ends one side of every connection,
and the two properties speak of connections both of whose ends run.
Three servers are needed for a join between two others, hence `mesh_miss`; that
the mesh is complete among more than two is proved (`ReliableMeshComplete`).
`MaxStops` is 1: with two servers a second stop leaves nobody to state a
property about, with three it leaves one. Symmetry is used only in runs that
check invariants. `mesh_miss` explores only states where at most one server is
inside an iteration, which can hide a violation but not make one.

The runs of `Board` and `Mesh` do not set `CHECK_DEADLOCK FALSE`: `UpdateReg`, or a server that joins,
is nearly always enabled, and TLC reports no state without a successor.
The client's ban time is the 5 of `utils.h`. Two servers let the list hold one
that is banned and one that is not, in any number of copies up to two, so that a
ban may be shortened twice in one search. Two answers on their way are one for the
active server and one too many. `client` and `client_test` set
`CHECK_DEADLOCK FALSE`: the program ends; so do `servers`, where a failed
`accept` ends it, and `idserv`, where nothing is left to do once the bounded
number of datagrams is read.

Two descriptors in `servers` let a connection close and another be accepted
under its number beside one that stays open, and a join of three entries run out
of them and be tried again; entries of one server, of the host and inbound ones,
in the lists two joins and the connections accepted make, give the pass runs of
three and more marked entries between open ones. (With three descriptors and
answers of four the same properties held in 1.4 million states; that run takes
more than four minutes and is not kept.)
In `idserv` a channel of one instead of ten is full as soon as two register;
four registrations take the list through arrays of one, two and four cells and,
after the timer, back over the cells of the last. Two requests can cross.

`search` has texts with blanks before, after and between, one that is found in
one section only, the empty one and the label; two timers at once are what a
choice of filter can leave behind (`MaxTimers`).
`results` has labels with encoded characters, an encoded one at the start, two
files of one name, rows with children, one term for which a row in between is
filtered out, so that `Up` is stuck below one row and skips children below
another, and terms in either case, with blanks, and that match in the
middle of an encoding only.

### Fairness

`FairSpec` asks weak fairness of `Run(s)` for each server: a process that can
make the next connection of its join, or take the next step of its loop,
eventually does. A server is one thread in an endless loop and each step ends
with a system call that returns, so this is what the scheduler gives. Nothing
is asked of `Register` and `Lookup` (a user may never type `join`, and the
identity server may take for ever), of clients, of the timer, or of `Stop`.
Weak fairness of the disjunction is enough because one action of a running
server is enabled at a time, up to the order of lists.

`Client`'s `FairSpec` asks weak fairness of `Run`, everything the client does up
to its next `select`, and of `Tick`: the timer is set again after each expiry
and the loop tests it first, so neither user nor datagrams can keep it from
being served. Nothing is asked of the user or of the network. `FindsServer` says
by itself what it needs of the identity server: that lists cease to come empty.

`IdServ`'s `FairSpec` asks weak fairness of `Work`, all that goroutines do with
what was read, together: the scheduler runs some goroutine while one can run.
Nothing is asked of single goroutines, of datagrams or of the timer; it is
enough because what was read is bounded and each step of `Work` uses some of it
up. `SearchBox`'s `FairSpec` asks weak fairness of `Expire`: the timers of the
page run out. Nothing is asked of the user, who may go on typing for ever; each
key then restarts the timer, and `TextSearched` gives him that way out.

### What the failing runs say

- `mesh_miss`: a joiner asks one server, and nobody forwards. a joins alone and
  publishes; b joins and asks a; c joins, connects to both, asks b, and b
  answers before it has read what a sent. c is connected to everybody, all is
  quiet, and c never has the message.
- `mesh_split`: `sms_state` is a local of one call, and the socket does not
  block. When the call ends between two pieces of a frame, the next call takes
  the remaining messages for headers it does not know.
- `client_test`: a request, a tick, the answer, another request, a tick. The
  answer resets `_test_server` only, so the second tick finds the test under way
  and `_last_test_server` still set from the first: the server that answered
  between the two is banned, though `doc_tech_client.md:67` says it is not.

### Other disagreements met while modelling, without a run

- `message.c:169`: `doc_tech_server.md:96` gives a copy the next clock after the
  larger of two; the code gives a copy that is ahead of the clock the very stamp
  on its line. Stamps still increase (`StampsIncrease`).
- `identity.c:376`: `doc_tech_server.md:31` says a joiner checks that it is
  registered; it does not. One lost `REG`, and two servers that have both joined
  are never connected, since a later `REG` opens no connection. `MeshComplete` is
  therefore checked and proved with `Reliable`.
- `rmb/main.c:139`: `err` is still set when another server is found, so the next
  iteration bans that one too, unused: one failed send uses up the whole list.
- `main.c:209`: a failed `accept` ends the server.
- `idserv/main.go:138`: the last two bytes of a `REG` are cut off. `identity.c:94`
  sends neither a newline nor a NUL, so with this identity server the TCP port
  listed lacks two digits; the `REG` of the timer ends in a NUL and loses one.
- `idserv/main.go:76`: the `break` of the test for duplicates leaves its own loop
  only, so a server is listed once for each `REG`.
- `message.c:158`: `lc_buffer` has room for five characters, and `sscanf` is given
  no width: a header read inside a frame overruns it, which a split frame
  can bring about.
- `search.js:292`: closing the window, or leaving the field, does not stop the
  search timer; half a second later the window opens again on a box not in use,
  with the results for its label.
- `search.js:606`: `Up` takes the children of the row before the current one.
  On `all_3.js` with the term `cl`, with the row of `close_5ffd` open, the row
  before the next one shown is `create_5fnode`, filtered out and with two
  targets: the focus would go to a hidden child, and `Up` is stuck. If it has one
  target only, `Up` skips the children of the row shown before. `Misled` says
  when this happens, `KeysFollowOrder` that nothing worse does, and the page of
  the run `results` has both cases. The rows a
  term shows do not stand together for seven terms of the shipped pages, `cl` in
  `all_3.js` and six from `se` to `server_` in `all_12.js`.

## 4. The proofs

All of it is checked by TLAPS, with `CapacityAssumption` (a positive capacity:
`-m 0` divides by zero), `BoardAssumption`, `MeshAssumption` (the values
that stand for "none" are none of the others; the stamps on lines are natural
numbers), `ClientAssumption` (the same of `NoServer`, and a positive ban time),
and the like for the other modules: `BufferAssumption` and `EntryAssumption` of
`IdServ`, `TextAssumption` and `SectionAssumption` of `SearchBox`,
`EntriesAssumption`, `ItemAssumption`, `KeyAssumption`, `CharAssumption`,
`TextAssumption` and `IdAssumption` of `SearchResults`, `NameAssumption` and
`SizeAssumption` of `ServerList`, as the only assumptions, but for the premises the
table names: `Reliable`, `~Segmented`, two servers and room on a board for
`Mesh`. `CharAssumption` is what `convertToId` does: letters, digits
and what is beyond ASCII stand for themselves, `_` does not, and every other
character has two digits of its own, which are plain. `IdAssumption` says that
the ids of a page are what `convertToId` makes of the labels in small letters;
it holds for every row of every page shipped in `docs/search`.

| theorem | holds for | along |
|---|---|---|
| `BoardProofs!TypeCorrect` | every capacity, stamp, request | `TypeOK` is kept with `Filled`: the slots below `size` hold items, the others none |
| `BoardProofs!StampsAlwaysIncrease` | the same | `parse_message` raises the clock to the stamp on the line before it stamps the copy |
| `BoardProofs!RingImplementsLog` | the same | below |
| `MeshProofs!TypeCorrect` | any servers, messages, stops, identity server and TCP | below |
| `MeshProofs!StampsAreCausal` | the same | below; no run checks it by itself, `BulletinSpec` requires it of each publication |
| `MeshProofs!ServersImplementBulletin` | the same | `Publish` is `Bulletin`'s `Publish`, `RecvMessage` its `Deliver`, all else a stutter |
| `MeshProofs!ReliableMeshComplete` | `Reliable`, any servers and stops, pairs whose connections could be made | below |
| `MeshProofs!WholeFramesNotDropped` | `~Segmented`, any servers, messages and stops | below |
| `MeshProofs!TwoServersConverge` | `Reliable`, `~Segmented`, two servers whose connections could be made, any stops, any messages that fit on a board | below |
| `ClientProofs!TypeCorrect`, `ActiveAlwaysListed`, `BannedNeverActive`, `FailuresHaveServers` | any servers, lists, ban time | below |
| `IdServProofs!TypeCorrect`, `ChannelNeverJams`, `AloneIsAnswered` | any requests, entries, buffer, bound | below |
| `SearchBoxProofs!TypeCorrect`, `NothingRemembered`, `FrameShowsSearch`, `IdleShowsLabel`, `PointerKeepsWindow` | any texts, sections, timers | below |
| `SearchResultsProofs!TypeCorrect`, `FocusStaysDisplayed` | any page | below |
| `SearchResultsProofs!KeysFollow` | any page, any term | below |
| `SearchResultsProofs!PrefixCode`, `FilterIsExact` | any page whose ids are made from its labels, any term | below |
| `ServerListProofs!TypeCorrect`, `DescriptorsAlwaysOwned`, `OneServerAsked`, `OnlyReportedRead`, `PassKeeps` | any servers, descriptors, answers, joins; `OneServerAsked` of each join alone | below |
| `ServerListProofs!RemoveBadServersKeeps` | any list | induction, below |

**The ring.** `IInv` of `BoardProofs` is `TypeOK`, `Filled` and
`StampsIncrease`. `AddElementPushes` shows that storing at `size % Capacity` is
a push onto the window `Kept`: the indices of a window of at most `Capacity`
have distinct slots, so only the oldest element is lost. `GetFirstIsLatest` shows
that each branch of `get_first_n_messages` returns the end of `Kept`: the branch
that reads the flag is taken only before the ring has filled, and when the flag
is wrongly set the loop there stops at once at an empty slot. `RingImplementsLog` combines the two.

**Stamps.** `CausalStamps` of `MeshProofs` has every message published above all
its publisher had taken in, which is what `Publish` of `Bulletin` requires. It
says nothing of messages on their way, so it is not inductive. `IInv` of `MeshProofs` adds: a copy on a board or in a frame carries a
stamp no lower than the one its message was published under (`BoardsAreCopies`,
`LinesAreCopies`); a server's clock is past the stamps of all it has taken in
(`ClocksPastSeen`); a text in a UDP socket is unpublished
(`PendingUnpublished`); boards fit and a server that shares has something to
share (`BoardsFit`). A server then publishes above all it has seen, and raises its
clock past what it receives. Types are part of the same induction: that a
received line holds a message is `LinesAreCopies`.

**Joins.** `JInv` says that a server registers before it looks up
(`RegisteredFirst`), that its list is used up when it enters the loop
(`KnownWhileConnecting`), and that of two servers that have looked up, one has
yet to connect to the other, or has failed to, or the connection is there
(`PairsLinked`). A failure is for good (`FailedStays`). A
connection with two live ends stays: each of the places that close one does so
only after the peer (`ClosedOnlyByPeer`), and what leaves the backlog has been
accepted (`BacklogAccepted`).

**Frames.** `FInv` says that a connection is not in use before it is opened
(`FreshUnused`), so that the request is its first line, and that in every inbox
no message stands directly behind a request, no request behind anything, and the
first line is a message only while its reader is inside a frame
(`FramesWhole`). Writing whole frames at the end and reading lines at the head
keep it (`FrameAppended`, `HeadRead`); a call that ends has read everything.

**Two servers.** `Converged` speaks of quiet moments only; what leads to them is
`PairInv`, of each ordered pair of servers that run and between which no
connection has failed (`Reached`). `Delivered`: each message
`s` has taken in `t` has too, or it is in `t`'s inbox or `s` has yet to write it
to one of its connections, or `s` still owes `t` its whole board (`Promised`:
`t` has not connected, or its request is unread) and has no connection of its
own to share on. In the last case `s` has read nothing, so its board still holds
all it has taken in (`Alone`), and the answer will carry all of it: this is
where the messages must fit on a board, since one that was pushed out is in no
answer. `Found`: once `s` has looked up it has a connection to share on or owes
its board, from `PairsLinked`. `Origin`: what `t` has yet to read `s` has taken
in. `EachInv` has the facts about each server alone: the first connection of a
join is the only one that asks, a server shares and reads at different times,
and between two servers that run a connection is open or was never used. With
three servers `Delivered` is false, and so is `Converged`: the one server a
joiner asks need not have taken in what a third has sent (`mesh_miss`).

**The client.** The four invariants depend on each other: the server that
failed can be taken off the list because it is known (`FailureHasServer`) and
listed (`ActiveListed`). Two facts make them inductive: nothing has failed and
nobody is banned before the first list (`StartsClean`), which is why the first
server may be chosen without asking `is_banned`, and an error is forgotten
before a list is fetched (`FetchClean`), since after it no server is selected.
From `BannedNotActive` it follows that `ban_server` never meets a ban that still
runs, so that its not restoring such a ban, against `ban.h`, has no effect.

**The identity server.** `IInv` of `IdServProofs` adds two things to the
properties. `NotAhead`: until the timer expires no slice reaches past the end of the
list in its array, which is where `append` writes next, so that a write in place
meets nobody's slice (`AppendedFacts`: one cell changes, or a new array starts
with the old one). `AloneInv`: what was listed when a lone request was read is
still in the list, then in its slice, then in its answer, and no other request
waits meanwhile. After the wipe `NotAhead` is false: the list is written again
over cells that slices still hold, which is why `AloneGetsList` ends there.

**The list of servers.** `remove_bad_servers` is a recursive function over the
list, and what it keeps is known by induction over the list only. The library's
induction theorems take an operator as a parameter, so `SequenceProofs` gets
induction for sets from `NatLessThanWellFounded` and `WFMin`: a set of numbers
that is not empty has a least element (`LeastNumber`), so a set that holds 0 and
with each number the next holds all of them (`NumberInduction`), and a function
given by its value before has one solution (`Recursion`). With these `PassKept`,
`PassLive` and the lemmas on `Dead` go along the prefixes of the list: what the
pass has kept comes from the prefix in order, its entries to keep are those of
the prefix, and an entry to remove is kept only behind one that was dropped.
`IInv` of `ServerListProofs` adds two facts to
`TypeOK` and `DescriptorsOwned`. `ReadsFresh`: what `select` reported has not
been given out since, and up to the reads the program still holds all of it, so
that the kernel cannot give it out. It rests on the order of the loop: the first
step that may close a reported descriptor is a write on behalf of a client, and
`accept` and the connections of a join, which give numbers out, come before it.
`OneAsked`: `isCommSent` is set exactly when the join under way has asked one
server, and until then it has opened nothing. A join tried again starts from
nothing asked, so the theorem is about each join alone, and a server may have
asked as many others as it has tried joins.

**The search box.** Each of the four invariants is inductive as it stands; the
proofs go through the handlers, and for each through what it shares (`Search`,
`Activate`, `Left`). The types need that `keyTimeout` stands for a timer that
runs, for each handler that stops one.

**The results page.** `IInv` is the types, that the focus is on display, and that
the rows shown are those the filter finds. `KeysFollow` goes key by key. `Down`
takes children from the row of the focus. `Up` takes them from the row before it:
if that row is shown it is the one `NavPrev` finds, and if the one `NavPrev` finds
is closed, or there is none, its children do not matter. What is left is
`Misled` (section 3): then either the children looked for are not displayed and
`Up` is stuck, or there are none and it goes to the row shown before. `NavNext` and `NavPrev` take the least row
from one on, and the greatest up to one; both exist because the rows are a
bounded set of numbers.

`FilterIsExact` compares texts where the page compares ids. `PrefixCode` carries
it: the id of a text starts with the id of a term exactly when the text, in small
letters, starts with the term. `convertToId` writes one piece for each character,
a plain character or `_` and two digits; two pieces that differ do so at a place
both have (`EscapedDiffer`), and equal ones are of equal characters, so going
along the text the two ids agree just as far as the characters do (`CodeStep`).
That is an induction along the term (`Codes`, `CodesGrow`), on the numbers of
`SequenceProofs`. The id of a term never ends within a code, so a term
that would match in the middle of an encoding only finds nothing.

## 5. Not modelled, and the plan

- The bytes of a stream (`message.c:202` and below): how `recv`'s chunks become
  lines through `to_hold` and `strtok`, and the loops around short writes.
  `Mesh` cuts frames between lines only.
- The retries inside `get_servers`, and the loop of `parse_servers` on a line
  it cannot read: a look-up is one step that fails or gives a list.
- The text of datagrams to and from the identity server: the two bytes cut from
  a `REG`, and an answer cut at 512 bytes.
- What an answer to a client is an answer to: `Client` counts them.
- A second `join` in `Mesh`: `ServerList` has it, for one server.
- `dynsections.js` opens and closes rows of tables at most two levels deep, and
  nothing depends on it. `jquery.js` is vendored and minified. The index files
  are data, a constant of `SearchResults`.
- That `Mesh`'s sets of connections are the open entries of `ServerList`'s list.

What could come next: a module for the bytes of a stream; the retries of a
look-up; a `Service` specification of what a client promises, with answers told
apart, that `Client` implements; `Mesh` over `ServerList`.

Model-checked only:

- `LinesArrive`, `JoinerCatchesUp`, `AnsweredOrGivenUp`, `FindsServer`,
  `EveryoneAnswered`, `Registered` and `TextSearched`: liveness under fairness is
  not in reach of the proof system. Every other property of a passing run is
  stated by a theorem.

Left out for good: printing and option parsing (no state), lengths of texts and
buffer sizes (the hazards list names the lines) but for the overrun of
`lc_buffer` by a header, the unit tests and `basis/`.
