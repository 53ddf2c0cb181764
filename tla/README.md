# Verification of the systems-programming projects of c_discovery

The repository holds five independent C programs, each in a directory of `src/`, and a warm-up (`hw0`).
They share no code. What makes them worth specifying is different in each:

| Program | Directory | What is hard about it |
|---|---|---|
| Jeux, a game server | `tic_tac_toe_multiplayer` | a thread per connection, four kinds of mutex, reference counts, shutdown from a signal handler |
| heap allocator | `custom_memory_manager` | boundary tags, quick lists and free lists over memory that is never cleared |
| ticker | `crypto_exchange_watcher` | one thread, three signal handlers that change the list it walks, child processes |
| fliki, a patch filter | `diff_parser` | a streaming parser whose state is in static variables, fed by two streams |
| patch | `Larry_Wall_updated_diff` | Larry Wall's patch: three kinds of diff told apart by their lines, hunks that are searched for, and users' files that must survive signals and failures |

This directory holds TLA+ modules translated from the C code, configurations for TLC, and proofs for
TLAPS. Line numbers below are those of the C files; the correspondence of every single definition is in
`PROJECT.json` ("map").

## 1. Inventory

### Jeux: client registry and shutdown (`client_registry.c`, `main.c`, parts of `server.c`)
State: `cr_lock`, the array of CLIENT pointers, their number (also read without the lock), one
semaphore; per CLIENT a descriptor, a player and a reference count. Operations: `creg_register`,
`creg_unregister`, `creg_lookup`, `creg_all_players`, `creg_wait_for_empty`, `creg_shutdown_all`,
`creg_fini`. One detached thread per connection registers, serves and unregisters; `main()` accepts
connections. A handler of SIGHUP and SIGINT runs `terminate()`: sweep, wait, finalise, exit. No thread
blocks these signals, so it runs on whichever thread the kernel chooses, also on top of a service thread
or of the other signal's handler. Correct means: the array holds exactly the registered clients; a
CLIENT lives as long as somebody points to it; the sweep shuts every registered connection down; the
waiter is woken. Hard: code that looks inside the array without the lock, a signal that takes a thread
away from the middle of what it does, the second inside the handler of the first, a wakeup that may be
lost or stale, `accept()` that fails.

### Jeux: invitations (`invitation.c`, `server.c`)
State: per INVITATION a state, a game, a mutex, a reference count; per CLIENT a list of them; per
service thread the ids it made. Operations: `inv_create`, `inv_ref`, `inv_unref`, `inv_accept`,
`inv_close`, driven by INVITE, ACCEPT, DECLINE, REVOKE, RESIGN, MOVE and by the end of the connection.
Correct means: exact references, a game if and only if the state says so, both players keep a game in
progress, results are posted when it is final. Hard: accept against decline, revoke, the last move and
the departure of the other side; a mutex kept on an error path.

### Jeux: players and ratings (`player.c`, parts of `server.c`)
State: rating, reference count and mutex of each PLAYER. Operations: `player_create`, `player_ref`,
`player_unref`, `player_post_result` (locks two players), the listing for USERS. Correct means: exact
references, ratings computed from what they are added to, no points out of nothing, no deadlock. Hard:
two locks, two connections under one name, the conversion to `int`.

### Jeux: service loop and wire protocol (`server.c`, `protocol.c`)
State: per connection the socket with the bytes on their way, the header and the payload pointer of the
service loop, the payload's memory, whether a player is logged in. Operations: `proto_recv_packet`,
`proto_send_packet`, and the loop of `jeux_client_service` with a case for each packet type. Other
threads write to the same socket (notices) or shut it down. Correct means: each request is dealt with
once and in order, with an answer `protocol.h` allows; a payload is freed once; neither the client's
leaving nor a shutdown harms the process or keeps the thread. Hard: reads and writes whose results are
not looked at, on a stream that is cut anywhere. What the requests change is in the module of the
component they change. `lib/jeux.a` (client, game, player registry) comes without source: what
`server.c` needs of it is modelled from its headers and its use, and marked external. `csapp.c` is
third-party.

### Heap allocator (`sfmm.c`)
State: the heap's words, quick lists (length and first block), heads of the free lists. Operations:
`sf_malloc`, `sf_free`, `sf_realloc`, `sf_memalign`; helpers that split, coalesce, flush and keep the
flag that says whether the block before is allocated. Correct means: blocks tile the heap, tags agree,
lists hold exactly the free blocks, a client's region is its own and keeps its contents. Hard: long
sequences of legal calls; a word that is read as a tag or a link after it was last written as something
else.

### Ticker (`ticker.c`, `watcher.c`, `cli.c`, `bitstamp.c`)
State: a doubly linked list of WATCHERs, a flag, the signal mask, pipes and children. Operations: the
main loop (`parseInput`, `sigsuspend`), the SIGIO, SIGCHLD and SIGINT handlers, `newWatcher`,
`cleanWatcher`, `removeAllWatchers`, the commands of the CLI. Handlers interrupt the loop and each other
at any instruction. Correct means: outside of a change the list is sound, every child is on it, no
signal is lost, nothing is left running at the end.

### Fliki (`fliki.c`; options in `validargs.c`)
State: the static variables of the hunk reader (last character, status, section, report buffers) and the
locals of `patch()`. Operations: `hunk_next`, `hunk_getc`, `patch` with `deleteLines`, `appendLines`,
`outUntilFound`. Correct means: a proper diff is applied; an improper one is reported. Hard: everything
is decided one character at a time, and both streams go through the same `lastChar`.

### patch (`patch.c`)
State: the switches; the patch file and the place where it is read; the hunk in `p_line[]`, `p_char[]`
and the numbers beside them; the input with `last_frozen_line` and `last_offset`; the temporary output
and reject files; the user's files; what a signal does. Operations: `intuit_diff_type`, `another_hunk`,
`pch_swap`, `locate_hunk`, `apply_hunk`, `abort_hunk`, `do_ed_script`, `move_file`, and the loop of
`main`. Correct means: a patch turns the version it was made from into the other, and with `-R` back;
elsewhere hunks go where they fit and change nothing else; the others are in the reject file; no file is
lost and every replaced one is backed up. Hard: state that outlives a hunk or a patch, swapping and
swapping back, the moment between the removal of a file and its replacement.

### hw0
Prints its arguments.

## 2. Modules

| Module | Role |
|---|---|
| `ClientRegistry` | the registry, its service threads and `main()`; `ClientRegistryProperties` its properties, `RegistryContract` the abstract specification it implements, `ClientRegistryProofs` the proofs |
| `Invitations` | invitations with the threads that share them; `InvitationProperties`, and `InvitationContract`: the life of one invitation as `invitation.h` tells it; `InvitationProofs` |
| `Players` | players, ratings, listings; `PlayerProperties`, `PlayerProofs` (with sums over finite sets) |
| `Ticker` | the ticker process and its environment; `TickerProperties`, `TickerProofs`, and `TickerListProofs`: the list |
| `Heap` | the allocator over a small memory; `HeapProperties` |
| `Fliki` | the patch filter over a diff that is made up as it is read; `FlikiProperties`, `FlikiProofs` |
| `Service` | one connection: client, network, `protocol.c` and the service loop; `ServiceProperties`, `ServiceContract`: what `protocol.h` promises a client, `ServiceProofs` |
| `Hunk` | a hunk of patch as data: swapping, matching, locating; `Patch` extends it to the whole program; `PatchProperties`, `PatchProofs` |
| `MC...` | the instances for TLC |

The components of Jeux meet in `server.c`: `ClientRegistry`, `Invitations` and `Players` each include
the service threads' steps that concern them, so that their interleavings are those of the real callers,
and `Service` has the loop around them, where a request either succeeds or fails. The other programs are
one module each.

### How state and actions correspond to the code

**ClientRegistry.** A connection, its thread and its CLIENT share a name. A step is what no other thread
can take apart: `RegisterCheck` (the capacity test outside the lock, line 105) and `RegisterAppend` are
two steps; `UnregisterFind` (the entry becomes NULL) and `UnregisterShift` are two because `creg_lookup`
and the handler look inside; lookup reads the slot again after its unlock (line 211) in a step of its
own. `sem`, `numClients` and the array are the fields of the struct; the word behind the array is the
one the shift copies from when the array is full. Where the code leaves defined territory, the process
ends: `overrun`, `nullDereference`, `useAfterFree`, or `aborted`. The properties say what holds before
that. `term[t]` is where thread `t` is in `terminate()`, and `Signal(t)` may start it on any thread, at
the beginning of a step or (`LeaveSection`) with the lock in its hands; a thread it was started on does
no other work again (`At`). `drained` and `awaited` are history variables: the registry has been
emptied, and it has been empty since a thread began to wait.

**Invitations.** A thread has a position, a request and the invitation it works on. Steps end where a
lock is released. `inv_close` on an invitation with a game in progress returns with the mutex held (line
336): the step keeps `lock[v]`, as the code does.

**Players.** A player is the rank of its name in `strcmp` order. Posting a result takes the two locks,
computes, pays twice and unlocks, a step each. `Stakes` is what two ratings can become: each new rating
loses its fraction toward zero in the assignment to `int` (208-209), so that of two players whose
ratings end at or below zero the pair can gain a point. How much a result is worth is left open; the
doubles are taken as exact. A login on a name in use may fail or not: `client.h:79-80` says it does, the
linked library's `client_login()` never looks at other clients, and `server.c` ignores the result either
way. A connection that has ended may be made again (`Connect`).

**Ticker.** The process is a stack of frames. An action is what runs between two accesses to the list
that a handler can come between; `Deliver(sig)` pushes a handler wherever the mask allows, and signals
of one kind coalesce. A freed WATCHER keeps its contents until it is allocated again; the SIGCHLD
handler reads `next` of the one it just freed (line 64). Every other access to a freed one ends the run
as `faulted`. `torn` records the one race that breaks the list and is exempted, from either side:
SIGCHLD removes the WATCHER that a new one has just been pointed at (`watcher.c:143`), or a start in a
SIGIO handler puts a new one in front of the successor that an interrupted SIGCHLD handler is about to
point back over it (`watcher.c:55-58`).

**Heap.** Memory is a function from rows of 8 bytes to numbers, and a number is a tag, a link or data
depending on who reads it. Each C function is an operator from heaps to heaps, each client call one
action (the allocator has no threads). `held` records how many rows the client asked for, whatever the
block's tag says. Ends of the program are fates: `crashed` (a store through NULL or outside memory),
`aborted`, `overrun` (a store behind what `sf_memalign` got, or by a client at the end of a region that
is shorter than it asked for), `smashed` (`splitBlock` writes a footer where an old header says, line
307; `coalesce` follows two words of data as links, line 205). The model was compared with the compiled
`sfmm.c`, memory word by word, over several thousand random calls.

**Fliki.** A file is a sequence of characters; the numbers and the letter of a header are one character,
a key of `Headers` (a header that is read as data counts once in a report buffer). `Arrive` makes up the
next line of the diff when the program comes to it, also one without its newline. `Delete` and
`AppendChar` read one character through `hunk_getc`. Results, output and report buffers were compared
with the compiled `fliki.c` for every diff of four lines of the instance.

**Service.** The stream is a sequence of units, three to a header (type, size, timestamps), two to a
payload, so that a read can end inside of either. What a short read leaves is modelled as the code
leaves it: a header that is partly the previous one, whose size is 0 because `proto_recv_packet` begins
by clearing it; a payload that is freed and yet returned (`protocol.c:152`). After a read out of step,
the fields of a header are any. `Write` is `write(2)` on a socket that is open, closed by the peer,
reset or shut down; a write to a broken one raises SIGPIPE, which the server neither handles nor
ignores, and `status` becomes `killed`. A notice from another client's thread is one write or, with
data, two (`Notify`, `NotifyData`; `protocol.c:74,82`), between which no answer comes, since both hold
the CLIENT's mutex. A request or the cleanup may wait for ever for a mutex that was never given back
(`Hangs`; `invitation.c:336`, `player.c:204-205`): `hung`, `hungInCleanup`. A write never waits: the
socket's buffer is taken to be large enough. A use of freed or missing memory ends the run as
`undefined`.

**Patch.** A patch is a sequence of lines; a line is its kind and the numbers or the text behind it. A
job is what the program is given: files, patch, arguments. A step is one turn of a loop of the code, or
a function without one. `p_char[]` and `p_line[]` keep what earlier hunks left in them, because
`apply_hunk` reads behind the end (line 1499): `Behind` and the constant `Freed` stand for that. SIGHUP
and SIGINT may strike wherever `set_signals` lets them (`Interrupt`); SIGTERM, SIGQUIT and the like,
which the program leaves alone (620-636), strike anywhere (`Kill`). A copy to a file that could not be
linked may be cut short by either a failing write or a signal (`CutShort`). A normal command is taken as
`another_hunk` takes it: how many `<` and `>` lines it wants comes from the numbers on both sides of the
letter, also where the letter makes no sense of them. `strayed`, `garbled`, `applied` and `kept` are
history variables: they record when the program went past the end of a hunk, when it wrote "misordered
hunks", where hunks were applied, and which files the disk refused. Final states of the instance's runs
were replayed on the compiled program: 1311 exits, 172 fatal errors and 6 failed assertions agree.

## 3. Runs

| Run | Question | Instance |
|---|---|---|
| `registry_service` | array, references and lookup among service threads | 3 connections for 2 slots, 2 users, `accept` may fail; symmetric |
| `registry_termination` | critical sections, wakeup, sweep, contract, progress | 2 connections, `accept` may fail, `terminate()` started twice on any threads; no users, so no lookups |
| `invitations` | references, games, results, lives, progress | 2 clients, 2 invitations, every request but DECLINE |
| `players` | references, ratings, locking | 2 connections, 3 names, 2 results of 0 to 2 points, from rating 0 |
| `ticker_races` | the list under every interleaving of handlers | 3 lines typed, 3 children, 2 WATCHERs, ^C |
| `ticker_signals` | no input, output or death is overlooked | 2 lines, 2 children, one writes |
| `heap` | tags, lists, ownership, contents | 2 pages of 10 rows, 2 quick lists of 2, 3 free lists, 3 sizes, 3 alignments, 3 regions |
| `heap_calls` (violated) | does every call return? | one page, one size |
| `fliki` | are proper diffs applied and improper ones reported? | 5 lines of 15 kinds, each also cut short, 5 texts, buffers of 8 bytes |
| `service` | order, answers, payloads, survival, progress | 2 requests of 4 kinds, cut anywhere; client and server may close, and notices be written, at any moment |
| `patch` | new files, rejects, backups, `-D`, signals, termination | context, normal and ed diffs of all edits of up to 3 lines, and of longer ones with two hunks, on their own version, the other one, shifted ones and damaged ones; one or two patches; switches |
| `patch_same_version` (violated) | is a patch always right on its own version? | two hunks |

Why the bounds are enough to be of interest: three connections for two slots fill the array and let the
race for the last slot happen; two connections and two calls of `terminate()`, each on any of the three
threads, contain every pair of actors of the shutdown: `main` and a service thread, two service threads,
or one thread twice. With three connections, one user and one call the properties were checked once (2.6
million states, more than a run may take). Two clients and two invitations give each client both roles,
at once or one after the other. To an invitation DECLINE is a REVOKE by the other side, and is left to
the theorems, which hold for any of the requests. Three names let two threads lock overlapping pairs and
let logins pick different orders. Ratings begin at 0, not at 1500, so that two results reach the ratings
around and below zero at which truncation changes direction. Two WATCHER addresses with three starts
reuse a freed cell. Three would be needed for an insertion between the two writes of a removal, whose
successor is the third; that instance (2 186 131 states) takes longer than a run may, and was checked
once with every property of `ticker_races`. The theorems hold for any number. Ten rows to a page are
just enough for a block to be split and merged over the page boundary, and a quick list of two is
flushed by the third free. A request of SIZE_MAX (-1), which yields the smallest block, was added once
(332 909 states, more than a run may take). Five lines hold a hunk of every kind, two hunks in or out of
order, and a hunk one line too long or too short. Counters are bounded by `MaxStarts`, `MaxResults`,
`MaxLines`, `MaxPages`, `MaxHeld` and `MaxRequests`. Two requests let the header of the first be obeyed
again, a login be followed by anything, and a client leave between an answer and the next request;
INVITE stands for MOVE and ACCEPT for the other requests whose packets are alike. Edits of three lines
hold every combination of a deletion, an insertion and a line of context; two hunks are what a stale
sign, an offset and a swap back need. `MAXHUNKSIZE` is 14 instead of 500, so that a hunk overruns it.
Context diffs of the instance always have both halves and two numbers in each header; a half that is
left out because nothing in it changed, and a header with a single number (998, 1004), are outside of
it.

Deadlock is not checked where the program may really stop: threads that wait for ever for a kept mutex,
an idle server, an ended process (registry, invitations, players), and where the model ends with the
program or with the diff (heap, fliki). Ticker, Service and Patch have an explicit step for resting or
having ended, and are checked.

## 4. Fairness

- `ClientRegistry`: weak fairness of every thread's own steps, in `terminate()` and in the service of a
  connection: POSIX threads that can run do run. Strong fairness only for `Cleanup`, which waits for
  `cr_lock` that others take and release: the mutex is not handed over in turn, but releases recur. The
  environment (clients, signals, `pthread_create()`) is not fair: a connection may stay open for ever.
- `Invitations`, `Players`: strong fairness of each thread's work, for the same reason (locks). What
  waits for itself, or for a mutex that was kept, is not enabled and waits for ever.
- `Ticker`: weak fairness of the process and of delivery of each pending, unblocked signal, which is the
  kernel's promise; and the children do not write without end, for otherwise the SIGIO handler may run
  on top of everything else for ever.
- `Service`: weak fairness of the thread's own steps, of the other half of a notice that was begun, and
  of the arrival of what was sent (TCP); strong fairness of the answer (`SendHeader`), which needs the
  mutex of the CLIENT that notices take and release. Nobody has to send, read, close, notify or shut
  down, and a request may hang, which is an outcome of its own and no step that fairness forbids.
- `Patch`: weak fairness of the program, and the user answers the prompts of `ask()` in the end. That he
  interrupts it, or that the disk fails, is never certain.

## 5. What the checks show

Held, for the instances above: the registry's array is exact, and stays so in a full array although the
gap is closed with a word from behind it; CLIENT, INVITATION and PLAYER references count their holders;
the empty registry wakes its waiter; the sweep shuts every registered connection; shutdown waits for
nothing but connections that register after the sweep, that `accept()` gave no descriptor, or whose own
thread a signal made run `terminate()`; each invitation implements `InvitationContract`, and the
registry `RegistryContract`, in which the wait returns only if the registry has been empty since the
call, but for one named step (`StalePermit`); results are posted once the game is off both lists; stakes
are computed from current ratings, a result takes at most one point from the pool and brings one in only
if it leaves neither player above zero; the service loop of an ended connection ends unless
`inv_close()` kept a mutex; the ticker's list is sound outside of changes, every child is watched, no
signal is lost; the allocator's tags and lists agree and regions are as long as was asked and keep their
contents, until one of the named fates and but for the two calls that hand out less (`ResizedInPlace`,
`AlignedTooFar`); fliki applies every proper diff and lets no improper well-shaped one pass in silence.
Until a packet is cut short, requests are dealt with in order, each once and as `ServiceContract` has
it, where an ACK of a LOGIN means that it succeeded, but for one named step (`FalseAck`); payloads are
freed once; and a client that has read its answers can close, or be closed, at no risk to the server,
unless another client's thread then still writes a notice to it. A connection that has ended ends its
thread or, by SIGPIPE, the process, or leaves the thread waiting for a mutex that is never given back.
patch makes the right file of a patch and its version, unless signs were left behind by an earlier hunk;
its output is the input with the hunks found in order spliced in, if the lines that stay are the same in
both parts of each hunk, which in the instance all are of which the diff is undamaged; `-D` keeps both
versions for hunks with one change; rejects are as they were read; no file is lost to an error, SIGHUP
or SIGINT, and one that SIGTERM or SIGQUIT catches between its removal and its replacement is there as
its backup (`KilledInBetween`); and it ends.

Violated, as `PROJECT.json` ("findings") quotes:
1. `sf_malloc()` takes a block from a quick list without counting it (`sfmm.c:424`): malloc, free,
   malloc, malloc of one size follows a NULL pointer.
2. `apply_hunk()` prints new lines as long as their sign is `!`, without looking at the end of the hunk
   (`patch.c:1499`): a shorter change behind a longer one gets lines that are freed.

Seen while modelling, in the model as the code does it, without a run of its own:
- Registry: the capacity test outside the lock lets two threads pass for one slot, and the second writes
  behind the array (105); a permit of an earlier empty registry is still there when
  `creg_wait_for_empty()` is called, which then returns with clients registered (269), although
  `client_registry.h:112-120` says that it blocks until their number has reached zero; SIGHUP and SIGINT
  are blocked in no thread, so that `terminate()` may run on a service thread, where it waits for its
  own connection for ever, or on one that holds `cr_lock`, where it waits for itself (`main.c:32-35`,
  173); the slot found by lookup is read again after the unlock (211); `creg_fini()` may abort once a
  client has left a full array, since the word copied into the gap is not NULL; the descriptor is closed
  while its CLIENT is registered (`server.c:39`), so that the sweep may shut another's; a connection
  accepted before the sweep and registered after it makes `terminate()` wait for ever (`main.c:176`).
- Invitations: after REVOKE or DECLINE of an accepted invitation `inv_close()` returns with the mutex
  held (336), and the service loop of the next thread that touches the invitation never ends.
- Players: truncation toward zero brings a point into the pool when neither new rating is above zero
  (`player.c:208-209`: at -16 and -32 the winner gains 16 and the loser loses 15); two connections under
  one name make the post of their game lock one mutex twice (204-205).
- Service: a notice with data that is written to a connection its client has closed, though politely, is
  two writes, and the second ends the server by SIGPIPE (`protocol.c:74,82`); a client that closes with
  an answer unread, or with requests pending, ends the whole server by SIGPIPE at the second write,
  although `server.c:115-119` says that only its loop ends; so does `creg_shutdown_all()` for a thread
  that is answering. A failed read of a header is taken for a packet with the type of the last one
  (`protocol.c:116`). A payload cut short is freed twice (152, `server.c:356`). A LOGIN whose header is
  cut behind its type is acknowledged with a NULL name, and INVITE or MOVE without a payload
  dereferences NULL: clients of the instance do not send that (`PayloadAssumption`). A login whose
  `client_login()` fails is acknowledged (`server.c:173-181`; `protocol.h:55`: ACK is "sent in response
  to a successful request"), the step `FalseAck`. That a thread writes to a descriptor which was closed
  and given to another connection meanwhile is outside the model. Payloads of requests before the login
  are never freed (162).
- Ticker: a WATCHER that is put in between the two writes of `cleanWatcher()` (`watcher.c:55-58`), from
  a SIGIO handler that interrupts a SIGCHLD handler, is skipped by its successor's `prev`, so that a
  later removal of that successor unlinks the new WATCHER while its child runs; lines that reach the
  ticker together are one message, and only its first command is obeyed (130), so that a quit behind
  another line is lost; end of input counts as no input (105), although `tests/hw4_tests.c:20-27`
  expects an end; SIGPIPE at the subscription; a prompt that is lost when output interrupts it.
- Heap: `sf_realloc()` forgets the header when a region stays in its place (520), so that for example
  the last 8 of the 32 bytes asked for are the next block's header, although `include/sfmm.h:224-231`
  promises them; it copies flags of the old block with OR (537), and its test for a failed allocation
  never succeeds (530); `sf_memalign`'s mask has a bit too many (547), so that it aligns to twice what
  was asked, further up than the room it has reserved (617), and the region may lack its end; a request
  near SIZE_MAX yields the smallest block; an invalid pointer is only sometimes noticed.
- Fliki: an error of `hunk_next()` is reported but `patch()` returns 0 (957); lines appended behind the
  text's end are let through, with the byte 255 written for the end of file, and the next line's sign
  becomes data because `outUntilFound()` sets `lastChar` (665); a byte of 128 or more ends the copying
  of the rest; the "new" line numbers of hunks are never compared; `0d` is accepted; lines of the wrong
  sign pass in a change hunk; the truncation flags are never reset.
- patch: SIGTERM or SIGQUIT between `unlink()` and `link()` (1226, 1232) leaves a user's file under its
  backup's name only; a write that fails in the middle of the copy (1244) leaves part of it; `plan_a()`
  reads the byte before an empty file (385) and makes it one of an empty line; with `-D`, the `#endif`
  is missing between two changes of one hunk; a hunk one line too long for `p_line[]` is written behind
  it; signals stay ignored for the rest of the program once a file was moved; `-o -` fails unless the
  output is one byte (1190); a fatal error says where the output is and removes it; ed's exit status is
  not looked at; lines printed from behind the end of the file come from a pointer to an empty string;
  `-c` with a normal diff that only deletes takes it for an ed script; a first hunk that only deletes
  always fits when it is swapped, so that text it should delete is offered for insertion;
  `rev_in_string()` does not find a word at the start of the line.

## 6. What is proved

From the assumptions of the modules' constants alone: any finite set of connections, any capacity of at
least one, any users and any number of signals, on any threads (`ClientRegistryProofs`); any finite set
of clients, any invitations and any of the requests (`InvitationProofs`); any finite sets of connections
and names, any stakes and any number of results (`PlayerProofs`); any WATCHER addresses, children,
commands and number of lines typed (`TickerProofs`, `TickerListProofs`); any headers, texts and diffs,
and any `HUNK_MAX` that holds a character with its two bytes of count and the two of the end
(`FlikiProofs`); any jobs, texts and names of files, hunks of any lines, any positive `MAXHUNKSIZE` and
any way of comparing loosely (`PatchProofs`); any number of requests of any kind that bring the payload
they need (`ServiceProofs`).

| Theorem | Property |
|---|---|
| `ClientRegistryProofs!TypeCorrect` | `TypeOK` |
| `ClientRegistryProofs!RegistryStaysExact` | `RegistryIsExact` |
| `ClientRegistryProofs!CriticalSectionsExclude` | `CriticalSections` |
| `ClientRegistryProofs!RefCountsAreExact` | `RefsAreCounted` |
| `ClientRegistryProofs!WakeupIsNotLost` | `NoLostWakeup` |
| `ClientRegistryProofs!SweepIsComplete` | `SweepReachesAll` |
| `ClientRegistryProofs!LookupsAreRight` | `LookupIsRightWhileNoneLeaves` |
| `ClientRegistryProofs!RegistryImplementsContract` | `ImplementsContract` |
| `InvitationProofs!ReferencesAreExact` | `RefsAreExact` |
| `InvitationProofs!GamesFitStates` | `GameFitsState` |
| `InvitationProofs!PostedResultsAreFinal` | `ResultsAreFinal` |
| `InvitationProofs!DepartedLeaveNothingOpen` | `DepartedSourceLeavesNothingOpen` |
| `InvitationProofs!LivesAreAsPromised` | `LivesAsPromised` |
| `PlayerProofs!PlayerRefsAreExact` | `RefsAreExact` |
| `PlayerProofs!RatingsAlwaysBalance` | `RatingsBalance` |
| `TickerProofs!DroppedForGoodReason` | `OnlyTheDeadAreDropped` |
| `TickerListProofs!TheListIsSound` | `ListIsSound` |
| `TickerListProofs!TheChildrenAreWatched` | `ChildrenAreWatched` |
| `TickerListProofs!NoFeedStaysBehind` | `NoFeedIsLeftBehind` |
| `FlikiProofs!BuffersHold` | `TypeOK` |
| `PatchProofs!NoFileIsLost` | `FilesRemain` |
| `PatchProofs!BackupsAreMade` | `TextsAreBackedUp` |
| `PatchProofs!OutputIsAsPatched` | `OutputIsSpliced` |
| `ServiceProofs!EveryPayloadIsFreedOnce` | `PayloadsAreFreedOnce` |
| `ServiceProofs!PoliteClientsAreHarmless` | `PoliteClientsDoNoHarm` |
| `ServiceProofs!ServiceKeepsItsContract` | `ImplementsServiceContract` |

**ClientRegistry.** The argument is one inductive invariant in three layers. `ArrayInv` joins
`RegistryIsExact` and `CriticalSections` with `HoleIsKnown`: exactness alone is not inductive, since the
step that closes the gap must know that the gap is where the thread thinks, and that no other thread
changed the array in between, which is what the lock is for. `RefInv` adds the references; it needs
`ArrayInv` so that a lookup only finds clients that are alive. `MainInv` adds the semaphore and the
sweep: `SweptAreShut` says that below the cursor of each thread that sweeps everything is shut,
`HistoryInv` that a permit is there only if the registry has been emptied, and that whoever waits while
it is empty has seen that, `SocketsOfThreads` that only registered threads' sockets can be open where it
matters. `Inductive` combines them; each theorem follows, `SweepIsComplete` from `SweptAreShut` at the
step that unlocks.

`LookupsAreRight` needs a fourth layer on top (`LookupInv`): a thread between the unlock of
`creg_lookup()` and its second read of the slot still finds the name there, because entries only move in
`creg_unregister()`, and whoever calls that has closed its connection (`ClosedAreLeaving`). The
refinement of `RegistryContract` takes the clients in the array for the members. The contract has room
whenever the array does, by counting: the members are mapped into the occupied slots by an injection
(`MembersFitTheArray`), since the array is exact. Appending an entry admits, clearing it releases those
who wait, also before the gap is closed (`awaited`); a thread that returns was released or, by
`HistoryInv`, has taken a permit left from an earlier emptying (`StalePermit`); every other step leaves
the contract alone (`ContractStep`).

**Invitations.** `InvitationInv` is needed as a whole. `GameFitsState` is not inductive: accepting
creates a game, so the invitation must still be open, and in both lists (`OpenIsListed`), when the
target accepts it; resigning and moving end the game before they take the invitation off the lists, so
what is on its way off must be over (`OnlyFinishedIsUnlisted`). `RefsAreExact` counts the lists and the
threads at work; adding one of them is a step of `Cardinality`, and needs `OfferIsPrivate`, so that the
target's list gets the invitation once. `DepartedSourceLeavesNothingOpen` follows from what the service
thread remembers: what is not finished is in its list of ids or in its hands (`UnfinishedIsRemembered`),
and it ends with that list empty. `MutexesStayInClose` and `LeakedForGood` say where an invitation's
mutex can be between two steps, and that one kept by `inv_close()` is kept for good. For the refinement,
`LifeStep` shows for each invitation that a step of any thread is one of `InvitationContract` or none;
`EveryLifeIsAsPromised` makes a behaviour of it.

**Players.** `PlayerInv` has the references (`RefsAreExact`: pointers of CLIENTs, of logins under way
and of lists), who owns which mutex (`MutexesAreOwned`), and that a rating is what it was when it was
read until it is paid on (`RatingsAreAsSeen`), which is what both mutexes are for; a thread that would
lock one player twice waits for itself and never computes. `BalanceInv` then follows the sum of all
ratings through the steps of a post: what is owed counts as paid, so that the balance moves when the
stakes are computed, down by one point at most, up by one only if neither rating ends above zero, and at
no other step. How a sum over a finite set changes with one term is shown (`SumOfChanged`) from the
recursive definition of the community module. The prover has no induction over sets; a least set for
which a claim fails, which exists since strict inclusion among the subsets of a finite set is
well-founded, does the same.

**Ticker.** `OnlyTheDeadAreDropped` is about one step, the free in `cleanWatcher()`, but why it is right
lies several steps back: the handler found the child reaped, or no such child, and other handlers have
run since. `DroppedAreDead` says that what a frame is about to drop is dead and not being made by a
frame above it. "No such child" means reaped only if a pid on the books is that of a child that was
forked (`PidsAreOfChildren`), and a WATCHER without a pid is one whose start was interrupted only if
some frame is at work to make it (`HalfMadeHaveMakers`). Both survive what happens above because only
one SIGCHLD handler is ever on the stack, which `HandlersNest` shows from the masks: each handler's
signal is blocked, and stays so in every mask that a handler above it will put back. Most steps
allocate, start and drop nothing and only move the running frame; `MoveKeeps` deals with them at once,
and each of the other steps has a lemma of its own.

**The list of WATCHERs.** Between two writes of `newWatcher()` or `cleanWatcher()` neither `next` nor
`prev` is what it should be, several such writers can be on the stack at once, and the SIGCHLD handler
walks over WATCHERs it has just freed. `WatchersInvariant` reads the list through what its writers have
begun: a WATCHER that is being made is not in it before the last write of its insertion, one that is
being removed has left it with the first (`On`); what `next` and `prev` are to be, while a writer stands
between its writes, are `Succ` and `Pred`. In these terms all writes but two leave the list alone, and
those two put in and take out one element of a doubly linked list in order of the ids (`InOrder`), for
which there are lemmas that speak of no ticker. `Trail` adds the removed WATCHERs that a handler still
stands on, and `ChainOK` says that `next` leads from those back into the list, as far as it leads to
memory that is allocated. `FramesFit` says where each frame stands: a maker next to the gap its WATCHER
goes into (`MakerOK`, `PlaceOK`), a reaper in the list or before something made meanwhile (`ReaperOK`),
the end in front of everybody it has not told (`WalkOK`). `Booked` is `ChildrenAreWatched` while writers
are at work. `ParsersOK`, on which all this rests, says that one frame at a time obeys commands, since
the main loop reads with SIGIO blocked. Two ends are let out by name: `EndedOver`, when quit or SIGINT
removes the list on top of a handler that stands in it and will not run again, and `Astray`, when a
SIGCHLD handler's next step goes through a freed WATCHER and the run is over. That a walk from the head
finds the whole list (`WalkFindsAll`) is shown by a first element that it misses. The invariant was
model-checked, with 3 WATCHERs and 3 children, before it was proved; that is where the second side of
`torn` was found.

**Fliki.** `BuffersHold` is about the arithmetic of `hunk_getc()`: a line's two bytes of count are taken
from the buffer with the line's first character, and the character is stored only if two more bytes
remain for the end of the report (`BufferKeepsRoom`), whatever the header announced. That the text is
read once and from front to back needs that what is left is the end of it (`Left`), which each branch of
`patch()` preserves (`LeftGoesOn`).

**Patch.** A file is missing from the disk only between `Unlink` and `Install`, so `FilesInv` says what
holds there: SIGHUP and SIGINT are ignored, the removed file's text is in its backup (which is all that
is left if another signal ends the program there), and it is the destination of the move. That a file
and its backup never share a name (`BackupPath`) is what the two theorems rest on.

**The output of patch.** `OutputIsAsPatched` says that what `apply_hunk()` writes is the input with the
new lines of each hunk in place of its old ones. `PatchTypes` comes first: a hunk that has been read
fits `p_line[]`, and whatever is written is a line (theorem `PatchTypesHold`). `SpliceInv` has two
parts. Between two hunks (`Settled`) the output, followed by the lines of the input not yet copied up to
the end of the last hunk, is the file as it should be up to there. In a hunk (`Amid`) the same is said
up to the line reached, from the two places at which `apply_hunk()` reads the old and the new part:
`TextTo` needs that they are in step (`Place`, `InStep`), which a `twin` for each line that stays and
for the first line of each change expresses. `TwinsMeet` shows that the places are at twins whenever
both are at such lines, `StepOver` and `StepAside` that each of the five branches of the loop keeps them
in step, and `OnlyAddedLeft` that when the old part is done nothing but added lines is left. One hunk
more makes the spliced text longer by its piece (`FlattenOneMore`, `TillGrows`): what `FlattenSeq`
computes is shown from its definition by a least counterexample, as above. Each hypothesis of the
property stands for something the code does: hunks found out of order are put where the file has already
been copied ("misordered hunks! output will be garbled"); signs that an earlier hunk left behind are
taken for lines of this one (`strayed`, the second finding); with `-D` both versions are written
(`DefinesKeepBoth`); and a hunk whose parts do not have the same lines that stay has no file it could
mean.

**Service.** `SafeInv` (theorem `ServiceIsSafe`) holds until a read is cut short. `StreamInv` says that
the stream is one of packets, and of whole ones while the client is there: each unit determines the next
(`Follows`), which appending a packet and cutting the tail off preserve (`MakeKeepsFrames`,
`CutKeepsFrames`). `PlaceInv` ties the thread to it: what has been read ends with the last unit of the
request before the one whose turn it is, so that the next header is that request's (`HeaderIsNext`,
`PayloadIsNext`). Without it the contract is not inductive: an answer would go to whatever the header
names. `HeapInv`, `ReplyInv` and `PoliteInv` build on these; `AnsweredMeansRead` shows that a client
whose requests are all answered has nothing left to be read, hence nothing to be answered when it is
gone. A notice after the end is where politeness stops to protect: `late` marks it. The refinement maps
a login to the moment its answer is sent, and to `FalseAck` if it had failed; a step that cuts a read
short maps to `Spoil`, everything after it to `Anything`.

Only model-checked, and why:
- All liveness: fairness and ENABLED are outside the prover's reach.
- `OnlyProperDiffsPass` and `ProperDiffsApply` of Fliki compare `patch()` with a definition of diffs and
  of patching that selects, sorts and joins the hunks of a whole diff. What the operators of the
  community modules that do this compute for a sequence of any length takes induction over data.
- `HeapIsSound` walks memory by the sizes it finds there, and the allocator's own walks are recursive
  operators; a module that reaches one loses the prover's SMT backend.
- `FilesAreAsPatched`, `DefinesKeepBoth` and `RejectsAreAsRead` of Patch compare with what each job of
  the instance says of its own diff (`goal`, `diff`). That the label fits the data is a fact about the
  jobs of `MCPatch`, and a theorem would have to assume it of each.

## 7. Plan, and what is not modelled

Written in this order, the hardest interactions first: ClientRegistry, Invitations, Players (proved),
Ticker (its safety proved), Heap (checked), Fliki (checked; its buffers proved), Patch (checked; its
files and its output proved), Service (its safety proved). What could come next is a definition of
proper diffs that is itself a state machine, which Fliki could be shown to implement step by step.

Not modelled, and why:
- Jeux: the text of messages (data that no property looks at), byte order and timestamps; `lib/jeux.a`
  and `csapp.c` (no source, third-party); a failing `malloc` or `write` other than by SIGPIPE.
- Ticker: what messages say and the store they go to (an object file); a second CLI watcher (`start
  CLI`), tracing, a failing `pipe` or `execvp`, `malloc` interrupted in itself.
- Heap: `sf_errno` and the zeroing of new pages.
- Fliki: options (`validargs.c`), the digits of numbers, lines of more than 127 characters in a report.
- patch: `plan_b()` and `ifetch()`, which hold the file on disk instead of in memory; checking out of
  RCS and SCCS; the loop that finds a backup a name when names are cut to 14 characters; indented
  patches; the directories `fetchname()` strips; what is written for the user to read.
- `hw0`.
