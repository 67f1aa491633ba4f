# A TLA+ development of BeEasy

BeEasy is a collection of small C programs on Linux system programming. Most of
them are demonstrations; a few are systems: a file transfer over raw Ethernet
frames, an echo server on edge-triggered epoll, `popen` with a table of
children, a re-implementation of `system` with its signal protocol, and the JSON
library the repository carries. This directory models those five and three
smaller programs that have a hazard of their own (a memory pool, the walks over a
directory tree, a second `popen`), checks them with TLC, and proves the
invariants they rest on with TLAPS. The last section says what is left.

## 1. Inventory

Line counts are those of the C sources.

| component | state | operations | interacts with |
|---|---|---|---|
| `fileTransmit` client (fileTransmit.c, 501 shared) | source file, read offset, end-of-file flag, announced size, count | START, ING per `fread`, END, one `recvAck` after each | receiver, over the segment |
| `fileTransmit` receiver | global `fp`, open streams with buffers, files, `recvCount`, `fileCount` | `createFile`, `recvFileData`, `fflush` on END, answer, exit | every sender of Ethernet type 0x1024 |
| `ethernet.c` (179), `ethernetDemo` (298) | none; raw socket | create socket, send, resolve addresses | both |
| `epoll_server.c` (142) | registered descriptors, `cur_fds`, `evs[]`, the write in progress | wait, accept, read, write, close | any number of TCP clients |
| `epoll_client.c` (125) | one connection | send a line, print what comes, quit | server, terminal |
| `pipe_open/popen.c` (100) | `childpid[]`, descriptors | `popen`, `pclose` | children, through pipes they inherit |
| `pipe_open/popen_iml.c` (51) | none | `mypopen`, waits before it returns | child |
| `execShell.c` (121) | signal actions and mask, saved and restored | `exec_shell`, `exec_shell_with_result` | child, terminal, the application's handlers |
| `spinLockTest.c` (146) | a spinlock, two kernel threads on one CPU | lock, sleep, unlock | scheduler |
| `log.c` (91) | `log_file`, level | init, message, close | file |
| `walkthroughPath.c` (213), `file.c` (221) | a directory tree on disk | size, delete by age and size, delete all, copy, map | other users of the tree |
| `sockets_tcp` (251) | one connection | one exchange | peer |
| `mii.c` (201), `memPhy2Virt` (280) | device registers | read, write, map pages | other users of the device |
| `curl-static.c` (118) | pool, its index | malloc, realloc, calloc, strdup, free, reset | libcurl, through callbacks |
| `jsonRead/cJSON.c` (2936) | items linked as siblings and children; a print buffer | create, add, insert, detach, replace, copy, delete, find; parse, print, minify, compare | any caller, jsonRead.c first |
| `getopt.c` (127), `str2hex.c` (146), `crc32.c` (109) | parser position; none; table | parse, convert, sum | caller |
| `dispatch`, `realloc`, `2d_array`, `bitField`, `elfRead`, `curl.c`, build files | none that outlives a call | | |

What is hard in them, and what makes each correct:

* **fileTransmit.** Frames and answers are lost, damaged, or left over from an
  earlier run; there are no sequence numbers, no timeouts and no check of who
  sent a frame. Correct means: success is reported only for a complete copy;
  the copy is at every moment a prefix of the source; one frame under way per
  client; both sides count the same frames; without loss both end.
* **epoll server.** Events are edges, merged and possibly stale by the time they
  are handled; sockets block; descriptors are a limited resource counted by
  hand. Correct means: the count is right, every event handled is real, bytes
  are conserved, and a client that keeps to the buffer size is served and
  freed in spite of clients that do not.
* **popen.** Descriptors are inherited by every later child and their numbers
  are used again. Correct means: the table tells the truth, a child holds its
  own end only, `pclose` returns.
* **exec_shell.** Signals arrive between any two calls. Correct means: the
  caller survives the interrupt key, the command reacts to it as it would
  without exec_shell, everything is given back on every path, the status is
  the command's.
* **cJSON.** A call stores into up to five pointers of three items, in cases for
  the first, the last and the only child; two flag bits decide what is freed
  with an item. Parser and printers keep offsets, a depth and a buffer that
  moves. Correct means: `next` and `prev` are inverse and close no cycle, an item
  has one owner, every buffer one item; texts are accepted exactly when they
  are values, nothing is written past a buffer, and what was printed is read
  back as it was.
* **curl-static.** A pool that only grows, whose realloc copies too much. Correct
  means: what libcurl stored in a block it holds is still there.
* **walkthrough.** Any call may fail half-way because another process removed the
  entry, and `stat` follows links. Correct means: what a walk leaves, or counts, is
  explained by what failed and what was removed.
* **mypopen.** It waits for the command before it hands out the other end of the
  command's pipe. Correct can only mean that it returns for commands that need
  nobody at that end.
* **spinLockTest**: a deadlock by construction. **log, file_operation**: sequences
  of legal calls.

`PROJECT.json` lists the hazards one by one at the lines where they bite, with
the properties that would notice them going wrong.

## 2. Modules

```
EthernetLink <- FileSend --+
             <- FileRecv --+-> FileTransmit <- MCFileTransmit -(refines)-> FileCopy
                                            <- FileTransmit_proofs
MCFileTransmit, FileTransmit_proofs <- Transfer_proofs
EpollServer  <- MCEpollServer, EpollServer_proofs
Popen        <- MCPopen, Popen_proofs
ExecShell    <- MCExecShell, ExecShell_proofs
JsonItems -(refines)-> ItemLists
JsonItems, JsonText --> MCJson
JsonItems    <- JsonItems_proofs
CurlPool, WalkPath, MyPopen --> MCTools
CurlPool     <- CurlPool_proofs
WalkPath     <- WalkPath_proofs
```

**EthernetLink** is the segment: `toServer`, the frames the receiving machine has
not read, in order, and `toClient[c]`, the answers for client c. Frames keep the
fields the programs look at: source, status, announced size and path (START),
sum and content (ING). Bytes are small numbers and a frame carries
`TRANSMITSIZE` of them; `checksum` is the additive sum of the code, which never
wraps because a frame holds at most 1488 bytes. Conversions of byte order are
left out: both programs apply them in pairs. One segment neither reorders nor
duplicates the frames of a pair of stations; it may lose or damage them
(`LoseFrame`, `LoseAck`, `Corrupt`), and a stranger may use the same type
(`Stray`, after ethernetDemo/sendEther.c). `Faults` says which of this a run
allows. `Corrupt` damages the content of a data frame, which is what the program's own
sum is there for. Damage that keeps the additive sum, and damage of the other fields, is
left to Ethernet's own check: the program's sum does not cover `len`, status and name, and
`recvFileData` takes `len` as it comes (fileTransmit.c:339), so that what a damaged one would
do is not defined by the code.

**FileSend** has one action per stretch between two blocking calls. `SendReq`
is main and fileSend up to the first `recvAck`; `SendFileData` one turn of the
loop up to its `recvAck`, with every outcome of `fread` and the failure of
`sendto`; `RecvReqAck`, `RecvDataAck`, `RecvEndAck` the three answers, of which
the first and the last are returned as they come and the second as -1.
`ClientKilled` and `FileGrows` are the user and other programs.

**FileRecv** reads one frame and handles it completely, answer included, in one
action: between two calls of `recvfrom` nobody else sees its state. The files
are behind stdio: a stream is a path, an offset and a buffer, `fwrite` may leave
any part in the buffer, and `fflush`, `fclose` and exit drain it; a kill loses
it. `createFile` pushes a new stream and forgets the old one, which is drained
at exit, as in the code. `fp = 0` is NULL. An unknown status is answered SUCCESS
because `ret` still holds the result of the receive.

**FileTransmit** composes them and holds the properties. **FileCopy** is what a
user expects of a transfer, without protocol: the copy is emptied once, is then
always a prefix of the source, and success means complete and final.
MCFileTransmit maps the detailed state to it.

**EpollServer**: `EpollWait`, `Accept`, `AcceptFails`, `AcceptOrAddFails`, `Read`, `Write`
and its two late forms are the code between two system calls; `evs` is the unhandled rest of
`evs[]`, whose order epoll does not promise, hence a set; `echo` is the write main
is in. `edge` and `Readable` model edge-triggered readiness. Connections of clients
are counted in bytes; `Polite` clients send at most a buffer and wait for the
echo, the others do what they like, reset included. The setting of
O_NONBLOCK concerns the listening socket alone (accepted sockets do not inherit
it), hence blocking reads and writes. `WriteAfterReset` has the three cases of Linux: a
write that had copied something returns a short count; the first write after a reset of a
connection the client had not closed before returns ECONNRESET, which main does not look
at, and the server goes on (`told`); any later write, or one after the end of the stream
was received, raises SIGPIPE, which ends the server. Descriptors are named by their
connections, so that a number is not used again for another one: with
`EventsAreReal` no event outlives its descriptor within a batch, and the kernel drops
what it had queued for a closed one.

**Popen**: `fds` and `child[k].tab` are descriptor tables whose entries name pipe
ends, so that end of file and SIGPIPE follow from who holds what (`Held`).
`PopenFork` and `PopenParent` are separate because the child runs in between;
`Pclose`, `Fclose` and `Waitpid` because two of them block. The child's path from
fork to exec is one action, on its own copy of the tables. `ReapedElsewhere` is an ignored
SIGCHLD or a wait of the application's own, which take the status of any child, before or
during pclose; `taken` remembers those children, and `WaitpidFails` is the error that pclose
then gets and returns. EINTR alone is retried (`Waitpid`).

**ExecShell** has one action per system call of exec_shell, in the caller and in
the vfork child, and the terminal's signals in between. `WaitpidInterrupted` is the
handler of any other signal of the application (`OtherHandler`): exec_shell does not call
waitpid again, returns -1 and gives SIGINT and SIGQUIT back while the command runs.
`eintr` says that this happened in the call, for the properties that cannot hold then.

**JsonItems** is the pointer structure of cJSON.c: `next`, `prev` and `child` of every
allocated item, and of its data the `label` that memory management looks at (name,
constant name, reference, whose valuestring). One action per function that
creates, adds, inserts, detaches, replaces, copies or deletes, with the
assignments in the code's order where they overlap (`DetachItemViaPointer`,
`ReplaceItemViaPointer`, `add_item_to_array`). `malloc` may fail anywhere; the one
function that leaks then, cJSON_AddItemReferenceToObject, does so in the model.
The caller keeps to the API: it hands over only roots it holds, puts no item
below itself and deletes nothing that a reference still borrows. Items without
children and without a valuestring are one type, since the code adds children
to any. `Duplicate` copies trees (`IsTree`): an item below which two references share one
list, which the code copies once for each, is not duplicated here. **ItemLists** is what all this promises: a sequence of children per item, of
which a call inserts, removes or replaces one element and disturbs no other. JsonItems
maps to it by `ChildLists`: for every item that is no reference, what a walk along `next`
from its first child meets (`Kids`).

**JsonText** has the functions on text as operators over sequences of bytes: the
recursive descent with its depth, its whitespace skipping and its step back at
the end of the buffer, `parse_string` with escapes and surrogates, the printers with
`ensure` before each store and `print`'s final cut, `cJSON_Minify` with its two pointers
in one buffer, and `cJSON_Compare` with either value of its last argument. Each call is one step and leaves its result in `call`; the
properties compare it with definitions that have neither offsets nor buffers
(`IsValue`, `Chars`, `Decoded`). A number keeps the bytes it was read from
(strtod and printf are not this program's). Memory has its size: `Unescape` is given the
`room` that parse_string estimated, a `PrintBuffer` has a `length`, and the field `inside` of a
result says that nothing was stored past either. A printer's buffer grows by realloc,
which keeps everything, or without that hook by a copy of `offset + 1` bytes, what is behind
them being unknown (`Reallocated`); malloc succeeds `Reallocs` times. `cJSON_Minify`
stores into the text it goes on reading (`Kept`), so that a writer in front of the reader
would destroy what is to be read. Raw items are printed as they are and mean what their
text says (`Meant`).

**CurlPool** is curl-static.c against any order of requests of libcurl; size_t
wraps at `SizeMax`, and what realloc's oversized memcpy brings into the new block is
any value where source and destination overlap. **WalkPath** keeps the stack of
open directories of the recursive functions; `opendir`, `stat` and `remove` may fail at any
entry, for whatever reason, and another process removes files between two of them; a `stat`
that fails gives up the whole directory, and `stat` of a link must fail once what it leads
to is gone (`Dangling`). A tree
is given by `Place`, the directory an entry is in, and `Leads`, the directory `stat` finds
for it, which is a final one. `DepthAssumption` excludes links that lead back up: the
code follows them until `stat` refuses to, which depends on a limit of the system. A
way (`IsWay`) is a path of entries down from `Path`, and `Total`, what get_dir_size
should report, counts the bytes of a file once for each way to it. **MyPopen** is
mypopen, its child, the pipe, and another child that `wait` may take instead; `wait` may
also fail, which the code does not look at (`WaitFails`), and the caller closes the stream
in the end, if fdopen gave it one.
The three share nothing but MCTools, where each behaviour runs one of them.

## 3. Runs

| run | instance | what it shows |
|---|---|---|
| lossy | 1 client, files of 0, 1, 2, 3, 4 bytes with 2 per frame, growth to 4, every fault except kills and strays | `StopAndWait`, `DeliveredIfSuccess`, `CountsAgree`; `RefinesFileCopy` |
| lossless | nothing lost; damage and failures of send, open, write | `FrameCountAsAnnounced`; `ClientFinishes`, `ServerExitsAfterEnd` under fairness |
| restart | 2 runs of each program, kills, strays, lost answers, edited source | `OffsetFaithful`, `FirstRunNeverCrashes` |
| twoclients | two clients, no faults | `DeliveredIfSuccess` fails |
| serverrestart | the receiver is killed and started again | `DeliveredIfSuccess` fails |
| refusal | the file cannot be created | `RefusalReported` fails |
| epoll | 3 connections, MAXLINE 2, descriptors for 2 of them, resets, failures of accept and epoll_ctl | `Accounting`, `LimitNeverReached`, `EventsAreReal`, `EchoConserved`; `PoliteIsServed`, `PoliteIsFreed` under fairness |
| popen | 3 streams, 7 descriptors, pipes of capacity 1, children reaped elsewhere | `Tracked`, `OwnPipeOnly`; `PcloseReturns` under fairness |
| execshell | 2 calls, all 27 combinations of actions, both masks, a handler of another signal | `CallerSurvives`, `CommandSignals`, `RestoredOnReturn`, `StatusIsTheCommands` |
| execshell_nochild | actions a process can inherit | `NoChildError` fails |
| json | 4 items, 2 names that differ in case only; texts of up to 3 tokens, printed trees with every single byte lost or replaced, with a comment at every place, behind whole and cut byte order marks, string literals of two units, 8 lengths of buffer with realloc and without | `LinksMatch`, `OwnedOnce`, `BuffersOwned`, `RefinesItemLists`; `ParserAgrees`, `EscapesDecode`, `PrintFits`, `PrintRoundTrip`, `MinifyKeeps` |
| tools | a pool of 4 bytes; a tree of 9 entries with a link out of it; a pipe of 2 bytes | `StoredIsThere`; `LeftoversExplained`, `SizeExplained`; `MypopenReturns` under fairness |

Every type invariant is checked by one run (lossy, epoll, popen, execshell,
json), except those of CurlPool and WalkPath, which are only proved; MyPopen and
JsonText state none.

*Why the bounds are enough.* The lengths of files give every case of the loop of
sendFileData: nothing, less than a frame, exactly one (and the empty frame after
it), one and a part, two. The protocol has no counter that could only misbehave
later. `restart` has two runs of each side because leftovers of a run meet the
next one, and `MaxQueue` 2 lets one stray frame be in front of a regular one.
`epoll` has fewer descriptors than connections, so that accept does fail for want
of them; one polite client, one that sends up to two buffers, at once or in parts, so that
the server writes to it once more after a reset, one that sends a byte and leaves; two bytes of socket buffer make a write partial. In
`popen` three streams are the least with one opened before and one after the stream
that is closed; a pipe of capacity one blocks its writer. All bounds are named
CONSTANTS (`MaxRuns`, `MaxLen`, `MaxCount`, `MaxQueue`, `MaxServerRuns`, `MaxSend`,
`MaxPopen`, `MaxCalls`, `MaxLabelled`, `MaxRemoved`, `MaxOutput`, `Reallocs`).
In `json` four items are a parent, a first, a middle and a last child, or two
parents with one child each, or a chain of references; `MaxLabelled` 2 lets two
items have a name, a value or the reference flag at once, which is what a copy or a
replacement of one by the other needs. Items are interchangeable addresses,
hence the symmetry; the run checks no liveness. A nesting limit of 3 is met by texts of
depth 3 and 4, `IntMax` 60 and the lengths of buffers make `ensure` take each of its
branches, doubling and refusal included; the units of literals include both sides of every
bound of UTF-8's lengths and of the surrogates, and `\u` with fewer than four digits
in front of a backslash or a quote. In `tools` a pool of 4 bytes has room for two
blocks and a realloc that overlaps itself, sizes 0 to 2 include the empty block; the
tree has a file to keep, one to delete, an empty and a filled subdirectory and a
link to a directory elsewhere, hence ways of `Depth` 2; outputs of up to 3 bytes exceed the pipe of 2. Deadlock is not checked: the programs end, and users may
stop using them.

*The properties, beyond their names.* `OffsetFaithful`: every byte received is
where some version of its source has it, whatever was killed, restarted or left
over: a buffer that a forgotten stream drains late lands on its own offset. It
does not claim that the versions are not mixed; they are. `EventsAreReal` says
that although `evs[]` was filled before the first of its events was handled, no
`accept` or blocking `read` ever finds nothing. `LimitNeverReached`: the test
`cur_fds < MAXEPOLL` never fails, since the process has at least one descriptor
(epoll_fd) that is not counted and accept runs out first. `PoliteIsServed` and
`PoliteIsFreed` have an escape, `<>[]Lost`: the server has ended, or waits in `write` for
good for a client that is connected and does not read, which the code allows. A reset
that write merely reports, or one that releases a waiting write, is no excuse.
`Tracked`: an entry of `childpid[]` is its stream's child, which nobody has waited for
unless somebody else than pclose did. `CallerSurvives` and `StatusIsTheCommands` are
about calls whose waitpid no handler interrupted; after one that was, the caller is
back without the command, which section 4 describes. `CommandSignals` and
`RestoredOnReturn` hold in either case.
`OwnedOnce` is what makes cJSON_Delete free everything once: an item is the
caller's or in one list, except for the reference that
cJSON_AddItemReferenceToObject loses when its name cannot be copied.
`ParserAgrees` and `EscapesDecode` describe the code where it departs from the
JSON standard: control characters in strings are accepted, and four bytes that are no
hexadecimal number mean U+0000, which ends the C string. The pointer then stands behind
those four bytes, whatever they are, be it within the next escape, and what follows
is read out of step and refused or not. `ParserAgrees` therefore has two bounds:
what is a value with four digits after every `\u` (`strict`) is accepted, and what is accepted
is a value if such escapes are let pass. `EscapesDecode` also holds parse_string to its
estimate, one byte less than the literal for each backslash. `MinifyKeeps` compares
with the text in which the comment is a space. `PrintFits` holds a printer that stores one byte
more than it asked `ensure` for to the buffer's real end, and cJSON.h to its word that
five spare bytes suffice for a preallocated one. `LeftoversExplained` has to
allow for links: a link to a directory survives `rmdir` while what it leads to is
emptied, which is what the code does. An entry that is no file may stay only as such
a link or with something in it, and a file only in the directory deleteFile was called for.
Whatever fails half-way, nothing is removed that must stay (`MustStay`): what is in no
directory the walk comes to, and the files deleteFile keeps.
`SizeExplained` is exact as long as nothing fails and nobody removes anything, links
counted with what they lead to; otherwise it only says that the sum is not too large,
which takes the -1 of a failed call into account.

*Fairness.* `lossless`: each program is one sequential process that never yields
voluntarily, so it goes on when it can; users, faults and the segment owe
nothing. `epoll`: the server, and a polite client's reading of what it waits for.
`popen`: the caller while it is inside popen or pclose, and the commands. `tools`:
the child of mypopen runs and `wait` returns when there is a child to return; nothing
is assumed of the other child or of the caller's reading, which cannot begin
before mypopen returns. The other programs of `tools` need none. No
fairness is assumed of a choice between outcomes of one call.

## 4. Disagreements found

* Two senders at once, and a receiver restarted before END: both end in SUCCESS
  for a copy that is not the source, against the README's reason for answering
  every frame (data integrity).
* The refusal of START or END is returned as 0xEE, positive, and main, which
  tests for a negative result, reports nothing.
* Blocking SIGCHLD does not avoid ECHILD, as the comment in execShell.c says it
  does, in a process that inherited an ignored SIGCHLD.
* The comment above deleteMaxFile (walkthroughPath.c:150) says that it deletes the
  largest file of a directory. `i++` (line 195) stands in the branch that needs `i` to
  be nonzero already, so that every entry replaces the candidate and the last one listed
  is deleted; in an empty directory the name is never set. WalkPath models it so
  (`last`); it takes no run to see, and there is none for it.
* Met while modelling, without a document that says otherwise: without `-p` the
  client puts the whole source path in front of the file name (fileTransmit.c:472);
  a stopped and continued epoll server takes EINTR for an error and ends
  (epoll_server.c:98, `EpollWaitFails`).
* When the handler of any signal of the application interrupts waitpid, exec_shell returns
  -1 at once (execShell.c:54-56; libc's `system` calls waitpid again): the command goes on,
  the key is the caller's again and kills it beside its command, the status is lost, and the
  child is left to a handler of SIGCHLD. `WaitpidInterrupted`; `CallerSurvives` and
  `StatusIsTheCommands` are false without their condition `~eintr`.
* pclose returns -1 for a command that ended well when somebody else has reaped
  it, an inherited ignored SIGCHLD included (popen.c:96, `WaitpidFails`).
* `"\u000\\"` (nine bytes with its quotes) is accepted, with an empty value: parse_hex4 takes
  the backslash for a digit, fails and returns 0, as it would for U+0000, the pointer is left on
  the second backslash, and the closing quote is read as an escape. It is one of the
  texts of the json run.
* cJSON_Minify takes the star of `/*` for the one that ends the comment, so that `/*/` is
  a whole comment (cJSON.c:2672); `IsComment` leaves comments that start so out.
* cJSON_PrintBuffered with a length of 0, and hooks without realloc, copies `offset + 1`
  = 1 byte of an empty block when it first grows (cJSON.c:450); the byte is overwritten, and no
  property speaks of it.

The positive statements hold in the complement: `DeliveredIfSuccess` for one client
and one run of each, `StatusIsTheCommands` when SIGCHLD is not ignored and waitpid not
interrupted.

## 5. Proofs

All are of the form `Spec => []P` for every value of the constants that the named
assumptions (`LinkAssumption`, `SendAssumption`, `RecvAssumption`, `EpollAssumption`,
`PopenAssumption`, `ExecShellAssumption`, `ItemAssumption`, `PoolAssumption`,
`WalkAssumption`, `DepthAssumption`) admit: for any number of clients, connections,
streams, calls, items, entries and bytes, since the bounds of section 3 are constants
too. Every invariant below was checked by TLC on the instance of its run before it was
proved. A theorem that needs more of the constants says so in an ASSUME of its own, which
is explained where it occurs and which the instance of the property's run satisfies.

* **FileTransmit_proofs.** `TypeCorrect` (type correctness of the composition) rests on
  lemmas about what the operators on streams, files and queues return:
  `WriteAt` yields a sequence of bytes, `PutAndDrain` a list of streams, removal
  and remainders keep the type of a queue. `StopAndWaitHolds` assumes `MaxRuns <= 1`
  and no strays, and holds for any number of clients and every other fault.
  `StopAndWait` is inductive together with the types and one more fact, that a
  program that was never started is idle (`IStopAndWait`): without it a client that has
  not started could be in the middle of a transfer and send a second frame. The
  queue lemmas (`FewerUnderWay`, `OneMoreFrame`, `OneAnswer`) say what the loss of
  a frame, a new frame and an answer do to the frames of each client. Both assumptions
  are needed: leftovers of a killed run and strays break it, and `restart` has them.
  `FirstRunNeverCrashesHolds` assumes only that no frame is lost: while the
  receiver has not opened a file, the first frame in its queue that it would act on is
  a START, and there is one in the queue as soon as a client has begun (`IFirstRun`).
  A lost START is exactly what makes `fwrite` meet a NULL pointer.
* **Transfer_proofs.** `OneTransfer` (one client, one run of each program, no strays)
  is the complement of the findings of section 4: with a second client or a second run
  `DeliveredIfSuccess` is false. Every other fault is allowed. The invariant `ITransfer`
  speaks of what the receiver has of the file (`Held`: what is on disk and what stdio
  buffers) and of the one frame or answer under way, which `StopAndWait` says is the only
  one: an undamaged data frame continues `Held` up to the read offset (`IData`), a
  SUCCESS on its way means that it was taken (`IProgress`), and the copy is a beginning of
  the source whatever happens (`IPrefix`), a receiver that stops with a full buffer
  included. At the end that is `Complete`, from which `DeliveredIfSuccessHolds` and
  `CountsAgreeHolds` follow. `FrameCountHolds` adds the arithmetic: without read errors
  and edits every frame but the last is full, so the offset is `TRANSMITSIZE` times the
  count (`IFrames`), and the last is the one that `fileSize / TRANSMITSIZE + 1` counts, for
  every block size.
  `RefinesFileCopyHolds` is the refinement of FileCopy, one lemma per step: each maps
  to a step of FileCopy or to a stutter. `OldIsLonger` is about the mapping, not
  the code: MCFileTransmit reads the phase off the content, so an old copy has to differ
  from every beginning of the source.
  `OffsetFaithfulHolds` is about the opposite case, any number of runs, kills and
  restarts with strays and damaged frames, for one client (`OneSender`). `IOffsets`
  assigns an offset to every place in the queue (`IQueue`): they lead from where the
  receiver writes to where the client reads, restart at 0 with every START, and each
  data frame holds what some version of the source has at its offset. Lost frames are
  excluded because a frame lost between two others shifts the rest; edits while the file
  is sent because then the bytes are of no one version at the time they are read.
* **EpollServer_proofs.** The first invariant relates `cur_fds` to the
  cardinality of `fds`, keeps LISTEN in it, and knows that connections in the
  backlog are not yet registered and differ; `AccountingHolds` and
  `LimitNeverReachedHolds` follow, the latter with `ProcFds >= 2`.
  The second adds what can make an event stale: bytes leave `inbuf` only by a
  read of that very descriptor, whose event goes with it, and the backlog shrinks
  only by an accept, likewise. An ignored error of write changes none of this. It gives `EventsAreRealHolds` and
  `EchoConservedHolds`. `TypeCorrect` needs both and the bounds of what is under way:
  a write is of at most `MAXLINE` bytes because a read is, and fills only the room
  that is left.
* **Popen_proofs.** `Tracked` is inductive with the types, with the uniqueness of the
  entries of `childpid[]` (`Entries`), and with what holds between two system calls
  (`Current`): in popen both ends of the new pipe are open and the child is in no
  entry yet, in pclose it is in none any more. A child that is reaped elsewhere stays in its
  entry until pclose, which `Tracked` admits for `taken` alone: no step of popen or pclose
  waits for a child that an entry names. `OwnPipeOnly` needs to look at the
  parent: standard input and output are no stream's (`Standard`), and of a pipe whose
  popen did not fail exactly one end is open, the one `childpid[]` names (`Ours`). Then
  the copy a child gets at fork has, besides the ends of its own pipe, only ends
  that its copy of `childpid[]` names, and the loop before exec closes those
  (`Children`). `lost`, the pipes of calls that failed, is the exception in all of it.
  `Standard` is where the assumption about the caller enters: its descriptors 0 to 2
  are open, and nobody closes them.
* **ExecShell_proofs.** The invariant says, for each point of exec_shell, which
  actions and mask are still the application's and which are saved; the child's
  half says what it has given back so far. `TypeCorrect`, `RestoredOnReturnHolds`,
  `CallerSurvivesHolds`, `CommandSignalsHolds`, `StatusIsTheCommandsHolds` follow,
  for any number of calls, with the handler of another signal and without. After
  `WaitpidInterrupted` the invariant keeps what it says of actions and mask, which the
  restoring calls need, and gives up only what it says of the child.
* **CurlPool_proofs.** `StoredIsThere` is inductive with the types and one fact: what
  is stored lies in a block that is held. Without it `reset_memory_pool`, or a block
  taken from the front, could overwrite something. `PoolAssumption` says that a
  request added to the pool's size is still a size_t; without it the test in
  static_malloc wraps.
* **JsonItems_proofs.** `LinksMatch` says among other things that the links close no
  cycle. It is stated as: every nonempty set of items has one that no arc of a list
  or of a parent enters from the set (`NoCycle`), so that the proof needs no paths and
  no induction. The lemmas on arcs say when a cycle cannot arise: fewer
  arcs (`Fewer`), items beside the others (`Beside`), a new item (`Fresh`), arcs into a
  set that none leaves (`Graft`). The last is a call that puts an item below another: what
  is reached from that item is closed, and the parent is not in it, since the caller puts
  no item below itself. To know which pointers a call has to mend, the invariant
  also says that free memory is blank (`Unallocated`), that no two parents have the
  same first child (`OneParent`), that what the caller holds is in no list
  (`HeldAreRoots`), and that everything else is entered by one, the lost reference aside
  (`OthersEntered`). One lemma per kind of call; `Invariant` and its consequences
  `LinksAlwaysMatch` and `ItemsTypeCorrect`.
  `OwnedOnceHolds` needs that whoever is entered is in the list of exactly one parent:
  from an item that is not the caller's the walk against the arcs ends, since there is
  no cycle, at the first child of some parent, and two parents with an item in common would
  share their first. `BuffersOwnedHolds` is a count: each call changes the number of
  buffers by the difference of the names and values it owns before and after, and what a
  deletion or a copy adds up are cardinalities of disjoint or equal sets.
  `RefinesItemListsHolds` is the refinement of ItemLists, for any number of items. `Kids`
  is recursive along `next`, and no induction is needed to know what it returns: if from
  some items the walk did not end, `next` would map the set of these one to one into
  itself, hence, the set being finite, onto itself, and the set would be a cycle
  (`WalksEnd`); so the function that is `<<>>` at NULL and elsewhere the item and the rest
  of its walk exists (`WalkDefined`) and has one value at each item (`OneListing`).
  `WalksMeetEveryChildOnce` says what the walks are: the elements are `Children`, none
  comes twice (`Linked`), and an item has at most one place in all lists together
  (`PlacedOnce`). What ItemLists calls the family of an item is what cJSON_Delete frees
  (`FamilyIsTree`). With that each kind of store is an operation on sequences:
  `Appended`, `PutBefore`, `Unlinked`, `Replaced`, `Discarded`, and `GrowRoot` and
  `GrowTree` for what is created or copied. Each call is then a step of ItemLists, but
  for replace_item_in_object when it finds nothing to replace, which is a stutter
  (`AddHeldNextStep`).
* **WalkPath_proofs.** `LeftoversExplainedHolds` and `SizeExplainedHolds`, for any tree.
  Both invariants need the frames to be a chain (`FramesOK`): each open directory was
  entered through an entry of the one below it that readdir has returned. `Walked` says
  that there is a set `V` of directories that are done with, that every entry in them and
  every entry returned in an open directory, but for the one being walked, is gone or
  explained and leads into `V` (`Covered`). An entry that stays because its directory is
  not empty would be explained no longer if that were emptied later, for instance through
  a link; it is dealt with only after its directory is in `V`, where nothing is left that
  could be removed. `Spared` is the other half and needs no completeness: while nobody else
  removes anything, what must stay is there, since a walk comes only to entries of
  directories that are `Reached` (`RemoveSpares`, `ReturnSpares`), however early it gives
  up. When the walk returns, `V` and `Path` are closed, hence
  all that is `Reached`. `SizesOK` gives every frame the bytes of the ways that branch off
  in it at an entry readdir has returned (`Passed`): disjoint for the frames of the stack,
  and the ways through a subdirectory are those of its frame, which move to the frame below
  when the call returns. Cardinalities of finite sets of ways and bytes do the rest
  (`CountTwo`, `CountMore`, `CountOne`). `WalkAssumption` and `DepthAssumption` say what
  a file system is: an entry is in one directory, `stat` returns the end of a chain of
  links, sizes are not negative, and no link leads back up.

Only model-checked: liveness (`ClientFinishes`, `ServerExitsAfterEnd`,
`PoliteIsServed`, `PoliteIsFreed`, `PcloseReturns`, `MypopenReturns`), which the
provers here do not reach; and the five properties of JsonText, which compare recursive
definitions over texts of any length and so need induction over data.
Every other safety property a passing run checks is a theorem.

## 6. Not modelled

* Address and interface lookup in ethernet.c, a failure before anything happened;
  argument parsing and messages; the terminal side of epoll_client and its select.
* spinLockTest: that it hangs follows from the kernel's scheduler, `udelay` and `msleep`,
  none of which is here. log: three assignments to one pointer. sockets_tcp: one
  message each way. mii, memPhy2Virt, elfRead: reads of a device or a file, printed.
* copy_file, write_file and the mapping functions of file.c: a few calls in a row on
  a private file. exec_shell_with_result: one `fgets` from libc's popen. main of
  jsonRead.c: it prints one parsed file.
* getopt, str2hex, crc32: functions of their arguments alone, and the last is bit
  arithmetic at 32 bits, for which a small width would not be the code's. dispatch,
  realloc, 2d_array, bitField: demonstrations of a language feature.
* Of cJSON: malloc failing in the parser, and what the parser then frees; cJSON_InitHooks,
  of which only the missing realloc has a model; type predicates; and the digits of numbers
  (`strtod` and `sprintf` do the work); the text of an item and its place in a list
  are in different modules, since no function depends on both.
* Numbers that the kernel gives out again: those of descriptors in EpollServer (section 2),
  and that of a child which somebody else than pclose has reaped, for which waitpid
  could find another child.
* The wrap of the sum in static_malloc's test: `PoolAssumption` excludes requests
  of almost SIZE_MAX bytes, which libcurl does not make.
* libcurl and its requests, the Makefiles.

The vfork child shares the caller's memory: the models give it no writes besides its
own signal state, as in the code. Popen's caller keeps its standard descriptors: one hazard
of `PROJECT.json` remains without a property for that reason.

## 7. Plan

What is left, the most valuable first:

1. Lemmas about JsonText that need no induction: what `ensure` returns in each of its
   branches, for every length of buffer.
2. `Popen` from a caller without standard descriptors: how far `OwnPipeOnly` holds then.
3. exec_shell_with_result, and malloc failing at each call of the parser.
4. The page arithmetic of `_memMap` and getopt's permutation against reference
   definitions.
