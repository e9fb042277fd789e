# A verification project for the distributed file system

The program under `src/` is a small distributed file system. A client program
(`DFS_Client`) cuts a file into four parts and stores them on four server
programs (`DFS_Server`), two parts on each, so that a file survives the loss of
one server. Both programs log through a library that is part of the sources
(`easylogging++.h`). This directory models the two programs and the parts of the
library they use in TLA+, checks them with TLC on small instances, and proves with
TLAPS the placement of parts, what the servers store and tell whatever clients
send them, that a listing only names what is stored, the client program's
configuration and its use of threads and connections, and that the lines of the
log are whole, in order and mostly on disk.

## The system and its parts

| Part | Source | State | Operations |
|---|---|---|---|
| Layout and placement | `Client.cpp` 14-125, 279-307 | none, apart from four thread objects | cut a file, choose the pair of parts for a server, start and join the threads |
| Configuration | `Client.cpp` 312-406, `Connection.cpp` 340-370 | the connections and their ids, user, password | read a line, make a connection, set user or password, refuse the file |
| Client program | `DFS_Client.cpp` | the running command | configure the log, read a line, run it to its end, read the next |
| Client commands | `Client.cpp` 127-271 | `m_files`, the part files in `tmp/`, the files in `RetrievedFiles/` | `Put`, `List`, `Get`, `AddFiles`, `FileBuilder` |
| Client connection | `Connection.cpp` | `m_connected`, `m_get_state`, `m_putinfo`, callbacks, buffers; `partnum` and `size` are static, one for all connections | `Connect`, `Get`, `Put`, `List`, the callbacks of each |
| Server process | `Server.cpp` 7-161, `DFS_Server.cpp` | its users, the user's folder on disk, the listener | read the command line, listen, accept, parse a command, check credentials, create the folder |
| Server connection | `Server.cpp` 175-450 | the callback that is set, the input and output buffer, `m_putInfo` | `callback_read` (LIST, GET, PUT), `callback_put`, `callback_event` |
| A log statement | `easylogging++.h` 4458-5066, 5552-5622 | locks, the stream of the logger, unflushed counts, the file buffer | construct, `<<`, dispatch, flush, crash handler |
| Configuration of the log | `easylogging++.h` 2107-3152, 3371-3943 | lists of settings, typed maps, shared streams, verbose levels | `setToDefault`, `setGlobally`, `configure`, `setArgs`, `VLOG_IS_ON`, building a line |
| Helpers and command types | `utilities.h`, `commands.h` | none | file tests, protocol words |

A server is one process with one libevent loop, so each of its callbacks runs to
completion. A client has one connection and one event loop per server. PUT and
LIST run the four loops in four threads and join them; GET runs them one after
the other in the main thread. A loop that is not running neither reads nor
writes, so what arrives in the meantime waits in the socket. Client and server
share nothing but the TCP connections; the servers do not know each other; two
connections to one server share the files of the user. The threads of a client
share one logger, its stream and its log file.

What is hard here:

* TCP delivers a stream in pieces of its own choosing, while the callbacks assume
  more or less that a message arrives in one piece;
* a server may be killed, and started again on the same folder, at any moment;
* state outlives the command it belongs to: unread bytes on a connection,
  `putState` after a failed upload, `m_files`, the part files in `tmp/`, the parts
  of an earlier version on the servers;
* the client waits without a timer, so every command must be answered;
* files that four does not divide, and files shorter than four bytes;
* a lock of the logger is taken in one function and released in another, and a
  signal handler logs on top of whatever it interrupted;
* a logger is configured by replaying lists of settings into each other, where
  `Level::Global` stands for all levels and equal values share an entry.

For each part the properties that make it correct:

* layout: the parts tile the file, every byte goes to two servers, two servers
  that have the same part number have the same bytes, the threads are used once;
* configuration and program: a program that takes commands is configured as the
  file says, and no command is given a connection that does not exist;
* server: only who has the password reads or stores anything, the file of a part is
  never removed and only replaced by an upload to it, a part is what was uploaded or
  the beginning of it that a kill has left, nothing is stored by a server that could
  not make the folder of the user, and the upload state machine stays in its states
  whatever a client sends;
* client: a command returns, what LIST shows is stored, what GET puts together is
  what was uploaded, in spite of one lost server;
* together: an upload reaches every server that stays up;
* log: lines are whole and in order, statements return, a kill takes only what the
  flush threshold allows, and the loggers do what was configured last.

## The modules

| Module | What it models |
|---|---|
| `Layout` | pure operators: `Client::FilePieces`, the sizes and offsets of `Client::Put`, `PutInfo` |
| `PutPlan` | the loop of `Client::Put` over the servers, the threads it starts and joins |
| `ClientProgram` | extends `PutPlan`: `main`, `ParseCommand`, `ParseConfFile`, the connections |
| `Channel` | what is not code of the repository: tokens of the protocol, line reading, TCP |
| `DfsServer` | `Server.cpp`: connections, disk, folders, the process itself |
| `OpenServer` | `DfsServer` with clients that send anything |
| `PartStore` | the abstract promise of the disks, which `OpenServer` implements |
| `DfsClient` | `Client.cpp`, `Connection.cpp`, `DFS_Client.cpp` |
| `DFS` | `DfsServer` and `DfsClient` together with the users |
| `Logging` | the log statements of the threads of one program, and the crash handler |
| `LogFormat` | pure operators: reading a format, building a line |
| `LogArgs` | pure operators: command line, verbose level, module list, wildcards |
| `LogConfig` | pure operators: lists of settings, typed configurations, loggers |
| `LogTable` | the abstract promise of configuring the log, which `Startup` implements |
| `Startup` | the start of both programs, up to the prompt and the event loop |
| `LayoutProofs`, `OpenServerProofs`, `LoggingProofs` | lemmas and theorems about the modules of that name |
| `ClientProgramProofs` | theorems about `PutPlan` and about `ClientProgram`, which extends it |
| `DFSProofs` | theorems about `DFS`, and lemmas about the operators of `DfsClient` |
| `UploadProofs` | the theorem about `DFS` that a stored part is the uploaded one |
| `FetchProofs` | theorems about `DFS`: what GET brings back is what was uploaded, and servers are not brought down |
| `DfsServerProofs` | lemmas about the operators of `Channel` and `DfsServer`: what a callback does to its connection and to the disk |
| `MCClientProgram`, `MCOpenServer`, `MCDfs`, `MCLogging`, `MCStartup` | small instances for TLC |

`DfsServer` and `DfsClient` share the variables of `Channel` and name each action
after the function it models. `DFS` composes them by interleaving.
`ClientProgram` composes the configuration file and the command loop with the
upload loop of `PutPlan`. Definitions that are named like another one with a
defect (`EnoughAlways` beside `Enough`) are mutants: no specification uses them;
each shows that some property would notice the defect.

### How state and steps correspond to the code

Client and servers:

* `srv[c]` is the `ServerConnection` of connection `c`: `cb` is the read callback
  that is set (`callback_read` or `callback_put`), `inp` and `out` the buffers,
  `filename`, `putState`, `wantedSize`, `partnum` the fields of `m_putInfo`.
* `disk[s][f][p]` is the file `f.p` that server `s` finds when it starts from the
  folder of the user. There is one user, as in `Server.cpp` line 15. A name is put
  behind the folder as it is (344), so it may lead to the file of another name
  (`Path`: `./x` is `x`), out of the folder (`Elsewhere`: `../x`), or into a directory
  that is not there (`Missing`: `d/x`, the only names that cannot be opened). `p` is
  any number of a set `Number` that includes 1 to 4, as a header may hold any int (372).
* `ServerRead` takes some prefix of what has arrived and runs the callback on it;
  the callback is an operator named as in the code and is one step with the read.
  `PutLoop` is the loop of `callback_put`, which goes through its body at most
  twice because `putState` reaches 4 or the callback returns. `KilledWriting` is a kill
  in the middle of it: the file of a part has been emptied by opening it (415), and some
  of its bytes are written.
* `ServerWrite` is one write by libevent. A part is read from disk when it is
  written, not when it is announced, as `evbuffer_add_file` does.
* A server dies (`Die`) by a kill, by reading a line that is not there (`Server.cpp`
  370), by listing a folder that is not there (325), by assigning a short name to a
  string that was set to zero bytes (188, 344: undefined, so the model also lets it
  work), or by SIGPIPE, which nobody handles. What its callback stored or the
  folder it made before it died stays on the disk.
* `con[c]` is a `Connection`: `loop` says that its loop runs, `rd` and `wr` that it
  still has a read and a write event, `cb` is the read callback, `wcb` says that
  `callback_data_written` is set. `prog[k]` is the main program and the statics of
  `callback_get`; `tmp`, `got`, `m_files`, `shown` are what the commands keep or
  print.
* A command is `StartPut`, `StartList` or `StartGet`, then steps of the loops
  (`LoopStep`), then `PutDone`, `ListDone`, or `GetNext` for each further server and
  `GetDone`. `StartPut` starts all four threads in one step: the order in which
  threads start shows only in the order of the later steps, and those interleave.

The client program:

* `phase` is where `main` is. One step reads one line of the configuration file;
  the kind of the line decides which (`SkipLine`, `ThrowOnEmptyLine`, `RefuseLine`,
  `CreateNewConnection`, `SetUser`, `SetPassword`), in the order of the tests in
  `ParseConfFile`. `lines` is a history variable: the code forgets a line it has
  read, the properties compare the connections with what was written.
* `manager` is `m_connections`. `initialized` says that `Connection::Initialize`
  succeeded. `Connect` has no effect the properties can tell, because its result
  is ignored and the connection is made in the loop; that is in `DfsClient`.
* In `"put"` the steps are those of `PutPlan`; LIST and GET are one phase each
  that returns at some time, because their loops are the subject of `DfsClient`.

The log:

* A statement is a `Writer`: `Begin` constructs it, `Lookup` and `Found` are
  `RegisteredLoggers::get` under the registry's lock, `initializeLogger` takes the
  logger's lock, `Insert` is one `<<`, `triggerDispatch` copies the stream into
  the `LogMessage`, `dispatch` and `acquireCallback` take two more locks,
  `WriteLine` and `PrintLine` are the two outputs, `leaveDispatch` and
  `ReleaseLogger` give the locks back. One step lies between any two points where
  a lock changes hands or something shared is written.
* `buffer` and `disk` are the user-space buffer of the file stream and the file;
  `count` is `m_unflushedCount`. A flush that fails may have written any number of
  lines and a part of one, and leaves the stream failed (`broken`).
* `due` is a history variable: the numbers of those statements of a thread whose
  level is enabled, which are the ones that must be printed.
* `Interrupt` puts the statement of the crash handler on top of the main thread
  and remembers in `interrupted` where that was; `crashAbort` ends the process.
  Both programs set `DisableApplicationAbortOnFatalLog`, so an ordinary
  `LOG(FATAL)` does not.
* In `Startup` every step is one call of `main`. `elconf` is its
  `Configurations`, `logs` the loggers with their lists, typed maps and the table
  of streams they share. Configuring is a composition of pure operators of
  `LogConfig` named as in the code. A third program, `"sample"`, sets any of a set
  of formats the way the two programs set theirs: it stands for the promise the
  library makes for formats that these programs happen not to use.

### Abstractions

* The text of a protocol line is one token and counts as one byte, the newline
  another. So a line may arrive without its newline, but its words are not cut.
  File bytes are numbered and may be newlines (`EolBytes`). A line with file bytes in it
  is no line of the protocol, unless it is in the domain of `Spelled`, which says what
  it reads as: that is how a text file whose line is `1 1` is given to the servers.
* How far a read goes is a constant: after any byte (`"byte"`), after any write of
  the peer (`"write"`), or at the end of a burst of writes (`"burst"`).
* A listing names the parts in a fixed order; lines of a listing that are garbled
  do not enter `m_files`, where only entries and the refusal have an effect.
* A part file is opened, written and closed in the step of its callback, except when
  a kill interrupts it (`TornWrites`); nobody else reads it in between, as a server has
  one thread. Kernel buffers never fill, memory and descriptors never run out.
* What `HavePart` does with a part number outside of 1 to 4 (`Client.h` 71) is a write
  outside of its array: LIST may then print anything, or the client may end.
* GET for one part, which no client sends, looks in the working directory of the
  server; the model takes it that no such file is there.
* In `DFS` a PUT of a file that cannot be opened does nothing and is left out, and
  so are commands without a file name; `ClientProgram` has both. File names hold
  no blanks.
* Connections to servers outside `Live` have seen their end already.
* Lines of the configuration file and commands are sequences of words, with the
  two lines that are told apart by their first character as values of their own.
  The words of a port are given with the number they start with.
* A log format is a sequence of specifiers, escapes and pieces of text; a module
  list is a sequence of symbols in which an extension is one. Settings of
  different types never influence each other before the typed maps are built, so
  `LogConfig` has a list for each type.
* The locks inside `TypedConfigurations` and `VRegistry` are held for one lookup in
  which nothing else is locked; such a lookup is part of its step. No program
  changes a configuration after its threads run, and a signal during the start is
  not modelled. `malloc` and the streams of the C++ library are not safe in a signal
  handler; the model idealises that away, so it shows the locks of the library as the
  only thing the crash handler can hang on.

## What is checked

Passing runs (all safety and liveness within the bounds named):

| Run | Instance | Shows |
|---|---|---|
| `client_program` | configuration files of up to 6 lines from 13 kinds, 8 inputs, sizes 0..6, all hash values | a program at its prompt is configured as written, the last of several user or password lines counts, commands find four initialized connections, the threads of each upload are used once, and every remainder modulo 4, the empty file and files with empty parts are laid out correctly |
| `strangers` | one server, a member with 3 writes, a stranger with 2 | the stranger reads nothing, stores nothing, and takes nothing away, however the requests interleave |
| `rude_client` | two servers, one of which cannot make the folder; one member, 3 writes, a kill that may come in the middle of a write, crashes and restarts; names that lead to another name's file, out of the folder and into a directory that is not there; part number 7, by a header and by a file byte that reads as one | requests in every order and form keep the upload state machine in its states; parts are only stored where the folder and the directory are there (`PartsNeedTheFolder`), their files are never removed and only replaced by an upload to them (`PartsAreKept`); the disks implement `PartStore` (`StoresParts`, a refinement) |
| `four_servers` | four servers, one user, 2 commands, one kill at any moment, no restart, bursts | what is retrieved is what was uploaded, no server is brought down by itself, PUT and LIST return or the client is killed by SIGPIPE in them, uploads arrive, GET succeeds in spite of the loss |
| `bytes` | one server, three versions of two files, 3 commands, a kill that may come in the middle of a write, restarts, quits, reads of any length, parts that begin with a newline, a `dfc.conf` with the right, a wrong or no password | no part is torn but by a kill, and then it is a beginning of itself, and LIST only shows what is stored, where uploads fail in the middle, the server crashes on cut lines and the client on an answer it cannot read; GET delivers no byte but of the part it asked for, and garbage where one had not come |
| `two_clients` | one server, two client programs with 2 commands each, two versions, every write separate | no stored or fetched part mixes two uploads, and what either is shown is stored |
| `logging` | two threads with 2 statements each, three levels of which one is disabled and one has a flush threshold of 2, messages of 2 pieces, a signal, a disk that may fill | no line is torn or mixed, statements keep their order, a kill takes fewer lines of a level than its threshold, and a statement or the crash handler only hangs after a signal that came inside a lock |
| `startup` | 45 launches of the client and 224 of the server: verbose levels, module lists, log files that open or do not, folders, ports; and 264 formats | the typed maps answer what the lists say, configuring overrides exactly what it sets (`ConfiguredByLastWrite`, a refinement of `LogTable`), a line is its format, verbose levels are as asked, the server listens where it was told |

The kill of `four_servers` does not come in the middle of a write: nobody reads the
disk of a server that is not started again. `bytes` and `rude_client` have restarts
and such kills. In `cut_upload` a length of 24 gives parts of 6 bytes, the shortest
that leave a line that reads as a header, and a byte after it, behind a cut. A
length of 5 bytes gives parts of 1, 1, 1, 2 bytes: the last part is longer, so it
can arrive in two pieces, and the pairs differ in size. Two commands are the
shortest history with something to retrieve or list, three let a command run into
what the one before left behind. One kill is what the redundancy is made for. Six
lines let a configuration file be complete, and four server lines be preceded,
interrupted or followed by two lines of any other kind, a second user among them;
two kinds of server lines tell their order apart. Two statements of two pieces on
two threads are enough for pieces and lines to mix, two lines of one level for the
threshold of the other to be counted wrongly, and one signal is what a process can
get before it aborts. The formats of `startup` are all of up to three tokens from
six, and five longer ones with dates. Every property of a passing run is broken by
one of the mutants.

Runs that show where the program departs from what is said of it:

| Run | Shows |
|---|---|
| `cut_upload` | `Server.cpp` 400: "Waiting for more data to come to the buffer". It does not wait: of a part that was cut the rest is read as a header (431), and a piece of a text file is stored under the part number that a line of it holds |
| `get_in_pieces` | `spec.pdf` page 3: GET downloads all available pieces from all available servers. It leaves a server after one part if the second has not arrived yet |
| `stale_listing` | `spec.pdf` page 6: LIST is to show incomplete files after servers were killed. Lines of earlier listings still count |
| `killed_between` | `spec.pdf` page 6: the client is to work after a kill. A write to a lost server ends it by SIGPIPE |

More were met with the same modules by changing an instance; they are described
here so that a reader can repeat them.

With `MCDfs`:

* `UploadIsStored` in `four_servers` with `Length = 3` and one command: a server
  that has read the header of an empty part waits for bytes (`Server.cpp` 390)
  that never come if that part is the last it is sent, so a file shorter than
  four bytes is not stored completely.
* `RetrievedIsUploaded` with `Version = {1, 2}` (two contents of one name): GET may
  put the file together from parts of both, because the parts of the first that
  the second does not overwrite stay on the servers.
* `FetchedPartsAreSlices` with two file names and `Splits = "write"`: what a GET has
  left unread is taken as the answer to the next GET, under the other name.
* `FetchedPartsAreSlices` in `two_clients` with versions of different sizes: a part
  is announced with its old size and read when it is sent.
* `NoServerAborts` with `Splits = "byte"`: a header that is cut by a read ends the
  server.
* `NoServerAborts` with `Splits = "write"`, `Length = 8`, `Missing = {f2}` and newlines for
  the bytes of version 3: a user who puts `f2` and then `f1` ends server 1, because the
  second upload finds the state of the first, takes its header for two bytes of a part,
  and the bytes of a part for a header without a newline.
* `NoServerAborts` with `Splits = "write"` and `Quits = TRUE`: an answer to a client
  that has left ends the server.
* `StoredPartsAreSlices` in `bytes` with `Missing = {f2}` and more parts that begin
  with a newline (`EolBytes` with `<<3, 5>>` as well): the file of a part under a
  name with a directory that is not there cannot be opened, the callback returns to
  `callback_read` (`Server.cpp` 413-422), but `putState` and `wantedSize` stay. The
  next upload on that connection starts in the middle, and stores its header as
  bytes of a part.
* `RetrievedIsUploaded` in `four_servers` with `TornWrites = TRUE`, `Restarts = TRUE`,
  `Live = {1, 3}` and two clients with one command each: a server that was
  killed in the middle of a write serves the short part when it is started again.
* `CommandsReturn` in `four_servers`: `spec.pdf` page 5 says that a server that does not
  answer within a second is not available, but no timer is ever armed
  (`Connection.cpp` 279), a server says nothing of a file it does not have, and
  GET of such a file never returns.
* `PutAndListReturn` with a wrong password: LIST waits for a line that is the end mark,
  and the refusal is not.
* With `Spelled <- SpelledSeven`, `Number <- OneWild` and two clients `cut_upload` stores a
  part 7, which a LIST brings to `HavePart`. `ListedIsStored` holds there, as
  `ListingIsTrue` says of every number.

With `MCClientProgram`: a client whose configuration file has an empty line is
`"aborted"` by `line.at(0)` (`Client.cpp` 332); one of whose connections could not
be initialized may be, when its destructor frees a bufferevent that was never
made (`Connection.cpp` 24).

With `MCLogging`: `interrupted # "no" ~> ~alive` fails, because the crash handler
waits for a lock that the interrupted statement holds. `InterruptEnds` says that
nothing else holds it up.

With `MCStartup`, all consequences of definitions that are translated as they are:

* the client's `setToDefault` and `reconfigureAllLoggers` put the default log file
  back in place of the one of `--default-log-file`;
* a list that is replayed loses what it says of a level before it says something
  of `Level::Global`;
* a default file that cannot be opened turns `ToFile` off for every level, also
  when the file of `--default-log-file` can be opened;
* `MillisecondsWidth` and `PerformanceTracking` of any level count for all, though
  a comment (2543-2545) calls such settings ignored;
* in a format, a specifier that is only there escaped keeps its escape, unless it
  is the level or the logger; a `%datetime` that is only there escaped makes
  `parseFromFormat` look outside the string (2195), so no instance has one;
* `-vmodule=a,b=2` sets a level for the module `ab`, and `-vmodule=Client=2` does
  not match `src/Client.cpp`, which is then shown whole;
* a port that is not a number reads as 0, so the test against -1
  (`DFS_Server.cpp` 65) refuses only `-1` and the empty word, and a port above
  65535 is cut by `htons`.

### Fairness

`FairSpec` of `DFS` assumes that when some process can run or some byte can be
delivered, some such step is taken; about which one nothing is assumed. That is
less than what an operating system gives. It suffices because in the bounded
instances no set of processes can run for ever, so none can starve another. Users
are never forced to type, kill, restart or quit.

`FairSpec` of `Logging` assumes weak fairness of each thread's statement and of the
abort after the crash handler's message: the scheduler runs every thread that can
go on. A lock that is free again and again is not promised to a thread (a
`std::mutex` is not fair); `StatementsReturn` holds nevertheless because every
thread makes finitely many statements (`MaxStatements`), so a lock is at last free
for good. No thread is forced to log and no signal is forced to come.

## What is proved

The first part of `ClientProgramProofs` proves of the upload loop, for every set of
file sizes that is a subset of the naturals, the only assumption:

* `TypeCorrect`: the variables stay in their ranges; no length is negative;
* `NoThreadMisuse`: the program is never ended by a thread that is started twice
  or joined without having been started;
* `Redundancy`: whichever server is lost, every byte is on another;
* `Agreement`: two servers that have the same part have the same bytes;
* `Tiling`: parts 1, 2, 3, 4 in order are the file.

None of these is inductive. The invariant `IInv` adds what the loop has done so
far: for every server below `i` the plan is the one the table gives, and a thread
is started exactly if its pair is the pair of such a server. `PutPlanInvariant`
shows that it holds initially and is kept by `StartThread` and `JoinThreads`, with
one step per action. That no thread is started twice then rests on the lemma
`TableIsPermutation`; `Redundancy` on `EveryByteInAPart` and `EveryPartTwice`;
`Tiling` on `PartsTile`. The lemmas rest on `QuarterOf`, the only fact about
division that is used.

Its second part carries this to the program, for all configuration files,
inputs and bounds:

* `ProgramUsesThreadsOnce`: no series of commands makes a program start a thread
  twice or join one that was not started. By `ProgramRunsTheLoop` what is proved of
  the loop holds in every upload of a program's life: the program's steps in phase
  `"put"` are those of the loop, and the other steps leave its variables alone
  (`StepRefines`), by which the lemma says no more than that the module is composed
  so;
* `NoNullConnection`: a command finds connections 1 to 4, each initialized. The
  invariant `ProgramInv` says that the ids are 1 to `foundServers` without gaps,
  that all connections are initialized until the program starts to leave, and that
  a running program counted four.

* `ProgramIsTyped`: the variables stay in their ranges, and what `main` has
  configured is of the types that the commands rely on;
* `FileConfigures`: a program that takes commands has read a file of well-formed
  lines, four of which name a server; its connections are those lines, in their
  order, each with the address and port of its line, and its credentials are those
  of the last line that sets them.

`ProgramInv` is inductive and the conjunction of four parts: what has been read of
the file is a prefix of it (`Lines`), the connections are those of the server
lines in that prefix (`Connections`), user and password are those of its last such
lines (`Credentials`), and the phase of `main` fits what has been read (`Phases`).

`OpenServerProofs` proves the six properties of a server that is open to clients
which send anything, for every number of clients, files, messages and kills and
every way a stream is cut:

* `ServersAreTyped`: between two callbacks an upload has a name and is in a state
  that `callback_put` knows, one that waits for bytes has a length and a part number,
  which may be any int, and everything read, written or stored is made of
  whole tokens;
* `NoFolderNoPart`: a server without a folder for the user stores nothing, not even by
  a name that leads elsewhere, and nothing is stored in a directory that nobody made;
* `NothingForStrangers`: who never writes the right credentials is told
  `INVALID_CREDENTIALS` and nothing else;
* `NothingFromStrangers`: nothing is stored but what clients with the password
  wrote;
* `FilesAreKept`: the file of a part is never removed, and its content replaced only
  in a step in which its server takes bytes of an upload to that file, if a kill
  interrupts that step by a beginning of the new content (an action property);
* `ImplementsPartStore`: the servers implement `PartStore`. An initial state is one
  of its initial states; a step creates a folder, writes parts of one file of one
  server, or stutters.

None of them is inductive. `IInv` says of every connection (`ConnOK`) that its
streams and buffers hold only what its client may say and may be told, that an
upload in progress has a name and, where it waits for bytes, a part number, and that
the connection of a stranger never leaves `callback_read`; of the disks (`DiskOK`)
that they are tables of files and parts made of what members said, the parts only
where a folder and a directory are there; and of the variables that they are
functions (`Shape`). The argument has two halves. `NextDisk` shows that a step of
whatever action leaves the disks alone, enters a folder or stores one upload
(`DiskStep`); all that the properties of the disks need follows from that. The other
half follows one connection through the callbacks with the lemmas of
`DfsServerProofs`: a line that is taken out ends inside the buffer (`LineEndInside`,
which needs that a set of naturals has a least element, `Least`), replies and parts
added to an output keep it what it was, `callback_put` returns in a state it knows
after its two rounds. The assumptions are those of the modules: there are finitely
many files, messages are made of the tokens of the protocol, `NoPart` is no sequence
of them, and a stranger has no message with the right credentials, nor file bytes
that read as such, which is what makes it one.

`LoggingProofs` proves for every number of threads, levels, pieces and statements,
with `LoggingAssumption`:

* `LocksExclude`: every lock is held exactly where the code holds it, by at most
  one thread, also after a signal;
* `WholeLines`: every line on the terminal, and in the log file until a flush has
  failed, is the whole message of one statement.

For the first, the invariant says besides the types that `Main` does not take a
lock which the statement it interrupted holds (`Locked`): a handler that waits is
stuck, it does not go on. For the second it says what the stream of the logger
holds while a thread has the logger's lock, the first pieces of that thread's
statement (`StreamOfHolder`), that a message in dispatch is whole, and that all
lines already out are whole. A thread that was interrupted while it held the
logger keeps the lock, so nobody can add to its half-built message.

Two more theorems of `LoggingProofs` rest on the same assumption and on that
invariant. `LittleIsLost`: until a flush fails the log file has the lines of the terminal in
their order, and its buffer, which is what a kill takes, has fewer lines of each
level than the level's flush threshold, or none. `FileFollows` says that the file
and its buffer equal the terminal unless somebody is between the two outputs;
that is one thread at most, because of the lock of the callback (`OneWriter`), and
a thread that was interrupted there stays there. `CountsCover` says that the count
of a level is at least the number of its lines in the buffer, and is 0 or below
the threshold: a flush empties the buffer and resets the count of one level only,
so the counts of the others may be too high, never too low.

`LinesInOrder`: the lines of a thread appear in the order of its statements, and
none of those with an enabled level is left out. `OrderInv` follows a statement by the
history variable `due`: from its construction until `PrintLine` it is the one number
in `due` that is not on the terminal, after that all of `due` is there
(`DueIsPrinted`), so a line that comes out has the highest number of its thread so
far (`LinesRise`).

`DFSProofs` proves two properties of clients, servers and network together, for
every number of clients, files, versions, commands, kills and restarts, and every
way streams are cut:

* `ProgramsAreTyped`: every program, connection and stream is in a state that the
  code distinguishes; `callback_put` of the server runs with a file name, that of
  the client with a version, a GET with a file and a server;
* `ListingIsTrue`: a part that LIST has collected is on the disk of some server, and
  so is every part of a file it has called complete, unless a wild part number made
  `HavePart` write outside of its array. Its hypothesis `PlainEntries`: no line of a file
  reads as an entry of a listing.

Neither is inductive. `TypeInv` says what each stream and buffer carries. Towards
a client that is `Told`, the tokens that name only stored parts: what a
listing has found stays true while its lines wait in the server's output, in
the socket, in the client's buffer and in `m_files`, because no step takes a part away
(`PartsStay`, and by it `ToldGrows`). Towards a server it is `Written`, which has no
such lines at all, so a garbled upload cannot be told back as a listing of parts.
`Linked` ties loops to commands: a loop only runs during a command of its client
and with the callback of that command, so no callback of PUT meets the buffer of a
LIST. There is one lemma per action, `ServeType` for the servers (it rests on
`DfsServerProofs`), `DispatchType` for the loops of a client, `ProceedType` and
`UserType` for its main program. `callback_get` loops over what it has read; its
rounds are the recursive function `Rounds`, and `RoundsStay` proves, from the least
number of rounds that could fail, that what one round keeps all of them keep.
The assumptions are those of the modules; `NoPart` is no sequence of tokens.

`UploadProofs` proves the property of the uploads, `PartsAreNeverTorn`: for every
number of clients, files, versions, commands, kills and restarts, and for each of
the three ways `Channel` lets streams be cut (`Splits`), a part on a disk is, byte for
byte, the part of an uploaded version that its server was to get, or the
beginning of it that a server wrote before it was killed (`StoredPartsAreSlices`).
It has two hypotheses, and fails without either:

* `FlatNames`: no version is uploaded under a name that leads to a directory which is
  not there (`PathOf(v) \notin Missing`; `./x` and `../x` are allowed). The server
  takes the bytes of a part whose file it cannot open and keeps its upload state,
  so the next upload on that connection may be stored with a header among its
  bytes (see `More were met with MCDfs` above);
* `PlainFiles`: no line with bytes of a file in it reads as a line of the protocol
  (`DOMAIN Spelled = {}`). The run `cut_upload` is the counterexample: when a read ends
  inside a part, the rest of that part is parsed as a header.

All instances of `MCDfs` but that of `cut_upload` satisfy both.

The property is far from inductive: that what the server stores is right depends on
what is in its buffer, in the socket and in the client's output buffer, on who will
look at it, and on what the client wrote before. `UploadsInv` says of every
connection to a server that can create the folder that its two ends follow the
protocol (`Protocol`), in three parts:

* the server's end (`ServerPhase`): in `callback_read` no part is due; in
  `callback_put` it either waits, with nothing on its way, for a client that has
  not seen `READY` (`Waits`), or a version and a part exist such that what is on its way
  agrees byte by byte with the header and the bytes that are due, of this part
  and perhaps of the other one (`Receives`). While the connection is open
  everything due that is not on its way is in the client's output buffer, and
  the client is in its loop to write it (`OnItsWay`). On a lost
  connection what has come may end anywhere: a prefix of a part is not stored
  unless all its bytes have come;
* the client's end (`ClientPhase`), while the connection is open: nothing of an
  upload is under way (`Talks`), or its request is the last thing written or to be
  written and no `READY` is under way (`Asks`), or the request was
  served and its `READY` is the last thing under way (`Answered`). This is
  where the loops matter: `callback_put` of the client returns to the prompt only when
  all is written, and no command starts before, so the next
  request cannot overtake the rest of an upload;
* nothing but the rest of its own line and its credentials follows the request of
  an upload (`PutLast`), so that `callback_read` finds it alone and never takes
  the first bytes of a file for a command.

Besides, a connection that is open is read by its client, one of a program that has
not started is untouched (`Links`), and all parts on the disks are right
(`PartsAreRight`): whole, or begun by a server that a kill has stopped since
(`IsPart`). The operators of `Protocol` are of constant level, so the steps are
lemmas about one buffer and one stream: `HeaderStep` and `DataStep` follow one round
of `callback_put` of the server, `LoopKeeps` its rounds, `UploadBuffered` what
`callback_put` of the client writes, `WriteKept` one write, `RequestKept` a new
request, `ClosedKept` the loss of a connection. A kill during a write
(`KilledWriting`) stops the same rounds of `callback_put` between the open and the
close, so that its lemma follows from theirs. On top of them there is one lemma per
action, and `TypeInv` supplies the types.

`FetchProofs` proves what GET brings back, for every number of clients, commands,
kills and restarts:

* `FetchedPartsAreParts`: every part in `tmp/` comes from that part of one uploaded
  version (`FetchedFromUploads`): a byte is the byte in this place or one that
  nobody initialised, never one of a line or of another part;
* `FetchedPartsAreInPlace`: of a version uploaded under the name it was asked for, and
  as long (`FetchedBytesAreInPlace`), however reads end;
* `FetchedPartsAreOfTheFile`: the same without garbage (`FetchedPartsAreSlices`);
* `RetrievedAsUploaded`: a file that GET has put together is the version that was
  uploaded (`RetrievedIsUploaded`).

GET keeps none of these promises in every environment, so the theorems say in which
it does. Each hypothesis excludes one defect of the code, and without it there is
a counterexample (see `More were met with MCDfs`, and the comments at the theorems):

| Hypothesis | What happens without it | Needed for |
|---|---|---|
| `FlatNames`, `PlainFiles` | torn parts on the servers, as for `PartsAreNeverTorn` | all |
| `OneSize`: all versions have one size | the length of a part is said when the request is answered, its file read when it is sent | all, implied by `OneVersion` |
| `OneName`: one file name | what a GET leaves unread is taken for the answer to the next | all but the first |
| `WholeWrites`: no kill falls between the open and the close of a part's file, or no server is started again | the server that is started again serves what it had written of the part | all but the first, which says that bytes may be missing at the end |
| `InWrites`: no read ends inside one write (`Splits` is `"write"` or `"burst"`) | `callback_get` takes the announced number of bytes whether they have come or not, so a part is filled up with bytes nobody initialised | the last two |
| `OneVersion`: one version | `FileBuilder` keeps the parts it has, the servers keep parts of older versions | the last |

`bytes` is an instance of the hypotheses of the first, with reads that end anywhere,
kills in the middle of a write and restarts, `two_clients` of the first three, and
`four_servers` of all. `OneVersion` makes `OneName` no weaker, as a second name without
a version could still be asked for.

`FetchInv` is the invariant, on top of `TypeInv` and `UploadsInv`, and was an invariant
of the instances' runs before it was proved. Its subject is the line `GOOD p l`:

* in the output buffer of a server it is followed by the segment of the part, which
  is on the disk (`OutOn`). The bytes are read from the disk when they are sent; by
  then it may be another version's part, but it is whole (or what a kill has
  left, without `WholeWrites`), because `PartsAreNeverTorn` holds of the disks, and as
  long, because of `OneSize`;
* between the socket and what the client has not taken out yet it is a whole line,
  and what comes after it is all of its part, or the stream ends there and the part
  is the first segment of the output buffer; on a lost connection nothing may come
  any more (`Framed`, `Comes`, `Announced`);
* with `InWrites`, no read can end inside of a part (`Unbroken`, `Outside`), as a fact
  about the recorded cuts of the stream; without it, what is taken before it has
  come is `Garbage` (`Brought`);
* a client between `GOOD` and the bytes, in the state of `m_get_state` where it waits
  for them, has that part next (`PartNext`). This is the conjunct that the others
  are for: the number and the length it counts with are the ones of the part that
  arrives;
* only the connection to the server that GET is at runs a loop of GET (`AtGet`), so
  `partnum` and `size` of the program, which all its connections share, belong to it;
* `tmp/` and the retrieved files are right (`FilesRight`).

These are again operators of constant level, and the lemmas follow them through what
the code does to a stream: append a reply or a part, send the first segment, cut,
read, take a line, take a part. `callback_get` goes over its buffer in `Rounds`, so one
round is one lemma and `RoundsStay` does the rest. That four parts make the file is
`PartsTile` of `LayoutProofs`.

`FetchProofs` also proves when the servers stay up, `ServersOutlastClients`: in an
environment with `FlatNames`, `PlainFiles`, `InWrites`, no `ShortNames` and no `Unwritable`
folder, and as long as no client has left (`SomeClientLeft`), no server is brought
down (`NoServerAborts`), for every number of clients, files, versions, commands,
kills and restarts and every size of a version, also of empty parts. Each condition
is a way in which the code lets a server end:

| Condition | What ends the server without it |
|---|---|
| no client has left | an answer to it is a SIGPIPE, which nobody handles |
| `InWrites` | `callback_put` makes a string of the line it did not get (`Server.cpp` 370): of a header that was cut, or of what follows a part that was cut, because the state moves on without the bytes |
| `ShortNames = {}` | the name is assigned to a string that was set to zero bytes (188, 344) |
| `Unwritable = {}` | the folder that is not there is listed (325) |
| `FlatNames` | an upload that is given up leaves `putState`, and the next one starts in its middle |
| `PlainFiles` | bytes of a file are taken for a header, and what follows is not one |

A client leaves when its user quits and when it is killed, by SIGPIPE or by
`std::stoi` on `INVALID_CREDENTIALS`. In `four_servers` the client may be killed
too, and the run shows that there, with one client, no server falls even then; for
more clients the theorem claims nothing after that.

The invariant is `AllSafe`, on top of `TypeInv` and `UploadsInv`. It says of every open
connection (`Safe`) that in what the server holds, what is on its way and what
waits in the client's output buffer every header has its newline and all its
bytes behind it, the bytes perhaps as the next write (`Headed`); that no read can
end between a header and its newline or among its bytes (`Uncut`); and that a
server that waits for bytes has all of them before it or in the next write
(`WantsData`). `UploadsInv` enters where `callback_put` is left: a server that takes a part
finds nothing or the other header behind it, and `callback_read` finds no header.

Only model-checked are the properties of `Startup`, the configuration of the log,
whose operators are folds over lists, so that what they compute is a matter of
induction over data. Liveness and fairness are beyond the prover too.

## Not modelled

* `callback_timeout` (`Connection.cpp` 134-142): its event is never added.
* Of `easylogging++.h`: the parser of configuration files for loggers, rolling of
  log files and dates in file names, hit counters and the macros that use them,
  performance tracking, user-defined specifiers, logging of containers, the
  syslog and Windows parts, `setRemainingToDefault` (which wipes the settings of
  levels where `Level::Global` has none, against its comment in 2622-2626): neither
  program calls them. Colours and the wording of stack traces are layout.
* The memory and descriptors of connections whose clients are gone
  (`Server.cpp` 238), full kernel buffers.
* The makefile and the files in `conf/`: no behaviour of their own; `dfs.conf` is
  read by nobody.

## Plan

1. Done: `Layout`, `PutPlan`, `ClientProgram`, their proofs; `Channel`,
   `DfsServer`, `OpenServer`, `PartStore`, `DfsClient`, `DFS`; `Logging` and its
   proofs; `LogFormat`, `LogArgs`, `LogConfig`, `LogTable`, `Startup`; the runs
   above.
2. Done: the proofs about `OpenServer`, the order of log lines and the
   configuration file; the type invariant of `DFS`, and `ListedIsStored`.
3. Done: `StoredPartsAreSlices`, proved on top of `TypeInv`.
4. Done: `FetchedPartsAreSlices` and `RetrievedIsUploaded`, proved where the
   counterexamples above cannot occur, on top of `UploadsInv`; `FetchedBytesAreInPlace`,
   however reads end; `NoServerAborts` while no client has left.
5. Two users' programs with uploads of different sizes, and a restart between
   them.
