# SmartGateway: TLA+ models and proofs

SmartGateway connects sensor nodes, over a Bluetooth serial line and over WiFi TCP connections, to
one TCP server. Nodes send DATA up and answer commands with ACK or NACK; the server sends CMD down
and retries what is not answered. This directory holds models of the parts whose correctness
depends on interleavings, failures and long sequences of calls, the TLC runs that check them, and
proofs of what TLC can only check on small instances.

All definitions are translated from the code, one comment per definition where the correspondence is
not obvious; `PROJECT.json` gives for each definition the lines it stands for.

## 1. Inventory

| Component (source) | State | Operations | Interacts with | What is hard | What makes it correct |
| --- | --- | --- | --- | --- | --- |
| Device registry (`gateway/device_manager.c`) | up to 16 entries: node id, transport, fd, thread, online, a ring of 8 commands | register, unregister, set_online, bind, disconnect, enqueue, try_dequeue | called by every gateway thread under one mutex | takeovers, stale workers, rings that wrap, entries that move | one entry per node; no command lost, copied, misrouted or inherited by another connection |
| Upstream queue (`gateway/message_queue.c`) | ring of 32 messages, two condition variables, `shutting_down` | push, pop, try_pop, shutdown | node workers produce, the server link consumes | lost wakeups, shutdown with waiters | a bounded FIFO; nobody waits for ever |
| Main loop (`gateway/gateway_loop.c`, `main.c`) | `g_running`, threads, worker group | start threads, accept, stop and join | creates and joins all threads | failures halfway, order of the joins | it ends; nothing is destroyed in use |
| Node workers (`gateway/wifi_client.c`, `bluetooth_worker.c`, `gateway_app.c`) | own fd, `bound_node_id`, a command in hand | bind by the first message, upload, send commands, tear down | registry, upstream queue | every exit path, loss of ownership, blocking pushes | every command sent or NACKed once |
| Server link (`gateway/server_link.c`, `gateway_app.c`) | tcp_fd, one held message | pop, connect, send, receive and route commands | upstream queue, registry, server | reconnection, refused routes | held message survives; refusals are answered |
| Command manager (`server/command_manager.c`) | 64 entries, next sequence | send, on_ack, on_nack, check_timeouts | server main loop | late, repeated or foreign answers, more commands due than the caller's arrays hold, full table | right match, no early and no missing verdict, retries that are sent |
| Node store (`server/node_store.c`) | latest data per node, LRU | update, query, is_online, foreach | server main loop | eviction, clock | latest data of the nodes heard last |
| Server main loop (`server/main.c`) | one client, receive buffer, console | accept/replace, receive, send, retry | command manager, node store | replaced client, events of a closed connection, retries, restart | lines of one connection, which end with a whole message; no `recv` that waits; verdicts that are true of the node |
| Line and frame parsers (`common/line_parser.c`, `frame_parser.c`) | buffer, byte state | feed | workers, server link, server | chunks, overflow, resynchronisation | lines and frames independent of the chunking; none lost, none made up |
| Codecs, CRC (`common/frame.c`, `message_json.c`, `crc16.c`) | none | encode, decode | everybody | two encodings with different limits, two generations of JSON | what arrives whole is taken as what was sent, or not at all |
| Node (`tools/mock_node_app.c`) | LED, fault counter | answer a command, report | serial line | refusals, faults, unreadable commands | an acknowledgement means that it was executed |
| Serial and socket wrappers | none | open, read, send, accept | system | | |

Calls and shared state: the Bluetooth worker and each WiFi worker call the registry (bind by the
first message, `try_dequeue` on every turn, `disconnect` at the end) and push what goes up into the
upstream queue. The server link pops it and sends it to the server, and routes what the server sends
into the registry's rings. The main thread creates, counts and joins. The registry has one mutex, the
queue one mutex and two condition variables, the WiFi worker group one mutex and one condition
variable; `g_running` is a flag cleared by a signal. The server is one thread around `poll`.

## 2. Modules and how they correspond to the code

| Module | Models | Used by |
| --- | --- | --- |
| `DeviceManager` | `gateway/device_manager.c` | `Gateway` (INSTANCE), `DeviceManagerProofs` |
| `NodeChannels` | what the registry promises: one connection per node, one FIFO per connection | `DeviceManager` (refinement) |
| `MessageQueue` | `gateway/message_queue.c` at the grain of its mutex | `MessageQueueProofs` |
| `BoundedFifo` | what the queue promises | `MessageQueue` (refinement), and the way `Gateway` uses the queue |
| `Gateway` | all gateway threads around both | `GatewayProofs` |
| `CommandManager` | `server/command_manager.c` and the clock of the server's main loop | `Server` (INSTANCE), `CommandManagerProofs` |
| `NodeStore` | `server/node_store.c` | `NodeStoreProofs` |
| `Server` | `server/main.c` around `CommandManager` and `LineParser`, with connections, gateway and nodes | `ServerProofs` |
| `LineParser` | `common/line_parser.c`: what a turn takes off a buffer | `LineReader`, `Server` (INSTANCE) |
| `LineReader` | a receive buffer with its overflow rule in front of it (`gateway/wifi_client.c`, `server_link.c`) | `MessagePath` (INSTANCE) |
| `FrameParser` | `common/frame_parser.c`: the byte machine and the validation | `MessagePath` (INSTANCE), `FrameParserProofs` |
| `Codec` | `common/frame.c`, the decoders of `frame_parser.c`, `common/message_json.c` | `MessagePath` (INSTANCE) |
| `MessagePath` | the handlers between them: `gateway_app_on_frame`, `_on_wifi_line`, `_on_tcp_line`, the server's `on_line`, the node's `on_node_frame` | `MessagePathProofs` |
| `MC*` | the small instances TLC checks | |
| `*Proofs` | theorems and their proofs | |

In every module a definition with the comment `Fault:` is not part of the specification. It is the
neighbouring definition with a plausible mistake in it (a lost reset, a missing test, a wrong order),
kept so that one can see which property notices: `PROJECT.json` pairs each property with such a
mistake, and TLC finds the property violated when the mistake is put in.

**DeviceManager.** `devices` is the array of used entries in registration order; an entry is a
`device_t` with its ring (`queue`, `head`, `tail`, `count`), whose stale slots keep their contents.
`fate`, `acceptedFor` and `takenBy` are history. Every function holds the mutex for its whole body,
hence one action per function and one disjunct per outcome:
`bind_connection_collect_commands` is `BindNew`, `BindFull`, `BindConflict`, `BindAgain`,
`BindTakeover`, `BindTooSmall`; `disconnect_collect_commands` is `Disconnect`, `DisconnectRefused`,
`DisconnectTooSmall`; `enqueue_command` is `Enqueue` and `EnqueueRefused`; `try_dequeue_command` is
`TryDequeue`, `DequeueRefused`, `DequeueEmpty`; `Register`, `Unregister` and `SetOnline` are used by
the tests only. `GatewaySpec` has the gateway's calls, `Spec` all of them. Left out: `last_seen`
(written and never read), NULL arguments, a mutex that cannot be initialised. As in the code,
registering with descriptor 0 gives an offline entry while binding with it gives an online one.

**MessageQueue.** `items`, `head`, `tail`, `count`, `shutting_down` are the struct. `not_full` and
`not_empty` are the threads inside `pthread_cond_wait`, `woken` those that were signalled (or woke
for no reason) and have still to get the mutex back, `arg` what a producer is about to push. One step
is one stretch of code under the mutex: a call, or what a woken thread does, up to its return or its
next wait.

**Gateway.** `pc[w]` is where a worker is in the loop that `wifi_client_worker` and
`bluetooth_worker` share: `loop` (test of `running`, `try_dequeue`), `send`, `read` (poll, receive,
bind or upload), `push` (blocked in or before `message_queue_push`, with the messages still to push in
`todo` and the place to go to in `after`), `teardown` (`disconnect_collect_commands`), `close`,
`remove`. `link` is the server link's location, `up` its connection and `pending` the message it
holds over reconnections. `main` and `newFd` are `gateway_loop_run`, `active` the worker group's
count. A step has at most one access to state another thread can change, so that every interleaving
the locks allow is there. A queue message is the command it is a gateway NACK for, or `Upload` for any
message of a node. Receive buffers and sockets are choices: nothing, up to `MaxLines` messages, the
end. `LowestFree` counts the descriptors of the workers only; the others are held throughout.
The failures of the main thread before a thread runs are left out.

**CommandManager.** `entries` is the table, `next_sequence` as in the code; `sent_time` is kept as
the age of the last transmission, which stops at the threshold because only `age >= timeout` is ever
asked. Answers of any number from any node may arrive at any time. `copies` and `elapsed` are history.

**NodeStore.** `entries` is the used part of the array, `now` is `time(NULL)` in seconds; `latest`
(the last report of every node) is history. Only the wall clock going back is left out.

**Server.** `pc` and `revents` are where the loop is in its turn and which of poll's events are still to be
handled, in the order of the code: stdin, listening socket, client, hang-up. `client_fd` and `receive_buffer`
are its locals. A connection is a number; `state`, `backlog`, `up` and `down` are what the kernel keeps of it:
closing with unread data resets it, what is sent to a closed one is lost, and a message whose sending fails
leaves a part of its text, or all of it, without its line feed (`Cut`, `Text`). A held message that fails so
ends its connection (`LinkSendFails`); the NACK of a command that cannot be routed does not, since nobody
looks at what `gateway_app_send_route_nack` returns (`LinkRefuses`, `Parts`), and the next message is joined
to it. `up` and `receive_buffer` hold a unit for a message's text and one for the line feed, so that a message
can be read in parts. `Decodes` says which joined lines a decoder takes. The gateway is reduced to where a
command or an answer can be (`queue`, `ring`, `toNode`): `Gateway` shows that it sends or NACKs what it
accepted, here it is free to lose, refuse and delay. `run` in a command is how often the server was started
again; no guard looks at it, it is there to say what an answer was for. DATA concerns the node store alone and
is left out. A send of the server (`send_all`) is one step here, though it blocks while the gateway does not
read.

**LineParser, LineReader.** A buffer is a sequence of units: line feed, carriage return, or a piece of
text. `pending` is `wifi_buffer[0 .. wifi_length)`; `Reads`, `Overflows` and `TakesLine` are what
follows a `recv` and a turn of `line_parser_feed`. `arrived`, `lines` and `drops` are history.

**FrameParser.** `collecting`, `buffer` and `stats` are the struct, one `Feed` is one turn of
`frame_parser_feed` with its branches in their order. Units are bytes, but for the four digits of a
CRC, which are one. A NUL byte is there because `strrchr` stops at it. `Crc` is any function.

**Codec, MessagePath.** `Codec` has one operator per encoder and decoder; a JSON object is the sequence of its
members, so that order, repetition, unknown members and the older form (`temperature`, `led`) can be told
apart, the value of `fields` is an object of its own with texts and numbers, and texts are values that an
array holds or not, empty or not, with a reserved byte or not. `MessagePath` feeds a stream of messages, cut
and damaged, through a reader, a handler, the conversion to JSON and `on_line`, and the other way to a node
and back. `bound` is `bound_node_id`, `handled` what the server took, `executed` what the node did. What an
overflow leaves of a WiFi line may begin with the member `fields`, or at the brace inside it: `Objects` has
both readings, and the second is an object like any other, since what follows its closing brace is passed
over. A line between gateway and server arrives whole here or not at all; what is left of one whose sending
fails is in `Server`.

## 3. What the runs check

| Run | Instance | Question and answer |
| --- | --- | --- |
| `dm_api` | 2 nodes, 3 commands all for one, 2 entries, ring of 2, two descriptors of one thread | The whole interface called in any order: no duplicate entry, no ring whose indices disagree, no command lost, copied or in another node's ring. Holds. |
| `dm_gateway` | 2 nodes, 1 entry, ring of 2, each thread with its own descriptor | With the calls of the gateway the registry implements `NodeChannels`: nothing pending on an offline node, nothing inherited, nothing taken by a stale worker. Holds. |
| `queue` | 3 producers, 2 consumers, 2 messages, 2 slots | FIFO, no lost wakeup, nobody left waiting by a shutdown, and everybody released. Holds. |
| `gw_takeover` | 1 node, 2 commands, 2 WiFi threads, queue of 1, symmetry of threads and commands | Connections replace each other with descriptors and threads reused: the last to bind stays owner, an online node has a live worker, each command is sent or NACKed once. Holds. |
| `gw_stop` | 2 nodes, 1 command, 1 WiFi and the Bluetooth thread, 1 entry, stop at any time, fair | Both transports, a full registry, transport conflicts: accounting of commands and NACKs, nothing is destroyed in use, and a signal at any time, or a failed start, ends the process. Holds. |
| `gw_answer` | 1 node, 1 command, 2 WiFi threads, fair, server reachable again and again | An accepted command is sent or NACKed. Holds. |
| `cm` | 3 entries, retry arrays of 2, numbers modulo 5, timeout 2, 1 retry, 2 nodes | Unique numbers, verdicts neither early nor changed nor missing; a retry that was not handed out found the arrays full of others. Holds. |
| `cm_full` | timeout 1, 1 retry | A full table is full of commands in flight. **Violated** (finding 1). |
| `cm_retry` | retry arrays of 1 for a table of 2, 2 retries | Every retry is handed out. **Violated** (finding 2). |
| `store` | 4 nodes, 3 slots, 2 payloads, timeout 2, 4 seconds, symmetry | Queries return the last report, the stalest is forgotten, recent nodes are online. Holds. |
| `server` | 1 node, table of 2, retry array of 1, numbers modulo 4, timeout 1, 1 retry, 2 connections, 1 restart | Every line is of the connection served and ends with a whole message, alone unless a NACK that was sent in part stands before it; `recv` is called only when it returns; an ACK is true within one run of the server; a NACK is false only of a command sent twice; nothing multiplies a command. Holds. |
| `path` | 3 messages per course, frames of up to 12 units, buffer of 10, reads of up to 3 | Exactly the intact frames, lines genuine, and at the far end exactly the messages that arrived whole, in order, with every field; after an overflow at most one message of each line, the one sent or what its fields spell; answers that are true. Holds. |

**Bounds.** Two entries and rings of two have every wrap, a head in the middle, an empty and a full ring, and
an entry that moves when another is unregistered; three commands for one ring fill it and wrap it. A queue of
two with three producers is the smallest in which signals can outnumber the waiters they were meant for and
all producers can wait. Two WiFi threads are enough for a takeover to race with the old owner's exit, also
when the new connection reuses the descriptor; a thread is used again after it ends. `UpstreamCap = 1` makes
every push contend. `MaxLines` bounds the messages of one read, `MaySignal` switches the stop off where a run
is not about it, `MaxTime` ends the store's clock after enough seconds for all orders of times and the
timeout. The constants of the command table keep what matters of the real ones (64, 2^32, 3 s, 2, 16): a table
smaller than the number space, retry arrays smaller than the table, a timeout that takes several ticks, and
retries up to their limit. Since an entry is never freed, the numbers do not come round, here as in the code.
In `server` two connections are enough for one to replace the other with a message half sent, one restart for
an answer to reach the wrong process, and a table of two for a command to be confused with another;
`MaxTyped`, `MaxConnections` and `MaxRestarts` end the run. `Stalling` is the second connection: there a NACK
may be sent in part, after the first may have ended in the middle of a message; the theorems hold for any such
set. In `path` a course of three has a message before and after the one that is damaged; every cut and every
hit place of a frame is tried, every pair of odd messages, every way of reading, and objects that fit the
buffer, overflow it at once or only together with their neighbours, two of them with fields that spell a
message (`Spelling`), so that the cut can fall before their brace. `Courses` are the inputs tried, listed in
`MCMessagePath`. `FrameMaxLen = 13` admits two fields and refuses four; `JsonMax = 11` refuses three, as the
code's 256 bytes refuse fields that a frame of 256 bytes can carry; `SequenceLimit = 10` stands for 10^6. No
state constraint is used and deadlock is checked everywhere: a gateway that has ended takes the step
`Finished`, a course that is over the step `Done`.

**Fairness.** `Gateway!FairSpec` is weak fairness of each thread. It is justified because every call
in the threads' loops returns (poll and the sends have timeouts, the kernel gives a connect up, and
accept is called when poll reported a connection), except a push into a full queue, which is a guard
in the model. It is not assumed that clients connect, that a send
succeeds, or that a node sends anything. `ServedSpec` adds assumptions about the environment: the
server takes a message again and again if the link keeps trying (strong fairness of `LinkSendOK`), and
the mutex and condition variable do not pass over one waiting worker for ever (strong fairness of
`PushOne`). Without the first a command's NACK may stay in the gateway for as long as the server is
away; without the second POSIX would allow starvation. `CommandManager!FairSpec`: the main loop comes
round at least once a second because its poll has that timeout, and time passes.
`MessageQueue!FairSpec`: a thread that was woken gets the mutex again. `Server` and `MessagePath` state
safety only.

## 4. What is proved

The theorems hold for every value of the constants that satisfies the named assumptions in the
modules: sizes are positive naturals, the values that stand for "none" are different from the real
ones, sequence numbers outnumber the table's slots, nodes and WiFi threads are finitely many, a line
feed is no text. The two readers state theirs as `Sizes`: `FrameParserProofs` has it as a hypothesis, and
`MessagePath` assumes it of the values it gives them.

`MessagePath` assumes besides what a course is. Only `ObjectsAssumption` names what the code does, to say which
message an object of a foreign form stands for:

- `SegmentsAssumption`, `MessagesAssumption`: the segments are a sequence, each of a message with a type, a
  sender, a number and fields, of which an encoder makes a sequence of units;
- `LineAssumption`: the bytes the readers look for (@, *, the line ends, NUL, braces) stand for nothing else;
  what is sent over TCP is not cut or damaged (how it is read in parts is the model's);
- `ObjectsAssumption`: an object that no encoder here writes (an older form, repeated or padded members)
  carries as its message the one that is read of it. For the encoders' own objects that is proved;
- `ProtocolAssumption`, `MalformedAssumption`: the node's own words fit a frame and an array of the decoders,
  and the model's value for "refused" is different from every text;
- `NoChance`: no damage makes a frame by chance. An intact frame of the stream is a segment that arrived
  whole. It cannot be done without: the beginning of one cut frame and the end of an equal one make an intact
  frame, though neither arrived whole, and a damaged frame can have the CRC of another. The path would hand
  such a frame on, and it should. `IntactFramesArrive` does not use it.

TLC evaluates every assumption on the values of the runs, and `MCMessagePath`'s courses, with every cut and
every damaged place, satisfy them.

| Module | Theorems | Argument |
| --- | --- | --- |
| `DeviceManagerProofs` | `TypeCorrect`, `OneEntryPerNode`, `RingsAreConsistent` | `RegistryInv`: entries well typed, history well typed, ids unique, tail = head + count modulo the capacity. The types alone are not inductive: that the search's result is an entry needs the search, and that a full ring refuses keeps `count` in range. |
| | `RingsAreExact`, `RoutingIsRight` | `RingsInv`, for the whole interface: no command is twice in a ring or in two rings; what a ring holds was accepted and is not settled; what was accepted and is not settled is in a ring; every command of a ring is for its node. Each operation changes one ring, and `RingsAreConsistent` says which slots a ring holds, so that the lemmas about one ring (`EnteredBehind`, `TakenInFront`) carry over to the table. |
| | `OfflineIsEmpty`, `NothingIsInherited`, `OwnerTakes`, `RegistryIsChannels` | `OwnersInv`, for the gateway's calls: what waits in a ring was accepted for the connection the entry has now, and that connection is one that called. The last two assume `OneDescriptor`, no two connections of the same thread: `try_dequeue` compares the thread only, and without the assumption they are false. With it each call of `GatewaySpec` is a step of `NodeChannels` or a stutter. |
| `GatewayProofs` | `DestroyedLast`, `TypeCorrect` | `BaseInv`: every step of a thread is a call of the registry's `GatewaySpec` or leaves the registry alone, so that its three invariants hold here by the lemmas of `DeviceManagerProofs`; what a worker's variables hold at each place; that the joins of the main thread, and the count of the WiFi threads, cover every thread there is. |
| | `OnlineIsServed`, `LastBinderOwns`, `OwnCommandsOnly`, `GatewayIsChannels` | `OwnershipInv`: an online entry belongs to a worker that still serves it, no two living workers have a descriptor in common, and a worker that is still the last to have bound a node owns its entry. `OwnerTakes` had to assume one descriptor per thread; here thread ids and descriptors are given out again, and the theorem follows from what the workers do: a thread id comes back only after its owner disconnected. |
| | `NothingGetsLost` | `CommandsInv` and `NacksInv`: where a command is, stated as sets of places (a worker's hand, the rest of a worker's NACKs, sent, refused; queue, link, told) of which each command is in one. The properties count with cardinalities; the lemmas that a count is 0 or 1 exactly when the set is empty or a singleton connect the two. |
| `ServerProofs` | `TypeCorrect`, `LinesAreWhole`, `LoopNeverBlocks` | `BaseInv`. Loop: an event that is still to be handled is one `poll` may have reported, and the connection it is for is still there: replacing or dropping it ends the turn. Streams: what is in the receive buffer and, behind it, in the connection served, is framed (`Framed`: a line feed ends a whole text; a text that runs into another is a NACK's), and so is every other connection; a stream grows by a text with or without its line feed at its end (`GoesOn`), and only the open connection grows, so that what a held message left when its sending failed is the last of its connection. The command table's invariant holds by the lemmas of `CommandManagerProofs`. |
| | `NeverMultiplied`, `NackIsOfACopy`, `AckIsOfAnExecution` | `ServerInv` counts the copies of a command wherever they can be: to be read by the gateway, in its ring, on the way to the node, executed, and one for a NACK that is under way or was taken. No step but the server's own sending raises that `Weight`, and a sending raises `copies` with it (`CopiesInv`); what has a weight was issued, now or in an earlier run. A NACK of the first run that decides a command is therefore its own, and takes one of the copies that could have been executed. An ACK under way is of something executed (`AcksInv`), and a matching number and node in the same run mean the same command, since numbers are not used twice. |
| `MessageQueueProofs` | `TypeCorrect`, `NoWakeupIsLost`, `ShutdownEndsWaiting`, `QueueIsFifo` | `WaitInv`: the waits, together with the fact that nobody is both waiting and awake, so that a signal makes one more thread awake; then one signal for each slot or message keeps the awake threads ahead. `RingInv` (tail, head and count agree) makes the contents a queue: every step maps to a step of `BoundedFifo` or to a stutter. |
| `CommandManagerProofs` | `TypeCorrect`, `SequencesAreUnique`, `TimeoutsAreNotEarly`, `FinalStaysFinal`, `RetriesThatFitAreHandedOut` | `TableInv`: the i-th entry has number i, since entries are never freed and the counter stops with the table (nothing is said of a wrap, which is out of reach); the time that passed is at least retries x timeout + age, which is what makes "not early" inductive. The last theorem holds for any sizes of table and arrays: `HandedOut` says of each command that it was sent as often as its retries were counted, or stands behind as many others that were sent again as the arrays hold. The commands of the first 16 slots of the server therefore get all their retries; for the others finding 2 is what can happen. |
| `FrameParserProofs` | `FramesSurvive`, `StatisticsAreComplete` | `ParserInv`: while it collects the buffer is the end of the stream from the last @ on, without a line feed; and no start of a frame was forgotten (`NothingForgotten`): one that is not being collected was followed by another start, by an end, or grew too long. The second is what makes an intact stretch of the stream one that was handed over. What makes a frame valid stays closed, so that the theorem holds for any CRC. |
| `MessagePathProofs` | `IntactFramesArrive`, `ShortLinesAllArrive` | `PathInv`: what is still to come is a sequence of units that both readers know, and each reader keeps its invariant: a step of the path is a step of one reader and leaves the other alone. The parser's part is `FrameParserProofs`, instantiated (`SameMachine`). The reader's, `ReaderInv`: `pending` is the end of what arrived, and starts a line unless something was thrown away just before; lines end where the text behind them starts. If no line is longer than buffer less read, an overflow would need a stretch without a line feed that is longer; so there is none. That the segments joined are a sequence is an induction along `FlattenSeq`, a recursive function: it is proved by a least counterexample (`JoinedIsSequence`, `Least`), the least element being taken from the well-foundedness of the subset order. |
| | `EveryMessageIsHandledOnce`, `NothingElseIsHandled`, `EveryAnswerIsTrue` | `EndToEndInv`. `LineInv`: what was read and what is to come are what was sent, so that a segment has its place in the stream (`SegmentAt`, `EndOf`) and the frames handed over are those of the segments that arrived (`DeliveredAre`, from `NoChance`); on a WiFi line, a line that is taken ends with a segment, and is either all of it or, begun behind its brace, no object or an object that is inside the segment's (`RestsOnly`, `LineTaken`). Then the round trips of the codecs: what a frame's decoder reads of an encoder's payload (`TokensOfPayload`, `ParsedPayload`), what a JSON decoder reads of an encoder's object (`DecodedAnswers`, `DecodedData`), and both after each other with the limits on the way (`TakenAsItIs`, `CommandAsItIs`). A message more is one more at the end of what should be handled (`OneMore`), since the connection is bound to the first node heard of (`BoundInv`): `SerialInv`, `WifiInv`. `CommandInv`: the answers, the acknowledgements among them and the executions keep step with the commands that arrived (`OneAnswer`). After an overflow what was thrown away is missing, and what is claimed is that the rest is in order, a line at a time, each the message sent or one its fields spell (`OneSaid`, `Sometimes`). |
| `NodeStoreProofs` | `TypeCorrect`, `QueryIsLatest`, `StalestIsForgotten`, `RecentNodesAreOnline` | `StoreInv`: a slot is the last report of its node, no report is from the future, and only a full table of fresher nodes forgets one. The last theorem counts: the slots map one to one into the other recent nodes, so a recent node that is missing makes more recent nodes than slots. |

`OneDescriptor` is what a caller of the registry has to keep for `OwnerTakes`. The gateway does not keep it in
that form, since a thread id is given out again with another descriptor after its worker ended;
`OwnCommandsOnly` and `GatewayIsChannels` show that it keeps what is needed.

Each inductive invariant was checked by TLC on the instance of a run before it was proved (`PathInv` on a
selection of its courses, the other parts of `EndToEndInv` on all of them).

With these, every safety property of every passing run is the conclusion of a theorem. Only model-checked are
the liveness properties (`Terminates`, `AbortTerminates`, `EveryCommandAnswered`, `ShutdownReleases`,
`EveryCommandDecided`), which are out of the prover's reach with their fairness, and ENABLED, in which
deadlocks would be stated. No module declares a RECURSIVE operator.

## 5. Where the code and its comments differ

1. The command table is said to bound commands in flight (`server/command_manager.c:26`, `:192`), but
   an entry is never freed: a server process sends 64 commands in all, however few are still waiting (`cm_full`).
2. A retry is counted although the caller's arrays are full (`server/command_manager.h:153`,
   `command_manager.c:413`; arrays of 16 for a table of 64) (`cm_retry`).

Without a run of their own:

- the server's verdicts rest on lines of one message each (`server/main.c:132-135`), and the link drops a
  connection on which a message failed. A NACK of a command that cannot be routed is the exception: its
  sending may give up half way (`gateway/tcp_client.c:110-145`), nobody looks (`gateway/gateway_app.c:884`,
  `:1024`), and the half line stays on the open connection. The next message, an answer perhaps, is joined to
  it and lost with it; the command it answers is retried or times out. `WholeLines` bounds the damage: no
  other message runs on, and `FalseAckOnlyAfterRestart` holds all the same;
- what a WiFi worker's overflow leaves of a line (`gateway/wifi_client.c:455-463`) may begin at the brace of
  `fields`. If these fields are called `node`, `seq` and `type`, the decoder takes them for a message
  that nobody sent, and passes over the rest of the line (`common/message_json.c:479-557`).
  `HandledWasSent` says that nothing else is made up, and never two messages of one line;
- `device_manager_try_dequeue_command` says that fd and thread id confirm the owner; it compares the
  thread only (`gateway/device_manager.c:554`, `:604`). Harmless in the gateway, whose threads serve one
  descriptor at a time: `OwnCommandsOnly` proves it;
- texts are said to hold no quotation mark or backslash once they come from a frame, so that JSON needs
  no escapes (`common/message_json.c:48-51`); `field_text_is_valid` and `parse_kv_payload` let both
  through. The models have no such texts, and none with a brace in it;
- the server looks for `"type":"ACK"` anywhere in a line (`server/main.c:168`): data with a field
  `type=ACK` or `type=NACK` is dropped, not stored. It is never taken for an answer (`path`);
- a frame of 256 bytes can carry fields that no JSON line of 256 bytes can: such a message is dropped at
  the gateway as a whole (`path`);
- numbers in frames have six digits (`common/frame.c:189`), the server's have 32 bits: over Bluetooth an
  answer to a command above 999999 would not be matched. The table's 64 slots come first;
- the node reads a value that is no number as 0 and switches the LED off (`tools/mock_node_app.c:156`);
  its next report is said to come in a second and comes in five (`:472-474`);
- upstream messages are said to be dropped and counted while not connected
  (`gateway/gateway_app.c:274`); they are queued, and workers wait when the queue is full;
- the store is said to be visited in the order of registration (`server/node_store.h:128`); an
  eviction reuses a slot in place;
- the Bluetooth transport is said to be shared by several nodes (`gateway/device_manager.h:67`, `:97`);
  `gateway_app_touch_device` binds a connection to the first node and rejects the others
  (`gateway/gateway_app.c:516-526`);
- the store's "least recently updated" is by whole seconds with ties to the lowest slot: of two nodes
  heard in the same second the one heard later may be evicted.

## 6. What is not modelled, and the plan

Not modelled: the wrappers of serial port and sockets (their outcomes are choices of the models); the
text of frames and JSON below tokens and members (digits, whitespace, escapes, exponents); the
arithmetic of the CRC; the buffer that stdio keeps of typed lines, where `poll` does not see them;
statistics other than the frame parser's, and log output.

Planned:

1. `MessagePath` with both directions at once, and a node that restarts between two frames.
2. A refinement of `Server` and `Gateway` together: the places a command can be at in `Server` are an
   abstraction of the gateway's, which is stated in words only.
