# Formal models of the networking labs

This directory specifies, in TLA+, the programs of this repository that keep
protocol state.  TLC checks every specification on small instances, and TLAPS
proves their safety properties and refinements for every value of the constants.
The repository is a collection of independent programs, one directory each;
they do not talk to one another, so every component below is a system of its own.

## The system's parts

| Part | State it keeps | Operations | What is hard | What makes it correct |
|---|---|---|---|---|
| HW2 chat server, commands (`process_command`) | `client_list` (user → password, status, room, descriptor, `logged_in`), `chat_rooms` (number → owner, pin, members, history) | 8 account commands, 4 lobby commands, 5 in-room commands | every fact is kept twice (pin / history line, member list / room number, descriptor / login flag); sessions are looked up by a descriptor the kernel reuses | the copies agree; lines reach the room and nobody else; nobody acts as another user |
| HW2 chat server, loop (`main`) | `client_socket_arr`, `readfds`, the scan index | select, accept, read, close | `readfds` is used after descriptors were closed and handed out again; an exit breaks the scan off; one thread serves everyone, and waits in `send` for a client that does not read | never blocks in `accept` or `read`; slots = open descriptors; clients get served while clients read |
| HW2 filter (`filter_message`) | the string being edited, position, current word | find and replace | overlaps of a word with itself, of words with one another, stars of earlier passes | nothing forbidden left, nothing else touched |
| Lab6 file transfer (server, client) | per file: packets stored, saved, window; datagrams and acknowledgements in flight | receive, time out, acknowledge, save, finish; send, resend | lost, duplicated, late datagrams, damaged packets; stale acknowledgements; timeouts | files on disk complete; nothing is skipped that is missing; FINISH means all |
| Lab8 tunnel VPN | `client_addr`, `client_num`; a client's virtual address | assign, forward, tun in/out | duplicated requests, lost answers, counter that only grows | an address belongs to one client |
| HW1 web server | `client_infos`, epoll set, one thread per request | accept, handshake, respond | `realloc` of an array whose elements threads point into; a handshake in the only loop; descriptors reused by `accept` and `fopen` | a descriptor belongs to one client and is closed once; clients get answers |
| Lab7 N-queens player | `board`, `ori_board`, a frame per column | recursive search, moves, check | a call whose count is N reports success whatever the next one returned, and the count starts at 3 whatever was given; given queens and placed ones look alike on the board | the moves complete the given board, or no solution has the given queens |
| Lab3 maze client (`client4.cpp`) | `big_map`, `visited`, `path`, a frame per cell | depth-first search, moves sent in a bundle, windows read | the search's cell and the player's place on the server drift apart while moves are held back | the map is true, the exit is reached unless no way leads there |
| Lab1, Lab2, Lab4, Lab5, Lab6 ping/echo | none or a cursor | one-shot scripts, measurement loops | | |

How parts interact: inside HW2 the loop calls `process_command` for each line
read and closes the descriptor when it returns false; `process_command` calls
the history helpers and the filter; client and server share nothing but
sockets.  In Lab6 client and server exchange `Packet` and `Ack` datagrams.  In
Lab8 clients and server exchange addresses and IP packets in datagrams, and each
has a kernel on the other side of its `tun0`.  The players of Lab3 and Lab7 talk to
a server that is not in this repository, one request and one answer at a time.  In HW1 the loop hands each client
to a thread; they share `client_infos` and the descriptor table.

## Modules

| Module | Models | Extends / instantiates |
|---|---|---|
| `RoomHistory` | history and pin of one room: `add_message_to_history`, `/pin`, `/delete-pin` as operators on a room record | |
| `ChatServer` | `process_command` and the connections it is called for | `RoomHistory`; instances of `Lobby`, `RoomLogs` |
| `Lobby` | abstract: where each user is, who owns each room | |
| `RoomLogs` | abstract: each room's log with one movable pinned line | |
| `ChatLoop` | `main` of the chat server | |
| `MessageFilter` | `filter_message` | |
| `FileTransfer` | server and client of Lab6 and the network between them | instance of `Transfer` |
| `Transfer` | abstract: files arrive whole and once, the sender stops last | |
| `TunVpn` | server and clients of Lab8, their kernels, the network | instance of `AddressPool` |
| `AddressPool` | abstract: an address is given once and held by its owner | |
| `WebServer` | loop, threads and clients of HW1 | |
| `Queens` | the player of Lab7 | |
| `Maze` | the depth-first player of Lab3 and the maze server as it answers it | |
| `ChatServerProofs`, `ChatLoopProofs`, `MessageFilterProofs`, `FileTransferProofs`, `TunVpnProofs`, `WebServerProofs`, `QueensProofs`, `MazeProofs` | theorems | the modules they are about, `TLAPS` |
| `MCChatServer`, `MCChatLoop`, `MCMessageFilter`, `MCFileTransfer`, `MCTunVpn`, `MCWebServer`, `MCQueens`, `MCMaze` | small instances for TLC | |

### HW2: `ChatServer` and `RoomHistory`

The server is one thread, so one action is one call of `process_command`, one
accepted connection, or one end of file.  `client_list` and `chat_rooms` are the
maps of the code, with its field names.  `open` is the set of descriptors the
process holds; `accept` returns the lowest free one, as POSIX prescribes, which
is what makes descriptor reuse happen.  `sent` records the `send` calls of the
last step (who, from which statement, what), so that "who is told" can be
stated.  `who` is a history variable: the user that each *connection* logged in
as.  `running` becomes FALSE where the code dies (`substr(5)` on "/pin", a blank
line, `accept` failing).

* `InRoom` / `AtPrompt` are the test at line 100 that decides whether a line is
  an in-room command or a default one.  A command that is refused (usage line,
  invalid number, unknown command, a pin that is too long) is `Refuse`.
* `LoggedInRead` is the dereference of `client_list.end()` at line 200: without
  a session the value is any member of the constant `EndReads`.
* A line is a record (kind, author, text); `MaskText` and `MaskName` are what the
  filter makes of texts and names.  Note that the code filters a pinned line
  *with* its author's name and a chat line without, hence two functions.
* Prompts, wording, and the contents of listings are left out.

`SetPin`, `AddMessage`, `ClearPin` keep the order of the code: the old pin's line
is erased, the new pin stored, and only then is the line added, which may push
out the oldest line and compare it with the *new* pin.

### HW2: `ChatLoop`

One action per step of the loop: `Select` fills `readfds`; `Accept` takes one
connection into the first free slot; the scan skips a slot, reads a line, handles
an exit, an end of file or an error.  Clients connect, send, close and reset
between any two steps, so that `readfds` is stale in every way the kernel
allows.  `read` may return several queued lines as one command, in which case an
"exit" among them is not an exit; `input` tells apart nothing, that one line, and
anything else, of which a read of limited length may leave a part.

`ReadLine` and `ReadExit` enter `process_command`, and `sending` is whom its
command still has to send to: any of the open connections, as rooms are not part of
this module, or for "exit" the own one.  The sockets block.  `full` are the
connections whose buffer has no room because the client does not read; `Send` to
one of them is not enabled, and with it the thread stands still.  A reset frees a
send that waits; the first send after it fails without notice, another one
raises `SIGPIPE` (`SendDies`).  `NextSlot` and `Hangup` are the two returns of
`process_command`.  The welcome of line 470 goes to a connection whose buffer is
empty, so `Accept` is one step; a client that reset its connection before that
ends the process at the prompt of line 474 (`WelcomeDies`).

### HW2: `MessageFilter`

One step per replacement and one per pass, over sequences of characters;
`start_pos` counts from 1.

### Lab6: `FileTransfer`

Server variables have the names of `server.cpp`.  `expanded[f]` says whether
`stored_packet[f]` was given its size, which the code does for the first packet
of a file only; `disk[f]` is what was written to the file.  `server` is the
receive the server is in: the outer one waits for ever, the inner one after a
packet and with a timeout.  Leaving the inner loop, on a save, a late packet, a
bad checksum or a timeout, always moves the window and sends its acknowledgements
(`AcknowledgeWindow`).

* The network is two sets of datagrams.  One in flight is received at any time
  and in any order; it may also be lost and received again.  A packet may be
  damaged.  An acknowledgement, which has no checksum (`header.hpp:34`), never is
  in the model: the client would obey a damaged one, and what comes of that is left
  out.  Two equal datagrams in flight count as one.  `network` is a history variable that
  remembers whether anything was lost, for `Completes`.
* The loops that send all packets of a file, or all acknowledgements of a
  window, are one step: a datagram may be delayed for any time, so sending them
  one by one would add no behaviour for the receiver.
* `InitBitmaps` is what the uninitialised bitmap of `init_send` may hold.
  The file is opened by name, so its size is a constant: `TotalPackets`, at
  most `MaxPackets` (20) as the acknowledgement's bitmap demands.
* Contents, the length field and the checksum's arithmetic are left out: a
  damaged packet is one whose checksum does not match.

### Lab8: `TunVpn`

`client_addr` and `client_num` are the server's; `phase`, `virtual_ip` and
`buffer` (the destination found in it) belong to a client.  Addresses are small
numbers; `Header` stands for the first bytes of an IP packet read as an address.
A datagram of four bytes is an address, anything else an IP packet, which is
its destination.

* One round of the server's loop reads one datagram.  Every branch of that part
  but `Forward` continues the loop without looking at `tun0`; `tunReady` is the
  part of the round that is left after `Forward`.
* A client takes whatever comes first for its address (`Configure`).
* `ReceiveAnswer` is the second answer a client should never get.  The test at
  line 283 reads what an earlier packet left in the buffer; if that was this
  client's address, four bytes are written to `tun0`, which refuses them, and the
  client exits.
* A process that is started again has another socket and is another client.

### HW1: `WebServer`

`stage` follows a client through the server: queued at the port, in the
handshake, then read, answer, contents, close of its thread.  `held` is the descriptor
table; `accept` and `fopen` take the lowest free entry.  An answer of 200 comes from
a file: `OpenFile` opens it and writes the header, `WriteContents` the rest, which
lasts as long as the client likes, and closes it.  Without a descriptor `fopen` returns
NULL and `fseek` ends the process (`OpenFails`).  A buffer that was not filled, since
the client left, is taken for any request of the constant `Garbage`.  `stale` are the threads whose
pointer into `client_infos` dates from before a `realloc` that moved it; what
they do then is undefined, and the model lets them go on unharmed or ends
(`running = "undefined"`).  A write to a client that has left may end the process
with SIGPIPE (`"died"`).  Requests are kinds, and `Status` is what the handlers
answer to each.  A directory with a slash and an index page is answered 200 with
an empty body, since the directory itself is opened; the two handlers differ in
what they make of a slash after a file's name.

### Lab7: `Queens`

A board is the set of its queens' squares.  The recursion is spelled out: `row`,
`cnt` and `call` hold, for each column's call, its loop variable, its count and
whether it called the next column for a given queen or for one it placed.
`Given`, `Place` and `Skip` are one iteration of the loop, `Exhausted` the return
of 0, `Resume` what the caller does with it, which is to return 1 all the same
when its count is N.  Returning 1 through all frames is one step, as every
caller only passes it on.  `SendMove` goes through the board row by row and
sends the queens that are not in `ori_board`; `SendCheck` is sent in any case.

`solveNQ` starts the count at 3 whatever board it was given, and trusts that the
board has no two queens that attack each other.  `QueensAssumption` says so of the
server, which is external: at least three queens, none attacking another.  With
fewer, a count of N would come before the board is complete; with at least three
it comes on a complete board only, and the test for it never matters.

### Lab3: `Maze`

`calls` is the stack of `run_maze`, `path` the moves held back, `position` where the
player stands on the server.  `Ask` sends the moves (`send_receive`), reads the window and copies
it onto `big_map`; `Pass`, `Enter`, `Escape` and `Backtrack` are the rest of an
iteration and the end of a call.  The server (`Walk`, `Window`, `Content`) is
external: it moves the player, a move into a wall being no move, and answers with
the window around it.  `Places` lists the places a line of moves leads to one after
the other, as a recursive function, so that it can be proved about.  The map is as large as the maze; in the code it has
300 × 300 cells and the start is in the middle.

## Runs

All runs say `CHECK_DEADLOCK FALSE`: the chat server may die, the loop may wait in
`select` for ever, the filter ends, the transfer may lose everything in flight,
clients of Lab8 and HW1 may have nothing left to do, the players of Lab7 and Lab3 end.

| Run | Instance | Question |
|---|---|---|
| `chat_exit` | 2 users, 2 texts masking to one, history 3, 1 room, 2 descriptors, no abrupt closes, any value behind the map | do pin and history line stay together, does a line reach exactly the room, does the room follow `RoomLogs`; does a session stay on the connection that logged in; are others in a room told of every entrance and departure |
| `chat_drop` | 2 users, 2 rooms, 2 descriptors, abrupt closes | do member lists and room numbers, sessions and descriptors agree; does the server implement `Lobby` |
| `chat_stale_session` | 1 user, 2 descriptors | violated: an accepted connection inherits the session of a connection that was dropped |
| `loop` | 2 slots, 3 descriptors, clients that stop reading, resets | do slots hold open descriptors, does the thread never block in `accept` or `read`, how many connections go unwatched, is everybody accepted and served while clients read |
| `filter` | all messages up to 6 of 3 characters, 3 overlapping words | is nothing forbidden left and nothing else masked |
| `transfer` | 3 files of 2, 2, 1 packets, window 2, 2 initial sends, any initial bitmap, faulty network | are files on disk complete and final, are acknowledgements honest, does FINISH mean all, does the pair implement `Transfer`; does the client end if nothing is lost and damage and repetition stop |
| `transfer_init_ack` | the same with an empty initial bitmap | violated: there is no initial acknowledgement |
| `vpn_safety` | 2 clients, 3 assignments, the third is the server's address, faulty network, 1 packet in flight each way | does what is forwarded reach the holder, is the server's address kept, does it implement `AddressPool` |
| `vpn_fair` | 2 clients, 2 assignments, no faults, 2 packets in flight | do clients come up with a real address and survive, is the server's `tun0` served |
| `web` | 1 client of HTTP, 2 of HTTPS, all may leave at any time, 3 descriptors, room for 2, pages | are descriptors owned by one client or its file, is behaviour defined until the array grows, is HTTP answered once accepted, or when handshakes end |
| `queens` | board of 6 × 6, every peaceful board with 3 or 4 given queens | is what the search says right, do the moves sent complete the board, does the program end |
| `maze` | every maze with 3 × 3 inner cells and every exit, 3 starts, window of 3 × 5 | do the moves held back lead to the search's cell, is the map true, is the answer right, does the search end |

Bounds.  A history of three lines is enough for a pin to be first, in the middle
and last, to be pushed out and to be replaced; two texts with one masked form
give the textual collisions the code compares.  Two descriptors give a second
connection that logs in over the first, and reuse with another connection alive.
`Texts = {}` in `chat_drop` removes lines and histories, which those properties do
not mention.  `loop` has fewer slots than descriptors, so connections without a
slot occur too; 2000 slots and the usual limit of 1024 descriptors are the
other way round, and `NobodyForgotten` covers both.
Three files with a window of two make the window move, pass a file saved out of
order, and be cut off at the end; a file of one packet is saved by its first
packet.  Two clients and three assignments let one client be given two
addresses, and the pool run into the server's own.  `vpn_safety` has one packet
in flight each way, as packets do not interact; `vpn_fair` has two so that
the socket need never be empty.  `web` has three
descriptors for three clients and their files, so that they are reused and run out
both for `accept` and for `fopen`, an array that is enlarged for the third client, and
`Garbage` of a page and an error.  Six is the smallest size above four on which boards with and
without a completion both abound (four of the six-queen boards are solutions),
and with three given queens the count comes to N before the last column
was visited, when it is a given one; with four it stays behind the queens there are.  The window of `maze` is
smaller than the maze in one direction, so that the map is put together from
several windows, with and without moves held back between them; walls enclose
regions without the exit, so giving up occurs.

The runs other than `loop` do not check `TypeOK`: it is a theorem for the modules
with proofs, and `Maze`'s values are pinned down by `InStep` and `MapTrue`.

Fairness.  `ChatLoop` has `WF_vars(Loop)`: the thread runs when it can, which it
cannot while it waits in `send`.  One client that stops reading can therefore
keep everybody from being accepted and read for ever, and both liveness
properties have the premise `ClientsRead`, that no client leaves its buffer full for ever;
without it TLC finds the thread waiting.  `ConnectionsServed` needs the further
premise that from some time on nobody exits, since every exit breaks the scan
off and slots behind it may starve; `ClientsAccepted` holds without that one.

`FileTransfer`: a datagram that stays in flight is received, because both
programs come back to `recvfrom` and a socket hands out datagrams in their
order.  The inner timeout is only granted when nothing is on its way, since a
steady stream of packets may keep the server from it.

`TunVpn`: the server takes what is at its socket, and a request is not passed over
for ever.  Its `tun0` is served for certain only when nothing is on its way to the
socket or the round has come to it; `TunServed` therefore has the premise that from
some time on only packets to forward arrive.  Without the premise TLC finds two
clients that send to the server's own address in turn, each datagram ending the
round.

`Completes` is stated on the faulty network: it asks that from some time on no
datagram is damaged or delivered while a copy of it stays behind, and then
promises that the client ends unless something was lost, or its uninitialised
bitmap kept it from sending anything.  It fails without any of the three.

`WebServer`: loop and threads run, and a port hands out its oldest client.
Clients owe nothing: writing contents (`WriteContents`) is not fair, as the client
may not read; a header fits into the buffer of a connection.  For a client at the
port `HttpAnswered` has the premise that the loop is not for ever in a handshake,
and that the client does not wait there while no descriptor is ever free; it fails
without them.  A client that was accepted is answered without any premise.

`Queens` and `Maze`: `WF_vars(Next)`, the program runs and the server answers each
request, for which the client waits in `recv`.

## What the violated runs show

* `SessionNeedsLogin` (`chat_stale_session`): lines 491–494 close the descriptor
  and free the slot but leave `client_list[u].sd`.  The next connection gets the
  same descriptor and `find_if` at line 97 finds `u`.  `test.py:44` expects
  "Please login first." of a connection on which nobody is logged in.
* `InitAckSent` (`transfer_init_ack`): `header.hpp:31` says how often the server
  will send the initial acknowledgement; it sends none, and its outer receive
  only waits again after a timeout (`server.cpp:101-104`).  When the client's
  first packets are lost, both wait for ever.

Divergences seen while reading, without a run: "close-chat-room" sends its
answer at line 376 and again at line 387 (the model sends both), where
`test.py:123` expects one line; `client.cpp:71` speaks of all 1000 files where
`CLI_INIT_SEND` is 150; and `header.hpp:68` calls CRC-CCITT what is computed with
the polynomial of CRC-16/MODBUS.

## Proofs

`ChatServerProofs` proves, for every set of users, texts, rooms, descriptors and
every history bound, from `HistoryAssumption` and `ServerAssumption` and nothing
else, every safety property of the chat server.

* The invariants: `TypeCorrectness`, `RoomConsistency`, `SessionConsistency`,
  `SessionSettlement`, `PinConsistency`.  None of them is inductive alone: that a
  member list equals the set of users with that room number needs that a user
  without a connection is in no room (`SessionsSettled`), which needs that no two
  users share a descriptor (`SessionsDistinct`), since `find_if` takes the first;
  that in turn needs `logged_in` to be set for every bound user, because "login"
  tests only that flag.  `Inv` is the conjunction of them with the type
  invariant, proved action by action.  Lemmas about histories say how
  `RemoveFirst`, `AddMessage`, `SetPin` and `ClearPin` act on the set of pinned lines.
* `Isolation`, under the hypothesis `~Abrupt`, without which `chat_stale_session`
  refutes it.
* Who is told: `MembersAreTold` (the action property `RoomIsTold`) and `Delivery`
  (`DeliveredToRoom`).  Both follow from `Inv` by `StepKinds`: a step is one of six
  room commands, or quiet: it leaves rooms, room numbers and members alone and
  sends no line.  `Delivery` rests on `RoomsConsistent`, since the code
  sends to the members and the property speaks of room numbers, and on there being
  finitely many accounts, as the calls of `send` are counted (`FiniteAccounts`).
  One call per user is one per connection by `SessionConsistency`.
* The refinements: `ImplementsLobby`, whose mapping reads the room number of a
  user and the owner of a room, and `ImplementsLogs`, whose mapping is the history
  alone.  That the code's second copy, `pin_message`, finds the right line is
  `PinIsLine`; `RemoveFirst` erases the first line equal to the pin, `RoomLogs` its
  one pinned line, and the two agree because there is no other pinned line.

`ChatLoopProofs` proves the safety properties of the loop for any number of slots
and any finite set of descriptors (`LoopAssumption`; a process has a limit of
open files).  `NeverBlocks` is not inductive: a connection accepted into a slot could
have its number in a `readfds` that is stale.  `Stale` excludes that: until the
scan begins `readfds` names watched descriptors only, these are open by
`SlotsOpen`, and `accept` returns one that was not.  `Serving` says that the slot a
command came from stays taken while the command sends.  `ForgottenBounded` counts: the
slots are full when a connection is forgotten, and hold different descriptors.

`MessageFilterProofs` proves both properties of the filter for every sequence of
forbidden words without stars.  The invariant says that behind `start_pos` the
current word does not occur, that words already passed do not occur at all (a
star never completes a word), and that every changed character lay in an
occurrence of a word of the *original* message.

`FileTransferProofs` proves the safety properties of the transfer, the action
property `StoredForGood` and the refinement of `Transfer`, for any files of at most 20
packets, any window and any faulty network.  The invariant gives the life of a
file's vector (empty, full length, empty for good: `FileState`), the window
(everything before `start_file` is saved, `WindowInv`), what FINISH means
(`FinishInv`), and that acknowledgements in flight claim no more than is stored
(`AcksHonest`), which survives later packets because storage only grows.

`TunVpnProofs` proves the safety properties of the tunnel and the refinement of
`AddressPool`.  `RoutesToHolder` is inductive with `TrafficInv`: whatever is on
its way to a client names an address given to that client.  The table only
grows, so nothing in flight can become wrong.  Without faults, `OrderlyInv` says
that a request becomes one entry and one answer, and the answer an address: a
client has one of the three at a time.  From it follow `ClientsSurvive` and
`ClientsAddressed`.

`WebServerProofs` proves `DescriptorsOwned`, files included, and
`DefinedWhileSmall`; the descriptor table and the stages of clients determine each
other, so the invariant is inductive once a client that has not connected is known to be
nowhere in the server.

`QueensProofs` proves, for every size of the board and every premise with at
least three peaceful queens, that what the search says is right (`SearchRight`)
and that the moves sent complete the board (`CheckedBoard`).  The invariant has
three parts.  `BoardInv`: the board is the given queens and one for each waiting
call, and each call knows which of the two its own is, so that taking a queen
back restores the board.  `CountInv`: a call's count is three and the number of
queens placed so far; since given queens are at least three and in columns of
their own, a count of N means that every column is taken (`CountFull`), whatever
the calls below returned.  `TriedInv`: no solution follows the path of rows
to a column and has a smaller row there, which at the first column's last row
leaves none.

`MazeProofs` proves `InStep`, `MapTrue` and `AnswerRight` for mazes and windows of any
size whose walls enclose them (`MazeAssumption`).  `InStep` rests on `WalkAppend`:
one more move leads one cell further.  `Walk` is recursive, and a general
induction is out of the prover's reach; the lemmas about it (`PlacesExist`,
`WalkAppend`, `WalkStays`) each assume a counterexample and take the least, which
exists because `<` is well-founded on the naturals.  The invariant `IInv` adds
what is known of the stack: a call was made for the cell beside the call below it,
in the direction that one is at, so that the opposite move leads back
(`Linked`); the directions before a call's `i` lead to walls or visited cells
(`TriedBelow`); a visited cell is on the stack or has no way to an unvisited one
(`Covered`), which with an empty stack makes the visited cells a region without a
way out; and the window asked for shows the cell it was asked for (`Shown`), or
the search could enter a cell it knows nothing of.  `GivesUpRightly` says in terms of
moves what `AnswerRight` says of a region: when the player gives up, no sequence of
moves leads from the start to the exit.  TLC agreed with `IInv` on the mazes of
run `maze` before it was proved.

Each of these modules but `MazeProofs`, whose invariant contains the types, also
proves its `TypeOK`.

Only model-checked are the liveness properties: `ClientsAccepted`,
`ConnectionsServed`, `Completes`, `ClientsComeUp`, `TunServed`, `HttpAnswered`,
`Finishes` and `Ends`.  Liveness under fairness is outside what the prover does.
`SessionNeedsLogin` and `InitAckSent` are false of the code; TLC's counterexamples
show it.

## Not modelled

In HW2, descriptors beyond `FD_SETSIZE`, partial lines, memory exhaustion; that a
`send` may wait or raise `SIGPIPE` is in `ChatLoop` and not in `ChatServer`, where
each command comes to its end.  In Lab6, errors of system calls, damage to
acknowledgements or to a packet's length field, which no checksum covers (a damaged
acknowledgement is obeyed, and a packet with another length is stored with it), files
of more than 20 packets.  In Lab8, setting up the device, errors of system calls, a
server that is started again and forgets its table.  In HW1, paths and
their decoding, contents, memory of the SSL library.  In Lab7, the reading of the
answers.  In Lab3, an answer of which `recv` returns a part only, which leaves the
rows of an earlier window in place, mazes that leave the 300 × 300 map, and
`client_1_2.py` and `client3.py`, scripts for the earlier tasks.

Parts without a module: Lab1 and HW2's clients are one-shot scripts; Lab2's
unpacker is one pass over a binary file, conversion with hardly any control;
Lab4's client is one request and one answer; Lab5 and Lab6's ping and echo are
measurement loops without protocol state.

## Plan

1. Chat server core, loop, filter with their proofs (done).
2. `FileTransfer`: Lab6, with `Transfer` and its invariant as theorems (done).
3. `TunVpn`: Lab8, with `AddressPool` and proofs (done).
4. `WebServer`: HW1, the loop and its threads, with proofs (done); the two handlers'
   way from a path to a status as an operator of its own.
5. `Queens`: Lab7's search against the set of solutions, with proofs (done);
   `Maze`: Lab3 (done).
6. Proofs: the chat server's deliveries and refinements, the loop, the maze player
   (done).
7. Proofs: for the programs that end by themselves (`MessageFilter`, `Queens`, `Maze`)
   that every step makes a measure smaller, the part of `Ends` and `Finishes` that is
   not about fairness.
