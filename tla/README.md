# A verification project for the Scion tC mini computer

The repository holds the firmware of a dozen small boards in one car and the
web page that shows their data. This directory models the parts of it in which
several actors share state, checks the models with TLC and proves the most
important results with TLAPS.

## 1. The system

| Part | Source | State | Operations | Talks to |
|---|---|---|---|---|
| OBD poller | `Arduino_Due/functions.ino` "OBDII and STN1110", driven from `loop()` | `OBDMessagesToSend`, `OBDResponseCallbackIndex`, their count, `waitingForOBDResponse` | append two requests, send slot 0, take an answer | STN1110 over Serial1; the readings |
| Bus simulator | `CanBusFake` | none | read requests, print an answer | the poller |
| Link to the Pi | `functions.ino` "I2C Functions", tier one and five | readings, flag byte, pointers, transmit buffer, `DueInt`, `i2cresetCounter` | flag a change, format, copy, raise the line; interrupt `requestEvent` | the Pi (I2C master) |
| Commands of the Pi | `receiveEvent` | twenty settings, `pattern`, `newPattern` | store a setting (interrupt) | tier three and four: CAN |
| Main loop of the Due | `Arduino_Due.ino` | five tier counters, 16-bit `timeDiff` | one pass | all of the above |
| Frames to the Teensy | `SendMessageToTeensy` / `Teensy.ino` 52-82 | serial buffer | nine-byte frames with XOR check and `>` | Teensy |
| ProMicro link | `ProMicro.ino`, `Teensy.ino` 84-101 | two trigger pins, one acknowledge pin, one serial line | print, pulse, forward | Due and Bluetooth module |
| Timing frame | `Teensy.ino` 106-115 | frame number 0-9 | broadcast on CAN id 1 | HaloUno |
| HaloUno, Volume_Controller_Uno | their `.ino` | last frame | light outputs; four potentiometers | CAN |
| Web server on the Pi | `RaspPi Code/server.js`, `index.html` | last packet of each port | relay UDP to socket.io | sketches that send UDP; browser |
| Tag and grill lights | `OldStuff/tag_controller_v1`, `grill_controller_v3` | mode, key presses; blinker mode and timers | key-fob interrupt, fades; blinker pass | pins |
| Older hubs | `OldStuff/ECU_Interface_Arduino_Due2`, `ECU_Interface_Arduino_Due` | as the Due; a file on the SD card | one pass; blocking OBD calls; `CheckAndDoWebServer` | STN1110, Pi, browser |
| Ethernet library | `ECU_Interface_Arduino_Due/Ethernet` (a modified copy of the Arduino library) | state of the DHCP client, ports of the server, pointers and counts of each socket | begin/maintain, server and client calls, UDP calls, lookup of names | W5100 chip, DHCP and DNS servers |
| Leonardo, Tests, node modules | | | | not modelled |

What makes each of them correct:

* **OBD poller**: the two arrays stay in step; no index leaves them; no request
  is completed by a byte older than what fits on the line; both values keep being
  asked for.
* **Link to the Pi**: once the line is quiet the Pi has the current readings;
  a text read in the middle of a copy does not stay on the display; neither
  reading starves the other.
* **Main loop**: in the order of one pass, one request is open at a time, and a
  reading changes only by the answer to its own.
* **ProMicro link**: a message reaches the module it is for; forwarding ends;
  the boards do not stop each other.
* **Frames to the Teensy**: the reader finds the next frame after a damaged one.
* **Commands of the Pi**: the pattern chosen last reaches the CAN bus.
* **Tag and grill lights**: the mode is that of the code that was typed; the brake
  ends a show; the light goes off after its timeout.
* **CAN bus**: a listener takes the frames that are for it, each as a whole.
* **Tiers**: one runs early only by what the code adds to each pass, and late only
  by what readings, wraps and the width of a counter lose.
* **Web server on the Pi**: a page shows what the server keeps, and keeps up.
* **Ethernet library**: the chip has the address that was granted last; a lease
  is renewed before it is bound anew; calls come back; sockets are not shared by
  accident; no byte is lost, doubled or taken for another; a name gets its own
  address.
* **Web server of the old hub**: a request is answered when it is whole, with
  the file it names, and the loop goes on.

The hard behaviours are interrupts that fall into a copy, texts kept in a dead
stack frame, two boards that poll each other's pins, a serial line without
framing, counters of limited width, a chip that changes between two reads of its
registers, answers that are lost, late or meant for an earlier question.
`PROJECT.json` lists them line by line.

## 2. Modules

### `ObdQueue` - the poller and the simulator

One action per function: `MessageRecieved`, `AddMessagesToSend` (two calls of
`AsyncOBDCANmessageAddMessageToSend`), and for the send two, `SendMessage` (the
buffer is thrown away) and `Println`, for a byte may come between them and then
completes the request that is written next. The guards are those `loop()` puts in
front of the calls. The code never reads an answer (the
loop that did is commented out), it only tests that a byte is there, so the
line is modelled by numbers: request lines under way, bytes of answers under
way (`wire`) and bytes received (`available`). `Lose` drops a request or a
byte. `setup()` sends commands of its own and may leave their answers anywhere on
that way. Strings are the two requests and the blank of the initialiser. The count
is a byte, modulo 256. `lastSent` is history.

`ObdAnswers` adds a history to it: any one byte of an answer is marked and followed
to the buffer, with the number of requests written since (`age`). The properties of
the age are about every byte, because any may be the marked one.

### `RasPiLink` - the readings on their way to the Pi

`Update(k)` is `UpdateVehicleSpeed` or `UpdateTach` (the reading is a random
number in the code, any reading in the model). Tier one is `AddDataToRasPi`,
one `CopyCell` per turn of its copy loop and `RaiseDueInt`, so `RequestEvent`
can fall between any two cells. A text is a tag and, in every other cell, the
reading. Both texts are formatted into the same array on the stack of
`addDataToRasPi`, which is dead when the copy reads it: an interrupt
(`FrameOverwritten`) may put anything there. `TierFive` counts sightings of a
raised line and withdraws it above the limit.

The Pi's program is not in the repository. It is modelled by the two things the
code relies on: it may ask at any time, and it takes the tag for the kind.

`missed` is history: the kinds whose newest text was overwritten while `DueInt`
was up, withdrawn by tier five, or spoilt in the dead frame. The code does not
send such a text again until the reading changes; what it does promise is about
all the others, and the properties say so.

### `DueLoop` - one pass of `loop()`, and `Polling`

`DueLoop` instantiates the two modules on one set of variables and drives them in
the order of the code: send (and `WriteRequest`, its second half), receive, timing, tiers
one, three and five. An answer is the joint step of `MessageRecieved` and
`Update`. The counters of the tiers are counted in ticks. Tiers two and four and
the pattern in tier three, which touch nothing of the two parts, are left out, as
are the loss of bytes and the reuse of the frame, which the two parts are checked
with.

`Polling` is the abstract specification of both loops, without queues, flags,
buffers or tiers: the two values are asked for in turn, one at a time; a reading
changes only while its request is open, and its answer closes it. What is asked for
is read off the request written last, and a request is open from its `println` to
the pass that finds a byte (`waitingForOBDResponse`, but not while the loop is at
`print`). That the refill keeps the turns, that both arrays shift together, that
nothing is sent while a request is open, that an answer is looked for only behind
the `println`, and that nothing else in a pass changes a reading, is what the loops
have to get right for it.

### `ProMicroLink` - two boards and three pins

`SendMessageToTeensy` line by line on one side, the two forwarding blocks of the
Teensy on the other; every pin is read and written in a step of its own. A byte
is represented by the module it is meant for. `forwarded` and `underAck` are
history.

### `PatternRelay` - from a command of the Pi to the CAN bus

`ReceiveEvent` is the I2C interrupt `receiveEvent`: one action stores a setting,
one the pattern, which is compared before it is cut to a byte. A text is what
`String` sees in it (its number, whether it is the word `true`). Tier three is
four steps - load, test, send, clear - because the interrupt may fall between
any two of them: it can set `newPattern` again before it is cleared, or take it
back by repeating the pattern. Tier four sends what was loaded last.
`sendMsgBuf` may refuse a frame, which nobody notices. The timers are replaced
by a count: between two tier fours there are at most `MaxThrees` tier threes
(six in the code, at 100 and 500 ms). `handed` is history.

### `TeensyFrames` - frames on a line without escapes

`SendByte` is one of the nine writes of `SendMessageToTeensy` and what becomes
of the byte: received, or dropped at a full buffer. Any byte but the first may be a
`>` or a NUL. The reader is `Poll` (more than `FrameLen - 1` bytes are there),
`ReadByte` and `Check`; bytes go on arriving between them. Of the `String` only
what is looked at is kept: its length, its first two characters and whether it
has a NUL. The exclusive or is not computed. A text that is a frame as it was
sent passes; of any other, including those behind whose end the code compares
bytes of `s[]` it never wrote, either outcome is possible. `place`, `lastByte`
and `gap` are history: where a byte stands in its segment (a run of bytes up to
a `>`), or that the segment was damaged.

### `TierTimers` - the arithmetic of the tiers

One action is a pass: the clock goes on, `timeDiff` is computed with its two
branches and cut to its width, and every counter is compared and started again.
The Due cuts to 16 bits and reads the clock twice, the Teensy does neither; both
are instances. `since`, `passes`, `wraps` and `cut` are history: the real time
since a tier ran, how many passes and wraps of the clock there were in it, and what
was lost of passes too long for the width. The code adds `Extra` to each pass, so a
tier is early by as much per pass; it adds it to be no later than the time between
its two readings of the clock makes it.

### `CanBus` - timing frames, halo lights and volume

`SendTiming` is tier one of the Teensy, `MasterSends` any frame the table at the
end of `Arduino_Due.ino` lists, `HaloLoop` and `VolumeLoop` one pass of a
listener: it reads one frame and acts on it. The MCP2515 has two receive buffers
with the masks and filters the sketches set; a frame for the first goes to the
second when the first is full, and is lost when both are. A station hears what
is sent at its own bit rate. Payloads are sequences in which every kind of frame
has bytes of its own, so that a mixture shows.

### `TagController`, `GrillController`

`TagController` is the loop step by step, with the interrupt of the key fob
between any two of them, any number of times; time passes where the loop waits.
Nothing in the code asks whether `buttonPress` has room for a press. What the
program does behind the end of an array is not said by its text, so the model ends
there (`overrun`), and the properties are about what comes before. `GrillController` is
one pass of `loop()` per action, with all times kept as differences to the
present and cut to their widths.

### `PiServer` - from a datagram to a page

`Relay` is the handler of a port in `server.js`: it keeps the text and emits it.
`Connect` and `Handle` are the script of the page, which adds its handlers on
every connect and never takes one off. Datagrams are lost and overtake each
other; messages of socket.io stay in order while a connection lasts. Of what a
page shows, the one element that is put together from digits is modelled.

### `OldHub`, `OldObd`, `WebRequest` - the hubs before

`OldHub` is `loop()` of the second version over the same `ObdQueue` and
`RasPiLink`: one tier gives a reading to the Pi first and serves the queue after
it, and nothing withdraws a text. It implements `Polling` too. `OldObd` is the
blocking `OBDCANmessage` of the first version and the readings made from it;
pieces of an answer (head, value, prompt) arrive while it reads. `setup()` sends
its commands one millisecond apart, or returns early, and may leave any number of
answers behind (`left`). The sketch calls `STN1110Setup()`; its calls of the
readings are commented out (`ECU_Interface_Arduino_Due.ino:48-52`), so what is
modelled is the file as a library, called as they would. `WebRequest` is
`CheckAndDoWebServer`, one action per character: the search for the length, the
test whether the request is whole, the timeout, and the answer from the first line
of the file. `WellFormed` says what a request is: its first line has method and
name, a GET ends with its first blank line, and what the search takes for the
length of a POST is not more than there is (with more, the server waits for the
timeout). It looks for `C` and `L` wherever they stand, so that a header before
`Content-Length:` may be taken for it; then the length it finds is that of another
text, and the claim that the answer comes with the last character is only for
requests where it is the right one (`length = "last"`).

### The Ethernet library

* `DhcpLease`: `request_DHCP_lease` and `checkLease` of `Dhcp.cpp`, `begin` and
  `maintain` of `Ethernet.cpp`. A step is a send, a look for a packet or a wait,
  with the test of the timeout behind it. Servers answer, reply no, or are silent;
  answers are lost, late or of an earlier round. The times of an answer are unsigned,
  the counters that run down are signed: `Signed` is what becomes of one in the other.
  A lease without end has a T2 that is negative, and is bound anew at each check.
* `EthernetSockets`: who owns which socket. The chip connects, closes and resets
  on its own; the library looks at one socket after the other and keeps the table
  of ports. A handle is only a number. A `connect()` with an address or a port the
  library refuses (`ConnectNowhere`) gives its handle back and leaves the socket
  opened.
* `ClientReceive`: one connection, with the two reads (`recv`, `connected`) that
  the chip can fall between, and `stop()` with its wait.
* `SizeRegister`: the loop that reads a 16-bit size byte by byte until two
  readings agree, while the chip counts it up.
* `SendBuffer`, `UdpReceive`: the two rings, with their pointers of sixteen bits,
  every byte at its place.
* `InetAton`, `DnsRequest`, `DnsResponse`: a dotted address, a question and an
  answer, character by character or byte by byte, over all inputs up to a bound.
  `DnsClient`: the lookup around them, with its three waits, numbers and ports.

### Parts side by side

`BoardLines` (frames, ProMicro, relay, CAN bus), `BoardClocks` (tiers, grill, tag),
`NetworkChip` (both rings, sockets, one connection, size registers), `NetworkNames`
(DHCP, lookups) and `Conversions` (dotted addresses, questions, answers) declare
the variables of several parts, instantiate them and name their properties. They
model nothing of their own. `OldObd` and `PiServer` stand beside other parts
without such a module: their specifications have names of their own (`OldSpec`,
`ServerSpec`). An MC module extends such modules to check the properties and a
proof module extends them to prove them, so what is checked and what is proved is
one definition.

### Faulty variants

Definitions with a suffix (`MessageRecieved_OneShift`, ...) precede the operation
they vary. They are not part of any specification; each is a mistake that one of
the properties must detect, and `PROJECT.json` says which.

## 3. Runs

A run often looks at more than one component. Its MC module then extends the
module that has them side by side; a variable `part` is chosen at the start
and says which of them the behaviour is about, and the variables of the others
stand still. So one run is the sum of its parts, each with its own
specification, its own fairness and its own properties, and nothing is
interleaved that has nothing to do with each other. What does interact is
composed by the components themselves (`DueLoop`, `OldHub`).

| Run | Parts | Shows | Bounds |
|---|---|---|---|
| `obd` | the queue on a line that loses bytes, on one that does not, each with or without answers left by `setup()`; the first hub, the same | queue and parsers stay in step, the count in bounds; the byte taken for an answer was printed at most `TxCap` + 1 requests ago; both values are polled for ever; readings belong to their requests, or are behind them by the answers `setup()` left and no further | the code's 5 slots and threshold 3; answers of 2-3 bytes, buffers of 2 and 4; up to two answers left and three calls of the first hub |
| `pi` | the I2C link with frames overwritten, with frames kept; the UDP server with two ports and one page, with one port and two pages | a quiet link has delivered everything not missed; the buffer is current; a mixture of two texts does not stay; a page shows what the server keeps and does not stay empty | 3 readings, 3 cells, reset limit 2; numbers of one and two digits, 2 datagrams and 2 messages under way |
| `due_loop` | the loop of the Due, the loop of the hub before | the loops implement `Polling`; the counters stay within a pass of their tiers; an answer changes the right reading; neither flag starves; every reading arrives or is missed | 4 slots, threshold 2, 2 readings, 2 cells, tier one every 2 ticks, tiers three and five every 4 |
| `promicro` | the two boards | the acknowledge pin throttles the ProMicro; forwarding ends; only a circular wait stops both | messages of 1 and 2 bytes, line and buffer of 3 |
| `pattern` | the relay, the halo lights, the volume controller | two frames in a row with one identifier agree; the bus settles on the pattern of the Pi; what a listener shows is one frame that was for it | byte of 2 values and numbers up to 3, 4 identifiers, 3 tier threes per tier four; one identifier of each kind |
| `frames` | the line and its reader | frames are found again after damage; a clean frame that arrived is taken over | frames of 4 bytes, buffer of 5, 3 byte values |
| `tiers` | the tiers, with passes that fit the width and passes that overflow it; the tag; the grill | a tier runs early by less than `Extra` per pass, and late only by what the readings and wraps of the clock and the overflows cost it; the brake ends a show, codes choose their mode; the light goes off, starts and scrolls as it should | clock of 64, differences of 16, passes of 2 to 37, four presses in `buttonPress`, see `MCTierTimers` |
| `chip` | size register; sockets (with `connect()`, with the server alone); transmit ring; datagrams; one connection; web server | a size other than zero was true, and a connection that the other side closed is said to be over only when nothing is left to read; no socket is shared by accident, and no connect(), begin() or accept() takes one in use; the rings hold what was written; a request is answered when it is whole, with its file; connect(), stop(), accept(), flush() and the reading of a request come back | bytes of 3 values, 3 sockets, rings of 4-5 cells, see `MCSizeRegister` |
| `names` | DHCP with servers that answer as they like, with offers of two servers under way, with servers that answer at once; dotted addresses; questions; answers; lookups | the chip has the address acknowledged last, and a lease is renewed before it is bound anew, where its T2 fits a signed number; what is read is what was written; a name gets its own address; every call comes back from the well-formed answers there are, and a lease is got again and again | 2 servers, leases of 0, 4 and 15 of 16 seconds (15 is the one without end), time for a question, an answer and a wait; all strings up to 8 characters, all names up to 5, some ten thousand answers; 2 names, 3 numbers, 2 ports |
| `promicro_meant` | | *violated*: a message goes to the wrong module | as `promicro` |
| `client_eof` | one connection | *violated*: end of file with bytes left to read | as `chip` |
| `dhcp_retry` | DHCP | *violated*: a renewal or rebinding that failed is not tried again | 1 server, 1 lease time |

Why the bounds are enough. The queue has its real size. Buffers of two or three
bytes are already full, empty and partly filled; an answer of two bytes can be
split by a send. Three cells are the least for which a mixture can differ from
both of its texts; three readings let the Pi be two changes behind. In
`due_loop` tier one gets two turns per refill of two requests, the smallest
number that leaves it room (the code has twenty-five). A ring of four
identifiers is just longer than the three tier threes that may pass without a
frame. A frame of four bytes has an id, a byte and a check that may end it early,
and a buffer one byte larger overflows in the middle of a frame. Three sockets
are one in use, one that listens and one that changes hands. Rings of four and
five cells are met by writes and datagrams that wrap at every place, and their
pointers wrap at another size, as in the chip. Two lookups of two names are
enough for an answer to be late, three for its number to come again.

Runs that allow deadlock do so because the system may stop: a lost answer stops
the poller for ever (there is no timeout), the two boards can stop each other,
the three calls of the first hub end, a conversion is over when its text is, and
a socket the chip has nothing more to say of stays as it is.

Fairness. `loop()` never ends, so its steps are weakly fair; the same holds for
the simulator, the boards, the library calls once begun, and the bytes on a wire.
Nothing is assumed of how readings change. Of the Pi it is assumed that, if it
finds `DueInt` up again and again, it asks at some time when no copy is going on
(strong fairness): a copy takes microseconds of the four milliseconds between two
of them; of the Pi of the hub before not even that. Of the CAN controller it is
assumed that it does not refuse every frame of tier four. Of the network between
sketch and server on the Pi it is assumed that not every datagram is lost (the
sketch sends ten in a second), of a peer of the chip that it answers or refuses a
connection in the end and, where the server is to listen again, that it hangs up.
DHCP, datagrams and lookups assume nothing of the other side: timeouts make the
calls come back. Only `LeaseObtained` has servers that answer at once.

## 4. Proofs

Every theorem is about all values of the constants that satisfy the assumption its
module names, and the assumptions are what the code's own constants satisfy (TLC
evaluates them for the values of the runs). Each follows from an inductive
invariant by one lemma per action; for each it is said here why the property
alone is not inductive.

`ObdQueueProofs`, for all array lengths up to 255, thresholds that fit them and
buffer sizes: type correctness, `QueueBounds`, `CallbackMatchesRequest`,
`RequestsAlternate`, `AnswersAreRecent`. None is inductive. Refills append the pair
speed, tach and answers remove slot 0, so counted **from the end** the queue is
always ..., speed, tach, speed, tach: `QueueInPairs` says so of both arrays,
`OnTheLine` ties the request under way to slot 0 and the one before to the
parity of the count. For the age of a byte the invariant is `AgeInv`: its place on
the wire and its age together are bounded by the capacity of the line, because a
request is completed only when a byte before it has come, and the buffer is empty
again before the next is written. What may be open or in the buffer besides
(`Ahead`) makes the bound one or two larger.

`RasPiLinkProofs`, for all readings, buffer lengths, limits, with and without
frame reuse: type correctness, `QuietMeansDelivered`, `BufferIsCurrent`. The
invariant has three parts. `CopySoFar`: the cells copied are those of the text
being sent, or everything counts as missed. `BufferKept`: outside a copy the
text in the buffer is the reading of its kind, if that is settled (not flagged,
not missed). `ViewKept`: the Pi shows a settled reading, or the line is up over
it. A request inside a copy does no harm because the tag is copied first: the
mixture can only be taken for the kind being sent, which is still flagged.

`DueLoopProofs`, three subjects.

* `loop()`, for all ticks. Every step is a step of the poller and of the link or
  leaves them alone (lemmas `KeepsToObdQueue` and `KeepsToRasPiLink`); that is how
  the loop is written down and no result. It carries the parts' invariants over.
  Its type invariant is proved: a counter is over its tier by one pass at most,
  and only between the timing and that tier. `PartsAssumption` states what the two
  parts assume of the shared constants. With it `ObdQueueProofs` and
  `RasPiLinkProofs` are instantiated on the loop's state, and `Spec` keeps
  `QueueBounds`, `CallbackMatchesRequest` and `QuietMeansDelivered`.
  `LoopImplementsPolling` is the refinement: a `println` maps to `Ask`, which
  needs `OnTheLine` and `QueueInPairs` of the queue for it to be the other value's
  turn; an answer maps to `Answer`, which needs that the parser in slot 0 is that
  of the request on the line (`PollInv`); every other step stutters.
  `AnswerChangesItsReading` needs both parts: only the receiving step changes a
  reading, it changes the one of the parser at the head of the queue, and that is
  the parser of the request on the line.
* `loop()` of the version before (`OldHub`), for all ticks: the same. With the two
  variables it lacks left as they were (`HubBefore`) it implements `Polling` and
  keeps `TypeOK` and `AnswerChangesItsReading`. That an answer waits for the next
  round before it is sent, and that nothing withdraws a text, changes nothing of
  them; only the counter of tier three is over its tier for longer, because the
  queue is served before it is compared.
* the blocking calls of the first hub, for all values and numbers of calls:
  `ReadingsInStep`. `Stream` is everything that has come and was not used, in
  order, from the call to the wire; bytes that move on do not change it. `InOrder`
  says that the numbers of its pieces never fall and that they rise behind a
  prompt. So a call that ends with a prompt leaves only pieces of later requests,
  and the next is no further behind: nothing is older than the present request by
  more than the answers `setup()` left (`LastOrOwn`). `OneAtATime` says what the
  stream is when it left none.

`TeensyFramesProofs`, four subjects.

* Frames and buffers of any length: type correctness and `SegmentReadWhole`.
  `RestIsThere` is the heart: while the reader is in an undamaged segment, what it
  has read and what is waiting make at least a frame, because it did not start
  with less; so it cannot run out before the `>`. `Aligned` follows from it (the
  next text starts where a segment starts) and keeps it true; `Chained` and
  `WithinFrame` tie the places of the bytes together.
* Messages of any length and buffers of any size: type correctness and
  `AckHoldsProMicro`. If a message was printed while the acknowledge pin was up,
  it is the last one, and the ProMicro stands before or in its wait, which that
  pin holds it in. And `StopsOnlyInCircularWait`: a line that has run empty takes
  any message, so a ProMicro that is held is held by the pin; the pin is up only
  while the Teensy waits for a trigger to fall or forwards (`AckWhileForwarding`),
  and a Teensy that forwards goes on; so each board waits for the pin of the other.
  The property says what a held board stands at; that a stopped system is held in
  this sense (`StoppedIsHeld`) is about `ENABLED`.
* Every ring of identifiers longer than the tier threes between two tier fours:
  type correctness and `SameIdSamePattern`. `FrameAndBuffer` says that the
  identifier has moved on from that of the last frame by no more than the number
  of tier threes since, hence not all the way round, and that `rxBuf` still holds
  what was sent if it has not moved.
* Any identifiers the master uses: `ListenersShowOneFrame`. What waits in a buffer
  of a station was sent by somebody and passes the filter of that buffer
  (`BuffersHeard`), so bytes and identifier that are read together are of one
  frame.

`TierTimersProofs`, three subjects.

* Clocks, widths, limits and passes of any size: `TiersKeepTime`. A difference is
  the length of the pass plus `Extra`, or that length less one where the clock has
  wrapped, modulo the width; the sums over a tier follow step by step
  (`NeverFarAhead` for being early, `DueIsNotEarly`; the sum of the losses for
  being late, `NotDueIsNotLate`). No assumption is made of the length of a pass:
  what the width cuts off is counted in the history and is part of the bound on
  being late.
* The grill: `GrillScrolls`, an action property, for every width of clock and
  `int` with a scroll step that is shorter than the clock (`GrillAssumption`). The
  scroll is at the cell its own time says, and a dark light is ready to start.
* The tag, for every number of presses, size of their array, time and length of
  shows: `TagShowsEnd` and `ModeFromTypedCode`, an action property. `TypedKept`
  ties what was typed to `pressCount` and `buttonPress`; `WaitsFit` bounds what is
  left of the wait the loop is in; `BrakedInShow` and `BrakedBefore` say what is
  left of a show after the brake, according to where in the loop it came. Only the
  first three presses of a code are read again, so the array may have any size
  above three (`TagAssumption`), and presses come as often as they like.

`EthernetProofs`, seven subjects.

* Sockets, for any number: `SocketsKeptApart` and the action property
  `LiveSocketKept`. With what each socket was opened for, a second handle of a
  socket in use would have been opened for two uses at once; `SeenListening` says
  what `accept()` has found out on its way, so that it never makes a second
  listener. What `LiveSocketKept` says is that `connect()`, `begin()` and
  `accept()` leave sockets in use alone; a `stop()` through a handle that is left
  over may close the socket of another, and is not excluded.
* One connection, for any number of bytes: `AnswersAreTrue`. `connected()` asks for
  the size after it has found that the other side closed the connection, and no
  byte comes after that. Of a reset nothing is said: `connected()` then says over
  with bytes unread.
* The size register, for bytes of any width: `SizeWasTrue`. The witness is the
  value of the register when the lower byte was read for the first time: equal
  readings of the upper byte before and after pin it down, as the register only
  grows. Together the two are `AnswersWereTrue`.
* DHCP, for any servers, leases and times, those that come out negative as signed
  numbers included: `LeaseIsKept`. `TimesInOrder` says which timers an answer can
  have left, `RoundIsBounded` that a round waits only while it
  listens, `AddressOfLease` that the address came with the lease and the chip has
  it when the call is over.
* Lookups, for any names, numbers and ports: `AnswerIsForThisName`. Answers of the
  server to the request made last are for its name wherever they are, on their way,
  at the socket or given to the call.
* Pages, for any ports, pages, values and numbers of handlers: `PageShowsCurrent`.
  The last message under way to a page is the datagram the server keeps, or it
  shows that one. What the handlers left by reconnections do together is defined
  by recursion on their number; the lemma `Handled` gives the function in closed
  form, and shows that it is that of one handler.
* Requests to the web server, for any that are `WellFormed` and any length that is
  kept: `RequestsAnswered`. `Parsed` says what the locals know of the characters
  read: that the line is blank so far, and how far the search is, given the places
  where the pattern begins and ends and where the length ends (`Searched`). The
  size that is compared at the end is then that of the whole request, one too
  little and one too much included. `NameIsFound` shows that any beginning of a
  request that has its first line gives the name in it, which is what makes the
  answer after a timeout right.

`SendBufferProofs`, for rings of any size and pointers that wrap at a multiple of it:
`SentAsWritten` and `ReceivedAsSent`. For sending: what is unacknowledged never goes
around the ring, and for datagrams nothing is, which leaves the whole ring to the
one begun (`PacketInRing`). For receiving: the datagrams that wait stand in a row
in the ring, header and data (`Row`, `WaitInARow`), what is left of the current one
is in front of them (`RestIsNext`) and what was given is its beginning
(`FrontIsGiven`). The facts about `%` and `\div` these need come first, as in
`TierTimersProofs`.

`ConversionsProofs`, for strings, names and messages of any length: `ReadAsWritten`.
Each of the three loops is compared with a definition by recursion on its input, so
the proof is by induction over data. The induction comes from the well-foundedness
of the numbers: a set of numbers has a least one (`Least`), so a set with 0 that has
the next of each of its numbers has them all (`Induct`); the recursive functions are
shown to exist by building them rank by rank (`Recursion`).

* Dotted addresses. `AtonInv` is about every way to cut the string into four
  numbers: the segments before this one are read, and `value` is the number of the
  digits of this one read so far.
* Questions. `QuestionInv`: what was written is the code of the parts of the name up
  to here (`Coded`, `PartsTo`), and here a part of the name has ended. A server that
  reads a coded sequence gets its parts, because every length leads to the next one.
  `DnsRequestAssumption` demands that no more than 255 codes come without a dot,
  for the length is cut to a byte.
* Answers. `ResponseInv` says where in the message the reader is (before or in the
  name of a question, before or in the name of an answer, before the record behind
  it), and that no answer before this one had an address. `Lies` says that a part
  of the message lies at a place of it, and follows the message from its whole to
  the byte that is read.

`segmentValue` is an `int` in the code and an integer in the model. In a dotted
address, which is all `AddressIsRead` is about, it never exceeds a byte; a string
of so many digits that it would leave an `int` is not one.

What is model-checked only:

* liveness under fairness (`AskingGoesOn`, `KeptMixtureHeals`, `PageComesAlive`,
  `FlagIsServed`, `DueReadingReachesPi`, `ForwardingEnds`, `RelaySettles`,
  `CleanFrameArrives`, `CallsComeBack`, and in `TagObeysCodes` that a begun code
  does not stay);
* that a stopped ProMicro or Teensy is held (`StoppedIsHeld`), which is about
  `ENABLED`; it is checked inside `ForwardingEnds`.

Every safety invariant and every action property that a passing run checks is
stated by a theorem; of `TagObeysCodes` the part that is one
(`ModeFromTypedCode`).

## 5. Findings

Runs that are expected to be violated:

* `promicro_meant`: `ProMicro.ino:52` says it waits for the Teensy; it tests the
  pin once, before the Teensy can have raised it, and goes on. So the pulse can be
  over before the Teensy looks, and the byte meant for the Bluetooth module is
  forwarded to the Due later on.
* `client_eof`: `recv` (`socket.cpp:153`) reads the size before the status; the
  last bytes and the closing can come in between, and it says end of file.
* `dhcp_retry`: a renewal or a rebinding whose time is over right after a question
  leaves a state `checkLease` starts no round from; `Ethernet.cpp:89` says it will
  retry.

Read in the code while modelling; the modules do as the code does:

* `Arduino_Due.ino:190` lists the identifiers 0x300 to 0x6FF as not used; the
  pattern is sent with 0x500 to 0x5ff.
* `Arduino_Due.ino:53-56` gives the periods of the tiers as 10 ms, 40 ms and 1 s
  where the code compares with 4, 20 and 500 ms.
* The halo lights open the CAN bus at 1000 kbit/s, the Teensy at 500; and they
  take a volume frame (0x00f) for the state of the lights.
* `Dhcp.cpp:99-105`: T1 and T2 of the lease before are kept by a renewal that does
  not carry them, and where T2 is missing it is twice T1, so the whole lease time,
  where the comment says 7/8.
* `Dhcp.cpp:107-108`, `Dhcp.h:151-152`: times from 2^31 seconds on, the lease without
  end among them, are negative as `signed long`, and the lease is bound anew at the
  next check.
* `tag_controller_v1.ino:222-240`: nothing stops a press from being written behind
  the ten entries of `buttonPress`.
* `Dns.cpp:63`: the test for characters that are no digits joins its comparisons
  with *or* and refuses none, so a name of a letter or two is taken for an address and
  never looked up; `AddressIsRead` is about addresses only.
* `Dns.cpp:255`: return codes below zero go through an unsigned word, so a lookup
  is given up after the first of three waits, and `beginPacket(host, port)`
  returns something that is not 0 for a name it could not resolve.
* `OBD_II_and_STN1110_functions.ino:59` of the first hub: 9/5 is 1, so the
  temperatures are degrees Celsius + 32.

## 6. Not modelled

* **Main loop of the Due**: the servos, the digital inputs and the prints of tiers
  two and four keep no state that is read again. **Teensy**: the reset of
  `mesForProMicro`, which nothing uses. `SendMessageToTeensy` of the ProMicro
  returns no `String` although it is declared to; what the build makes of that is
  no state of the program.
* **Older hubs**: the commands of the Pi in version 2 (those of `PatternRelay`
  without the repeated check), the empty tiers of version 1, the engine speed of
  version 1 (one call, two values) and what `sscanf` does with a `short` behind
  `%d`. No sketch of the folder calls `CheckAndDoWebServer`; it is modelled as its
  loop would run it. A length of eight characters is written past its array;
  memory behind an array is not modelled.
* **Ethernet library**: the sketch of the folder gives the board a fixed address;
  DHCP and the resolver are modelled because they are part of the copy. What
  becomes of a socket `connect()` leaves opened, and what a handle left over from
  an earlier connection may do to a socket, is modelled but no property excludes
  it. SPI and the register macros, the conversions of `IPAddress`, and servers
  that send truncated DNS messages (a loop over a name ends only with a 0) are
  left out. A datagram is no longer than the ring (`MaxDatagram`): `bufferData`
  does not count the bytes begun. `EthernetClient::write` reports the size it was
  given even when `send` cut it at the size of the ring. The `avr` copy of
  `socket.cpp` and `w5100.*` has the text of the `sam` copy, to which the map
  points.
* **CAN bus**: the library `mcp_can` and the chip are external, modelled from
  their use, with the second buffer taking what the first has no room for.
  Stations at another bit rate hear nothing.
* **Web server on the Pi**: of the page, the one element that is put together from
  digits. socket.io and the network are external.
* **Tag and grill**: the colours within a fade and the frames to the strips.
  Version 1 of the grill has the loop of version 3; version 2 does not compile.
* **Leonardo** prints what it receives; **bench tests** try hardware; the node
  modules are not the program's own.
* **Out of the prover's reach**: liveness under fairness and `ENABLED`.
