# Real-time video encryption: TLA+ verification

The program under `src/testSysC` is a SystemC simulation of two embedded
systems. The *sending system* (`bus1`) compresses video, encrypts every frame
with an AES-128 unit and sends it over a network; the *receiving system*
(`bus2`) receives, decrypts and stores it. This directory models the program
in TLA+, model-checks it with TLC and proves theorems about it with TLAPS.

All paths below are relative to `src/testSysC`.

## 1. The system

| Component | Code | State | Operations |
|---|---|---|---|
| Shared bus | `Project.cpp:29-165`, `bus_interface.h`, `Master.cpp` | `queue`, `currentReq`, `receivedResponse`, `busData`, seven shared events | arbiter loop; `MstBusRequest`, `MstReadData`, `MstWriteData`; `SlvListen`, `SlvAcknowledge`, `SlvSendReadData`, `SlvReceiveWriteData`; `Master::MasterDataTransfer` |
| Memory | `memory.cpp` | `memData` (3,000,000 words) | `MemDataTransfer`: read or write a run of words |
| Sending processor | `Project.cpp:184-245` | `frame_num`, `frameLength` | `send_packet`: connect, start the encoder, then per frame: get the length, have it encrypted, hand it to the network card |
| Receiving processor | `Project.cpp:263-297` | `mem_num` | `decrypt_packet`: per packet: get the length, have it decrypted |
| Network cards | `network_interface_card.cpp` | descriptor registers, `packet_data`, `mem_num`; the global `network_frame` is the network | `wait_for_buffer_descriptor`, `setup_tcp_connection`, `read_packet`, `send_frame`, `receive_frame` |
| Crypto units | `crypto.cpp` | command registers, `bufferInt` | `cryptography`, `aesEncrypt`, `aesDecrypt`; in the build with ECC `eccEncrypt`, `eccDecrypt`, with the global `cipherText` |
| Encoder | `encoder.cpp` | destination registers, `buffer`, `buffer_ptr`, `frame_length` | `encode`, `read_file`, `new_frame` |
| AES-128 | `aes.cpp` | `state`, `RoundKey`, `Iv` | ECB and CBC encryption and decryption |
| ECIES | `ecies.cpp`, `keys.cpp`, `secure.cpp` | OpenSSL objects, the global `eliptic` | key creation, envelope encryption and decryption |
| Software-only variant | `cpu.cpp` | as the processors, and the global `cipher` | `send_packet` and `decrypt_packet` with the encryption in them; another `sc_main`, commented out |
| SystemC kernel | external | threads, events, simulated time | `wait`, `notify`, time advance |

The components are SystemC threads, scheduled cooperatively: a thread runs
from one `wait()` to the next without being interrupted. They interact

- over the bus of their system: a master queues a request and waits for
  `master_ack`; the arbiter takes the oldest request and notifies
  `slv_request`; each of the four slaves wakes up, looks whether the address
  is in its range and acknowledges; then master and slave hand each word
  through `busData` with `mst_ready`, `data_ready` and `slv_ready`, until the
  one that takes the last word notifies `end_of_transfer`;
- by global events that stand for interrupts: `encode_done`, `encrypt_done`,
  `connection_ready`, `packet_received`, `decrypt_done`, `receive_event`;
- through blocks of the memory, whose addresses each thread derives from a
  counter or a flag of its own;
- through the global `network_frame`, and in the two programs with ECIES through
  the global `cipherText` or `cipher`, the envelope of the last frame.

### What is hard

- *Notifications are immediate and not remembered.* A thread that is not
  waiting when its event is notified misses it. Each handshake of the bus and
  each interrupt of the pipeline is right only if the other side always waits
  in time, in every order in which the scheduler may run ready threads.
- *Shared variables across suspensions.* `currentReq` is one variable for all
  masters and slaves; both sides of a transfer read it after every wait, and
  the arbiter overwrites it.
- *Deaf slaves.* The network card sets up the connection in the thread that
  listens to the bus, so for 49 µs it hears no request.
- *Deadlines.* The encoder produces a frame every 33 ms whether or not the
  others are done with the last one; how long they take depends on the length
  of the frame and on who waits for the bus.
- *Block parity.* Six threads choose memory blocks independently.
- *The global envelope.* With ECIES the receiver decrypts what the global
  points to when it comes to it, whatever was sent.
- *Error paths.* Some fifty calls in `keys.cpp` and `ecies.cpp` may fail, each
  with its own list of what to free.

### What makes each component correct

- Bus: one transfer at a time, between the master whose request is current and
  the slave it is addressed to (`OneTransfer`); every word is handed over once,
  in order (`NextWordOnBus`); a request in service is not replaced
  (`CurrentReqStable`); every request is acknowledged (`AlwaysAcknowledged`)
  and the answer reaches the master it is for (`AnswerReachesMaster`); no
  handshake is lost (`NothingStuck`); together: the bus is a first come, first
  served line of transactions (`ServesInOrder`), which keeps moving
  (`ServesAll`, `RequestsComplete`).
- Pipeline: nobody is told to start something while still at work
  (`CommandsHeard`), every stage is done when the next frame comes
  (`EncoderKeepsPace`, `EncryptionKeepsPace`, `TransmissionKeepsPace`), what is
  sent is ciphertext (`CiphertextOnly`), frames come out as they went in
  (`EveryFrameWhole`, `EveryOtherFrameWhole`, `LastFrameDelivered`).
- Reading the video: the frames are the NAL units of the file, whole and in
  order, cut behind each picture (`ReadsUnits`), none empty (`FramesNotEmpty`: the bus
  would never end a transfer of no words), to the end of the file (`VideoRead`);
  the buffer is left only for a frame that is too long for it (`InBuffer`).
- Encryption of a frame: the receiver gets back what the sender encrypted
  (`RoundTrip`), and the cipher is the standard's (`MeetsVectors`,
  `TablesStandard`, `MixesAsStandard`).
- ECIES: whichever call fails, nothing is used or freed that is not there
  (`NothingDangling`), nothing is left behind (`LocalsFreed`), and the envelope
  is written exactly (`EnvelopeFilled`).
- The programs with ECIES: a frame is decrypted from its own envelope
  (`OwnEnvelope`), and what comes out is whole (`EveryOtherFrameWhole`), also
  when an encryption or decryption fails.

## 2. The modules

```
SystemC  AddressMap       SystemC         NalScanner              Aes
     \    /                  |                |                   |
      Bus                 Pipeline         NalProps ~~ NalReader  AesCbc
       |                     |                |                   |
    BusProps            PipelineProps    MCNal   NalProofs     AesProps
       |   \                 (below)                            |
       |    MCBusRefused                                      AesInv
       |                                                      /    \
   BusService ~~ AbstractBus                              MCAes  AesProofs
       |
    BusInv                         PipelineProps              Ecies
    |    \                        /             \               |
  MCBus  BusProofs        PipelineInv         EccThreads    EciesProps
            |             /         \              |            |
        BusTheorems  PipelineChain  PipelineProofs Software  EciesInv
                          |         /              |            |
                    PipelineChainProofs         EccBuilds   EciesProofs
                                                   |
                                   (PipelineInv) EccInv
                                                 /    \
                              (PipelineProofs) EccProofs  MCEcc
```
(lines: EXTENDS; `~~`: implements, by INSTANCE)

| Module | Models |
|---|---|
| `SystemC` | External: the kernel, as far as the program uses it. `pc[t]` and `wait[t]` of each thread; `Suspend` ends a segment with a `wait()` and makes ready exactly the threads that wait for an event notified in it; `Elapse` lets time pass when nobody is ready. |
| `AddressMap` | The ranges of `Project.h`, the test by which a slave claims a request, and how many words each slave's loop moves. |
| `Bus` | The arbiter, `MasterDataTransfer` and the loops of the slaves. One action per segment between two `wait()`s. |
| `BusProps` | Assumptions on the constants, the type invariant and the properties that hold whatever the masters ask for. |
| `BusService` | The additional assumption that every transfer is served, as in the systems of `Project.cpp`, and what follows from it; the refinement mapping. |
| `AbstractBus` | What the bus promises: a line of transactions. |
| `BusInv` | The inductive invariant of the bus. |
| `BusProofs`, `BusTheorems` | Proofs: types and the inductive invariant; what follows from it. |
| `MCBus`, `MCBusRefused` | Constants for TLC. |
| `Pipeline`, `PipelineProps` | The threads of both systems in simulated time, with a bus transaction as one step; what the pipeline is for. |
| `PipelineInv` | Two inductive invariants of the pipeline and of the programs with ECIES, for frames of any length: who waits for what (`IInv`), and how long transfers may be and take (`PaceInv`). |
| `PipelineProofs` | Proofs: how `Suspend`, the passing of time and the queues behave; both invariants, step by step, and what follows from them. |
| `PipelineChain` | The inductive invariant of the pipeline with short frames: where a frame is on its way (`ChainInv`). |
| `PipelineChainProofs` | Proofs: that invariant, and what follows from it. |
| `NalScanner`, `NalProps` | The encoder's `new_frame`, byte by byte, and the loop of `read_file` around it; which videos it is meant for, and its inductive invariant and its properties. |
| `NalProofs` | Proofs: the invariant, for every plain video; the refinement of `NalReader`. |
| `NalReader` | What the reader promises: the NAL units one after another. |
| `MCNal` | Small videos for TLC. |
| `Aes` | The tables and block functions of `aes.cpp`. |
| `AesCbc`, `AesProps` | `aesEncrypt` and `aesDecrypt` of `crypto.cpp` with the CBC functions, round by round; the standard's definitions and vectors. |
| `AesInv`, `AesProofs` | The inductive invariant of the two CBC functions (`CipherInvariant`), and its proof for every key, initial vector and frame; what follows from it. |
| `MCAes` | The key and initial vector of `crypto.cpp`, and frames. |
| `Ecies`, `EciesProps` | `keys.cpp`, `ecies.cpp` and `secure.cpp`: what each function acquires and frees, call by call, any of them failing. |
| `EciesInv`, `EciesProofs` | The inductive invariant of these calls, and its proof. |
| `EccThreads` | The pipeline of the build with ECC: `eccEncrypt` and `eccDecrypt` of `crypto.cpp` instead of the AES threads. |
| `Software` | The pipeline of `cpu.cpp`. |
| `EccBuilds`, `MCEcc` | The two of them as one specification, with their longest frames; what holds in both. |
| `EccInv`, `EccProofs` | Their inductive invariant, and its proof. |

### `Bus` and the code

Segments are named for what the thread does when it is resumed. The arbiter:
`front` (`Project.cpp:76-82`, the queue and the offer), `polled` (83), `answer`
(84-85), `done` (86-88). A master: `away` (outside `MasterDataTransfer`),
`request` (94-98), `granted` (98-103), `read`, `latch`, `close`
(`MstReadData`), `drive`, `written` (`MstWriteData`), `connecting`
(`wait(connection_ready)` in `send_packet`). A slave: `listen`, `send`,
`receive`, `close`, `setup` (`setup_tcp_connection`).

Since a segment runs to the next `wait()`, the return from a bus method and
what the caller does with it belong to the segment: `MstLoop`, `SlvLoop` and
`Return` are what follows in the caller's loop, and `ArbiterLoop` the head of
the arbiter's. A master's transfers are any of `Program[m]`, begun at any
moment: this contains every order in which the threads of the pipeline make
them. `busData` holds which thread drove the word and its index; values are
abstracted.

`setup_tcp_connection` is called by the thread that listens to the bus
(`network_interface_card.cpp:56`): while the slave `nic` is in the segment
`setup` it hears no request.

### `Pipeline` and the code

Each thread of the build (`DEMO` 0, `ECC` 0) is a group of actions: the encoder
(`encode`, `read_file`), `send_packet`, `aesEncrypt`, `aesDecrypt`,
`read_packet`, `send_frame`, `receive_frame`, `decrypt_packet`, and one thread
per bus that serves transactions in order. What a slave does upon a transaction
is part of the step that finishes it (`Encode`, `Cryptography`,
`WaitForBufferDescriptor`, `MemDataTransfer`).

- Time is in ns and computed from the constants of the code: a transaction
  takes three cycles for the request and `len + 2` cycles for the words, at
  72 MHz with the code's integer division (13 ns, 41 ns); encryption 1400 ns per
  16 bytes (`AES_THROUGHPUT`), transmission 2261 ns per 16 bytes.
- The contents of a block are which frame they are, in what form and how long.
  Reading fewer words than a frame, or encrypting something that is not a
  whole plain frame, gives contents that are no frame any more.
- A frame has any length of `FrameLens`; the video may end after any frame.

### `NalScanner` and the code

One step `ReadByte` is an iteration of the inner loop of `new_frame`, with the
test that follows it when the loop ends. `buffer` is the array up to
`buffer_ptr`; when the code would index outside it the scanner stops: with
`buffer_ptr` at the end of the array at `overrun`, and at `underrun` when four
bytes are taken back and fewer are stored. The code checks neither. At the end
of the file `fread` leaves `cur_byte` as it was, and an uninitialised `cur_byte`
may then be any byte. `buffer` is an array of signed `char`, so the words that
`read_file` writes are sign-extended; `aesEncrypt` takes their low bytes again.

`NalReader` is the reader of whole units that implements: a unit begins behind a
start code and ends at the next one or at the end of the file. In the refinement
mapping `at` is the last start code that was read completely, `held` the buffer
without the bytes behind it (at `overrun`, as it was before the byte that has no
place), and a frame counts as delivered when it is complete (`pc = "write"`). It
allows the last frame one byte too many, which `read_file` stores when it meets
the end of the file.

### `AesCbc` and the code

The block functions of `aes.cpp` work in place on the block of `output` that
`state` points to, and so do the steps here. A step is one round, or one word of
`KeyExpansion` (`word` is its loop variable), which both functions call before
their first block; `RoundKey` is static and keeps what the last call left in it,
so the second call writes the same keys over those of the first. XOR is written
out by the bits of a byte. `Iv` is a pointer, as in the code:
to the caller's `iv`, then into `buffer` while encrypting and into `charData`
while decrypting. The functions never wait, so the static variables that the
two crypto units share are not shared in any state a thread can see.

### `Ecies` and the code

Each function of `keys.cpp` and `ecies.cpp` is a chain of `if (!(x = f(...)))`
with a return in each branch, so it is written as the sequence of its calls that
can fail or free something: what the call uses, what it gives, what is freed
before the `return NULL` if it fails (`undo`), and what is freed after it if it
does not. `Call` starts a function, `Succeed`, `Fail` and `FailAndGoOn` are a
call with its outcome, `Return` is the end. An object is named by the variable
that points to it. `live` holds what exists, `lost` what no variable points to
any more when the function is over, with the call at which that came about;
`misused` what was used or freed when it was not there. First come the calls of
`top` and of the constructors of the two crypto units (`Startup`), then for ever
those made per frame. The lengths in the head of the envelope and the number of
bytes written to its body are computed.

### `EccThreads`, `Software` and the code

They replace some actions of `Pipeline` by those of the other program and keep
the rest. With ECC set, `send_packet` differs only in the descriptor's length
(`SendPacketUnpadded`, because `AES` is 0). The envelope holds the data that was
encrypted; decrypting it gives as much of it as the receiver's length says.
Encryption and decryption may fail at any frame: in `crypto.cpp` the thread
returns (`EccReturns`), in `cpu.cpp` the null pointer is used and the program
ends (`Crash`): the sender's when it has the bus and drives the first word of it
(`DrivesNull`), the receiver's when it decrypts. Times are `ECC_THROUGHPUT`
(4315 ns per byte), and 519 and 187 ns per byte in software.

## 3. Runs

| Run | Instance | Shows |
|---|---|---|
| `bus` | three masters of `bus1`, one of which makes the network card deaf, transfers of 1, 2 and 4 words, 750 MHz, with fairness | all safety properties of the bus and its inductive invariant; it implements `AbstractBus`; every request is acknowledged and completed; the line never stops |
| `bus_refused` | one master, also with transfers nobody serves, 1000 MHz | the time-out of the arbiter works, and nobody is stuck after it |
| `pipeline_any` | frames of 1 byte, 12, 80 and 289 kB and a whole block, 4 frames | both invariants for all lengths; every command is heard and the encoder keeps the pace, also where the others do not |
| `pipeline_720p` | frames of 1.1, 12 and 80 kB, 11 frames | the invariant for short frames; encryption and network keep the pace, nothing but ciphertext is sent, every other frame arrives whole |
| `pipeline_blocks` | frames of 1.1 kB | **violation**: not every frame arrives |
| `pipeline_1080p` | a frame of 289 kB | **violation**: the encryption does not keep the pace |
| `pipeline_plain` | frames of 280 kB | **violation**: plain frames are sent |
| `scanner_plain` | every video of up to three units of 14 kinds that is plain, 2954 of them, and a buffer of nine bytes | the inductive invariant; the scanner delivers the NAL units and ends, and leaves its buffer exactly where a frame is too long for it |
| `scanner_escapes` | also units with 00 00 03 inside | **violation**: bytes are lost |
| `aes` | the published vectors, and frames of 1, 15, 16, 17 and 31 bytes | encryption and decryption are inverse and the standard's; the inductive invariant |
| `ecies` | data of 1 to 12709 bytes, any call failing, in any order of the calls per frame | the inductive invariant; no dangling or forgotten object but those named; the envelope filled exactly |
| `ecc` | both programs with ECIES, frames of 1.1, 4.2 and (software) 34 kB, 11 frames | the inductive invariant; every command is heard; each frame is decrypted from its own envelope, every other frame arrives whole |

### Bounds, and why they are enough

- *Masters* are three of the sender's four: the one that talks to the registers
  of all slaves, one that reads the memory and one that writes it. With three,
  two wait in line while the third is served. The fourth, and the receiver's, are
  like these; the proofs are about any number. Masters call at any moment, so the
  interleavings include those of the program.
- *Transfer lengths* are the program's own for registers (1, 2, 4); transfers
  with the memory are cut to `FrameWords` words. A loop of 1, 2 and 4 words has a
  first, a middle and a last iteration on both sides.
- *Frequencies* are chosen so that a cycle is 1 ns and three cycles 3 ns (1000
  MHz) or 4 ns (750 MHz). The code's integer divisions at 72 MHz give 13 and
  41: what matters is whether three cycles are longer than three times one,
  and both cases are run (the proofs are about any frequency). `SETUP` (49,010 ns)
  is longer than the arbiter waits for an answer, so a request made meanwhile
  would time out.
- *Frame lengths* lie on both sides of the thresholds found by varying them:
  up to 80 kB nothing is lost; a small frame after one of more than 110 kB
  finds the card transmitting; up to 236 kB the encryption keeps the pace.
- *Videos*: a unit is one of the two kinds the scanner distinguishes, with zero
  to three bytes behind its header, zeros, ones and bytes above 127 among them,
  also at its end. Three units make a parameter set, a picture and another one
  in every order. `FrameLimit` is 2 (11 in the code), so that some videos end
  at the limit and others before it. The buffer has nine bytes, and a video up to
  24: the frames of 2234 videos fit in it, of most of these only because
  `buffer_ptr` goes back to zero, and in 720 one does not (with its start
  code, or the byte stored at the end of the file).
- *Frames to encrypt*: of less than, exactly and more than one block, and of
  four blocks; a table is checked at each of its 256 entries.
- *Data for an envelope*: lengths with and without a partial block, below and
  above one block. Objects are tracked per call, and no function keeps any from
  one call to the next but those the callers point to, so a few calls in
  every order reach every state.
- *Frames with ECIES*: up to the longest for which each program keeps pace; with
  more than about 4.28 kB (units) or 36 kB (software) `packet_received` is lost
  when a small frame follows a long one, and `OwnEnvelope` fails. This is far
  below the 80 kB of the AES build.
- `Frames` is 11, as in `read_file`: enough for each combination of three
  lengths in three consecutive frames at either parity. In `pipeline_any` it
  is 4: lengths at both ends of what a block holds, and on both sides of the
  thresholds, in every combination of four; the properties of that run are
  proved for any number.

`CHECK_DEADLOCK FALSE`: the bus has no deadlock in TLC's sense, as a master may
always call, but a refused one may not, and the pipeline stops when the video
ends. `NothingStuck` and `LastFrameDelivered` say in which states it may rest.

### Fairness

`FairSpec` has weak fairness of the arbiter, of each master and slave thread
once it is ready, and of the passing of time: the SystemC scheduler runs every
ready thread before it advances time, and advances time while a timer runs.
There is no fairness for `MasterDataTransfer`: nothing obliges a thread to use
the bus.

## 4. What is proved

`BusProofs` proves, for every set of masters, every assignment of transfers and
every clock frequency from 1 to 1000 MHz:

- `TypeCorrect`: `Spec => []TypeOK`. The type invariant is inductive as it
  stands. The proof splits it into what concerns the scheduler (`ControlOK`) and
  the data (`DataOK`), shows once for `Suspend` and `Elapse` that they preserve
  the former, and has one lemma for each of arbiter, masters and slaves.
- `AtMostOneClaims`: no request is claimed by two slaves.

It also proves `InvariantHolds`: `Spec => []IInv`, and `BusTheorems` what
follows from it, each for every set of masters whose transfers are served:
`BusIsExclusive`, `WordsInOrder`, `NoHandshakeLost`, `NoMasterForgotten`,
`NoTimeout`, `RequestStays`, and `ImplementsLine`, the refinement of
`AbstractBus`.

*Why an invariant is needed.* None of the promises is inductive: that a word is
driven by the right party depends on where both parties are suspended, that the
arbiter waits, and that nobody else can be woken by the same event. `IInv` says
this for each phase of a transfer:

| Phase | Arbiter | Owner of the request | Slave that serves it |
|---|---|---|---|
| `Idle` | `front`, ready if the queue is not empty | none | none |
| `Offered` | waits for `slv_ack` | waits for `master_ack` | ready to look at the address |
| `Accepted` | about to answer | waits for `master_ack` | waits for the owner |
| `Running` | waits for `end_of_transfer` | and slave in one of seven joint states: `Acknowledged`, then `Asking`, `Fetching`, `Closing` (read) or `Driving`, `Taking`, `Taken` (write) | |
| `Leaving` | waits for `end_of_transfer` | has returned | about to notify it |
| `Over` | ready | none | none |

with what everybody waits for (`WaitsOK`), that the queue holds exactly the
requests of those that wait, once each (`QueueOK`), that a master or slave woken
for another's sake has looked and gone back to sleep before `currentReq` can
change (`AcksOK`, `ListenersOK`), and that while the network card is deaf the
only master that would address it waits for it (`ConnectionOK`).

*Argument.* `Steps`-lemmas turn `Suspend` into what it means for the thread that
ran and for the others. A step of a thread that has no part in the transfer
preserves every phase (`SameTransfer`, `PhaseKept`); the steps of the owner, of
the slave and of the arbiter are treated phase by phase. For the refinement,
each step is one of four kinds (`NothingMoves`, `WordMoves`, `MasterQueues`,
`ArbiterTurns`), of which the last three are the actions of `AbstractBus`.

### The scanner

`NalProofs` proves, for every set of plain videos (`PlainFiles`) of any bytes and
lengths, any `BufferSize` and any `FrameLimit`: `ScannerInvariant`
(`Spec => []ScanInv`), `InBufferUntilFull`, `FramesHaveWords` and
`ScannerImplementsReader` (`Spec => ReadsUnits`).

*The assumption.* No length is assumed, of videos or of the buffer. A video is
plain if it begins with a start code of four bytes, does not end with one, and
has 00 00 01, 00 00 02 and 00 00 03 nowhere else. That is what the code takes
for granted; `scanner_escapes` shows what happens without it. That `buffer_ptr`
does not fall below zero, and that no frame is empty, is proved for plain videos
only, and fails for others: 00 00 03 directly behind a separation, or behind the
first byte of a picture.

*Why an invariant is needed.* That four bytes can be taken back, and are a start
code, depends on how many zeros were passed since, and which bytes of the file
the buffer ends with. `ScanInv` says that `zeros` counts the zeros in front of
`pos`, all of them (`ZerosOK`); that the buffer ends with the bytes of the unit
that is being read, behind the units held (`UnitOK`); that `nal_header` is that
unit's (`UnitOK`), or 0 while the first start code is read (`FirstCodeOK`); that
a `cur_byte` that `fread` leaves alone is the last byte of the file (`ByteOK`);
and that the buffer holds as many bytes as the video has there, by its start
codes: what there is of the last frame, without the start codes inside it
(`StoredOK`, `StoredAt`). `InBuffer` follows from this: the code does not
compare `buffer_ptr` with the array, so it is left at the first byte for which
`StoredAt` is `BufferSize`, and at no other.

*Argument.* `SeparationIsCode`: given `ZerosOK`, the test of `new_frame` succeeds
exactly at the end of a start code. So a byte is read in one of four ways
(`ReadCases`): it has no place, or it is at the end of the file, at the end of a
start code, or neither.
`CodesApart`: start codes do not overlap, so the unit behind the last one has at
least the three zeros stored that are taken back with the last byte.
`StoredAdvances`: from one byte to the next `StoredAt` grows by one, loses four at
a start code inside a frame, and is zero behind one that ends a frame. In the
refinement a byte that ends a start code is `Hold` or `Deliver`
(`ReadCodeDelivers`), the end of the file `DeliverLast` (`EndOfFileDelivers`), and
everything else stutters.

### The pipeline, for all frames

`PipelineProofs` proves, for every set of frame lengths that fit in a block and
any number of frames: `PipelineInvariant` (`Spec => []IInv`),
`PipelineTypeCorrect`, `CommandsAreHeard`, `PaceInvariant` (`Spec => []PaceInv`)
and `EncoderInTime`. Of the times the first three use that a transaction on a
bus takes some, and nothing else: what they say does not depend on who is
faster.

*Why an invariant is needed.* That the crypto unit waits for a command when its
processor gives one follows from where the two are when the command is queued,
and from what neither can do until it is served. `IInv` says for what each thread
may wait in front of each segment (`ControlOK`); of what types the data are
(`DataOK`); that `send_packet` has not taken more frames than `read_file` has
reported (`CountOK`, which bounds `frame_num`); that the queue of a bus holds at
most one request of each of its masters, who waits for it, and a command only
before the segment that makes it (`QueueOK`); that while a crypto unit works, its
processor awaits it or is about to (`CryptoOK`). Two parts are about order:

- `Settled`: a transaction is over only after time has passed, so those whom the
  last one woke have run by then.
- `CardOK`: the network card is told to read a frame and not asked whether it is
  done. The processor may go on to the next frame; but the card's request for
  the block is queued before any the processor makes then (`CardFirst`), and the
  bus is first come, first served, so the card has its frame before it is told
  of the next.

*Argument.* `Suspended` and `Elapsed` say what a step does to the thread that runs
and to the others; `Called` and `Signalled` are the two ways in which a segment
ends, with a request to the bus or without. There is a lemma for each group
of actions, and `Finished` for what a transaction that is over changes, by the
slave that it was addressed to.

*The pace of the encoder.* Whether a frame is in the memory when the next one is
due depends on how long `read_file` waits for the bus. `PaceInv` says, beside
`IInv`:

- `LengthsFit`: what registers, answers, requests and the network hold is at most
  a block (300,000 bytes) long, so no transfer reaches into the next block, and a
  transfer takes at most 3.90 ms (`LongestMove`);
- `BusOnTime`: the sender's bus is moving words or about to whenever somebody is
  in its queue;
- `WriteInTime`: when `read_file` makes its request, a whole period less the time
  of encoding is left; the requests before it in the queue are over soon enough
  (`ServedIn`).

*Argument.* By `QueueOK` each of the four masters is in the queue once, so at most
three transfers go before the one of `read_file`, and what is queued later is
served later: 4 times 3.90 ms are less than the 33 - 3.5 ms that are left. So the
encoder never falls behind, also with the frames for which the others do.

### The pipeline, for short frames

`PipelineChainProofs` proves, for frames of at most 80,000 bytes (`ShortFrames`)
and any number of them: `OneFrameAtATime` (`Spec => []ChainInv`),
`EncryptionInTime`, `TransmissionInTime`, `OnlyCiphertextIsSent`,
`EveryOtherFrameComesOut` and `TheLastFrameComesOut`.

*The assumption.* Without it the properties do not hold: `pipeline_1080p` and
`pipeline_plain` show it for frames of 289 and 280 kB, and a small frame that
follows one of more than 110 kB is lost. 80,000 bytes are what can be said with
one frame on its way at a time: from the report of a frame to the end of its
decryption the pipeline takes 31.5 ms then, and of the 33 ms between two reports
the writing of the frame takes 1.04 ms. The largest picture of the video that
`top` opens has 12.9 kB.

*Why an invariant is needed.* That `encode_done` is heard depends on everything
that has been done since the last one, by ten threads on two buses. `ChainInv` says
that there is one frame on its way at most, where it is, and how long it still
needs:

- all threads but one or two wait where they do between frames (`OthersHome`),
  and the bus that these use has no request but theirs (`Asking`, `BusFree`);
- `Working(r)`: where the frame is (`InCrypto1`, `InCard`, `InNetwork`,
  `InReceiver`, `InCrypto2`), with what the registers, the buffers and the blocks
  of the memories hold there, and that the work takes `r` more;
- `Encoding(r)`: that `read_file` needs more than `r` until it reports the next;
- `Quiet`, that nothing is on its way and `read_file` stores the next frame; and
  `Starting`, everything up to the first command to the encoder;
- `Lasting`: whose turn it is by the counters, and what is in the blocks that
  nobody writes.

*Argument.* A step of the thread that works leads from one place of the frame to
the next, with what is left to do less by what the next place does not count any
more; when time passes both sides of the comparison lose the same; no other
thread is ready. The times of the places are sums (`ClearWriteOn` to
`FrameLengthOn`), monotone in the length, of which the whole is below the period,
less the write, for 80,000 bytes. The properties then only ask where the frame
is: for instance, `encode_done` is notified when `read_file` has written a frame, so in `Quiet`, and
there `send_packet` waits for it.

### The programs with ECIES, for all frames

`EccProofs` proves, for both programs, every set of frame lengths that fit in a
block (below the `MaxLen` that each is run with) and any number of frames:
`EccInvariantHolds` (`Spec => []EccInvariant`), `EccTypesCorrect`,
`EccCommandsAreHeard` and `EccEncoderInTime`, whichever encryption or decryption
fails.

*Why an invariant is needed.* The same as for the pipeline, and to a large part
for the same steps: the bus, the encoder, the network cards and most of the
processors are those of `Pipeline`. So `EccInvariant` is `IInv` and `PaceInv`
again. `IInv` says for what a thread may wait in front of a segment also where
`cpu.cpp` has segments of its own (`frame`, `encrypted`, `stored`, and
`envelope`, `decrypted`, `written` of the receiver) and where an ECC thread has
returned because it failed: then it waits for nothing that comes, its processor
awaits it for ever, and `CryptoOK` holds in its second disjunct. What is new:

- `Ended`: in software a failure uses a null pointer, and the whole program is
  over; nothing is said of the places of its threads then, and no step is possible
  (`EndedForGood`);
- `DecryptedFits`: the length of what `decrypt_packet` writes comes from the
  envelope, not from the network; the envelope was made from a frame that fits;
- `EccTypeOK`: the envelope is that of a frame that was encoded.

*Argument.* The lemmas of `PipelineProofs` are about groups of actions, and are
cited for the groups that are shared. `EccThreads` and `Software` add a lemma for
each segment of theirs, of the two kinds there (`Called`, `Signalled`). The times
of encryption do not matter: with 519 ns for each byte, or 4315 in the units, the
encoder still keeps its pace, because nobody holds the bus while it computes.

### ECIES

`EciesProofs` proves, for every set of lengths: `EciesInvariantHolds` (`Spec =>
[]EciesInvariant`), `EciesTypes`, `NothingIsDangling`, `LocalsAreFreed` and
`EnvelopeIsFilled`, whichever calls fail.

*Why an invariant is needed.* That an object is there when a function uses it
depends on all the steps the function has made; that an error path frees
everything, on which of them have been freed before. `EciesInvariant` looks at
the steps that are left:

- `FunctionOK`: from what the function holds now, every step to come is right
  where it is reached (`Sound`, `StepOK`): it uses and frees what is there, gives
  what is not, and leaves nothing behind if it fails;
- `GroupInitOK`: the function that goes on with a group it has freed, step by
  step; `TodoOK`: the calls that `top` still has to make, and that the global group
  is set when they are over;
- `DecryptOK`, `EnvelopeOK`: the envelope is there while it is decrypted, and what
  was written to it is what the steps left will complete.

*Argument.* A function that starts is sound from what its caller gives it
(one lemma per function); a step that is sound leaves the rest sound (`HeldNext`),
and an error return leaves only what the properties name. For the envelope the
lengths are those of a cipher with blocks of 16 bytes, with and without a partial
block. The returns of the code for other lengths (`ecies.cpp:125`, `138`, `157`,
`287`) are left out; they free what the calls in front of them do.

### The cipher

`AesProofs` proves, for every key, every initial vector and every set of frames
of any length: `CipherInvariantHolds` (`Spec => []CipherInvariant`),
`CipherTypesCorrect`, `FramesComeBack` (`Spec => []RoundTrip`) and `MixesCorrect`
(`Spec => MixesAsStandard`).

*Why an invariant is needed.* That a frame comes back says nothing of the states
between. `CipherInvariant` says, beside the types:

- `KeysMade`: each byte of the round keys written so far is made of the bytes
  before it as `KeyExpansion` makes it (`KeyByte`), and while the receiver expands
  the key again that holds of all of them: writing them once more changes nothing;
- `Encrypting`: behind `i` the output is the ciphertext of the frame, block
  chained to block (`IsCiphertext`), `Iv` points to the last one, and the block in
  work is what `Cipher` has in that round (`Rounds`);
- `Sent`: what is sent is the ciphertext of the whole frame;
- `Decrypting`: behind `i` the output is the frame, `Iv` points to the last block
  of the input, and the block in work is what `Cipher` had in that round, when it
  made the block that is being decrypted: `InvCipher` passes the states of `Cipher`
  in the reverse order.

*Argument.* A byte is the sum of its eight bits (`ByteOfBits`), and two bytes with
the same bits are equal (`SameBits`). XOR adds the bits modulo 2 (`XorBits`), so it
is associative, commutative and undoes itself; `xtime` moves the bits and adds the
highest one to three others (`XtimeBits`), so it is linear (`XtimeXor`). The bytes
that `InvMixColumns` makes are sums of multiples of those of the column; when the
column is one that `MixColumns` made, all but one of the multiples cancel out
(`UnmixedMixed`). That `getSBoxInvert` undoes `getSBoxValue` is looked up for each of the
256 bytes. A round of `InvCipher` then undoes one of `Cipher` (`RoundUndone`). That
the function in `Rounds` exists is shown from its ten values (`RoundsExist`).
What is left are the arrays: writing a block does not change the blocks behind
(`PutBytes`, `CiphertextKept`), and `Iv` points into an array that is not written
there any more.

Assumptions: `MastersAssumption` (the masters of one bus have different ids and
names that are not taken), `ProgramAssumption` (transfers are requests),
`ClockAssumption` (a cycle lasts at least 1 ns and the connection takes time);
`ServedAssumption` (each transfer has a slave that serves it) and
`ConnectionAssumption` (only the thread that opens the connection talks to the
network card, as in `send_packet`) for the invariant of the bus;
`FramesAssumption` (a frame has at least one byte and fits in its block; the
code does not check it, `encoder.cpp:130`) for the pipeline; `LengthsAssumption`
(data have at least one byte, and no more than an `int` can count) for ECIES;
`KeyAssumption` and `FramesAssumption` of `AesCbc` (key and initial vector are 16
bytes, a frame has at least one word, which may be any integer) for the cipher;
`FilesAssumption`, `BufferAssumption` and `LimitAssumption` (of what type they
are) for the scanner, beside the condition on videos given there (`PlainFiles`).
TLC evaluates them in the runs.

### Only model-checked

- The liveness of the bus (`RequestsComplete`, `ServesAll`): fairness and
  ENABLED are out of the prover's reach.
- What happens to a request that no slave serves (`bus_refused`).
- That the scanner comes to the end of a video (`VideoRead`), and what it does
  with a video that is not plain (`scanner_escapes`).
- Nothing is proved about the pace of encryption, network and receiver with frames
  above 80 kB, nor about what comes out then:
  `EncryptionKeepsPace`, `TransmissionKeepsPace`, `CiphertextOnly`,
  `EveryOtherFrameWhole` and `LastFrameDelivered` fail for some of them, as section
  5 shows. That every frame is delivered at last (liveness) is not proved either;
  `TheLastFrameComesOut` says that nothing rests before it is.
- Of the programs with ECIES, that a frame is decrypted from its own envelope
  (`OwnEnvelope`), and that every other frame comes out: both hold only below a
  length, like those of the pipeline in `PipelineChainProofs`, but the proof there is
  about one frame on its way at a time, and with the frames of the run `ecc` the
  receiver's unit still decrypts one when the next is reported. That frames come
  out at all is not stated for these programs: any encryption may fail in the
  model, and after that none does. The run `ecc` shows that what comes out is
  one of every other frame, and whole.
- That the tables of `aes.cpp` are the standard's (`TablesStandard`): expanding the
  field arithmetic for each of 256 entries is too much for the provers. The
  property has no parameters, so TLC's evaluation of it leaves no case out.
- That the ciphertext is the published one (`MeetsVectors`), which is a statement
  about the vectors that `aes.cpp` names.

## 5. Disagreements between the code and what is said about it

1. `pipeline_blocks`: `send_packet` has the crypto unit read odd frames from
   block 3, while the encoder writes them to block 1; likewise the receiver
   reads block 2 for what its card wrote to block 1. No odd frame arrives.
2. `pipeline_1080p`: the report claims that 1080p video can be encrypted at 30
   frames per second at 72 MHz. A frame of 289 kB, the largest it names, needs
   more than 33 ms from report to report, because the encoder's writing of the
   next frame uses the same bus; the next `encode_done` is lost.
3. `pipeline_plain`: block 1 holds the ciphertext of even frames and the
   encoder's odd frames. With frames of 280 kB the encoder overwrites the
   ciphertext before the card reads it.
4. `scanner_escapes`: `new_frame` takes 00 00 03 for a start code of four
   bytes. H.264 puts these three bytes into units itself, and the video that
   `top` opens (`720p_static.h264`) has five of them: its five pictures are sent
   as eight pieces, 20 bytes short. If the three bytes follow directly on
   another separation, `buffer_ptr` falls below zero.

Beside these, the last byte of a file is stored twice (`NalReader` allows for
it), and the properties of `Ecies` name what its error paths get wrong:

- `ecies_group_init` frees the group when its tables cannot be computed, and then
  goes on to use and store it (`keys.cpp:27`);
- `ecies_group` leaves behind the group that it duplicates, also when all goes
  well; `top` takes this path, because no unit exists yet when it makes the key
  (`keys.cpp:71`);
- the point is not freed when `EC_POINT_oct2point` fails (`keys.cpp:148`), the
  group not when `EC_POINT_hex2point` does (`keys.cpp:207`).

In `cpu.cpp` the ciphertext of an even frame is written to block 1, but the card
is told to send block 3 (`cpu.cpp:285`): what goes over the network is a block
that nothing writes, and the frame arrives only because the receiver decrypts
the global `cipher`. The length and the order of frames are all that the network
contributes; the same is true of the ECC threads.

## 6. Plan

Built in this order, each step with its runs before the next: `SystemC`,
`AddressMap`, `Bus` with its properties, its abstract specification, invariant
and proofs; `Pipeline`; `NalScanner` with its proofs; `Aes` and `AesCbc`;
`Ecies`; `EccThreads` and `Software`; the proofs about the pipeline for all frames,
then for short ones; those about ECIES; those about the two programs that use it; the invariant of the
cipher and its proof.

What could still be added: a chain like that of `PipelineChain` for the two
programs with ECIES, in which two frames may be on their way; from it
`OwnEnvelope` would follow for frames of up to 4 and 34 kB.

## 7. Not modelled

- The DEMO variants: they truncate frames and print.
- Energy sums and printing: nothing reads them.
- `tear_down_tcp_connection`: no master requests it.
- `NetworkInterface.cpp`: superseded by `network_interface_card.cpp`, and part
  of no program here.
- `ecies_group_free` and `ecies_key_free`: never called. The callers free
  neither envelopes nor the strings of the keys when they overwrite them; in
  `Ecies` that is seen in `lost`, but no property is about it.
- The bytes of envelopes and keys. With ECIES `length` words are written from an
  envelope that has little more than `length` bytes; what lies behind it is
  written to memory and sent, and not looked at again (`Software`,
  `EccThreads`: the data the receiver reads has no influence).
- The ECB functions of `aes.cpp` and the tail of its CBC functions for bytes
  left over: not called, and never reached because `crypto.cpp` pads.
- Values of the words on the bus, and of the bytes of a frame in `Pipeline`.
- Two requests queued of which the first is served by no slave: the arbiter then
  goes on without suspending and the refused master no longer finds its id
  (`MCBusRefused` with both masters shows it); no program here makes such a
  request.
- Wrap-around of `unsigned`: addresses and lengths stay below 3,000,000; the
  one product that could wrap (`length16 * 8000`, at 536,870 bytes) does not
  for a frame that fits in its block.
