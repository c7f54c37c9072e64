# Numbat embedded: models, checks and proofs

The repository is the firmware of a rover: modules for the TM4C123
microcontroller, each a program of its own on the Kochab variant of the eChronos
kernel, that talk to each other over a CAN bus with a small ROS client library
(`src/src/libs/ros_echronos`). This directory holds TLA+ models of that library, of the
kernel under it, and of the two kinds of module at its ends (the gateway from the
on-board computer and the nodes that drive the wheels), TLC configurations that check
them on small instances, and proofs of what can be proved for every size.

Paths below leave out `src/src/libs/ros_echronos/` where that is clear.

## Reading and running

    tlc -config PublishQueue.cfg PublishQueue       # a run: see "Runs"
    tlapm PublishQueue_proofs.tla                   # a module of proofs

`PROJECT.json` names the components, the runs and what each shows, for every
definition that models code the lines it models, for every property a plausible
bug of the code that breaks it, the hazards and the theorems.

## Inventory

### The parts and how they interact

A node is one processor with two tasks. The *application task* (`entry_point_...`
of the module) creates a `NodeHandle`, registers, and then loops: publish, call
`spin()`, which first drains every publisher's queue onto the bus and then runs the
callbacks of completed messages. The *can_wait task* (`boilerplate/can_wait_task.cpp`)
runs `NodeHandle::run_handle_message_loop`: it waits for a kernel signal, pops
frames from the ring the CAN interrupt fills, and hands each to the promise that
waits for it, to the channel control handler or to a subscriber, where packets are
put together into messages. `can_wait` has the highest priority of every module
(31 against 30), so it preempts the application task between any two statements
and is itself preempted only by interrupts.

| part | source | state | operations |
|---|---|---|---|
| message ring | `include/Message_Buffer.hpp` | array, head, tail, is_full | put, pop, is_empty, length |
| receive path | `arch/tm4c/can_impl.cpp`, `Incoming_Message_Buffer.cpp`, `NodeHandle.cpp`, kernel | ring, message objects, interrupt enable bit, interrupt event, task signal, start-up flags | interrupt, lock/unlock, pop_locked, signal wait, dispatch, reset |
| publisher | `templates/Publisher.cpp` | queue, current message, seq_num, msg_num, in progress | publish, get_next_message, register_topic |
| subscriber | `templates/Subscriber.cpp`, `Message.cpp` | construction slots and mask, ready_msgs, topic id | receive_message, next_construction_msg, clear_slot, call_callback, register_topic, unsubscribe |
| promises | `CANPromise.cpp`, `NodeHandle.cpp` | promise buffer and bitmask, per promise: expected header, signal, message | match, then, on_error, wait, match_message |
| message objects | `arch/tm4c/can_impl.cpp` | table of objects, next free object | subscribe_can, unsubscribe_can |
| field decoding | `Message_Descriptor.cpp`, `Message.cpp` | field position, array lengths, partial bytes | decode_msg, fill, get_next_block |
| dynamic memory | `alloc.cpp`, tlsf | heap, its mutex | alloc, free |
| packet formats | `can.cpp`, `include/can/*.hpp` | none | header layouts, hash, send_string |
| lists, logging, time | `ListNode.cpp`, `ros.cpp`, `include/time.hpp` | – | – |
| generator | `build_tools/*.py` | build time only | – |
| ADC and voltmeter | `libs/adc`, `modules/voltmeter` | sequencer, buffer, callback | init, capture, interrupt |
| PWM, servo, locomotion | `libs/pwm`, `libs/servo`, `modules/*_locomotion` | prescaler, period, pulse width, polarity, enable | init, set prescaler, period and duty, enable, the four callbacks |
| retransmitter | `modules/retransmitter` | bytes of the magic seen, of the body read | wait_for_msg, read, publish |
| kernel | `rtos-kochab.c` | pending signals, whom each task is blocked on, mutex holders and waiters, timers, interrupt events | scheduling, preemption, signal send and wait, sleep, mutex lock and unlock, tick |

Vendored code (TLSF, TI drivers, USB, sensors, SPSCQueue) and bench programs are
listed in `PROJECT.json` and not modelled.

### What is hard, and what makes each part correct

* **Ring.** Both cursors walk downwards, wrap at the first element, and `put`
  moves `head` when it overwrites the oldest message, without wrapping it. Right
  means: a bounded first-in first-out queue that drops its oldest; and a bound on
  the damage when `head` leaves the array.
* **Receive path.** The interrupt's `put` and the task's `pop` share `head`; the
  kernel clears the event before it sends the signal, and the task clears the
  signal before it looks at the ring; an old signal may wake the task with nothing
  to do, and `pop` does not ask. Right means: the interleaving behaves as a queue,
  no wake-up is lost, the node comes to rest with every frame handled.
* **Transport.** Packets of several nodes interleave, packets are lost, handed over twice
  or out of order, message numbers wrap after four, sequence numbers after eight, and
  construction slots are few. Nothing in the subscriber recognises a repeated packet, so
  right means: a delivered message is whole; it comes once and in order but for one message
  for each packet handed over out of turn; and slots are held by no more than nodes in the
  middle of a message, lost packets, packets out of turn and empty messages account for.
* **Registration.** The response may be handled before anybody waits for it; headers
  carry three bits of a hash; stale frames come back from the ring; one place for a
  promise. Right means: every registration gets its own answer, as far as headers tell
  answers apart, and the task is woken.
* **Fields.** A packet ends anywhere in a field, in an array or between the two bytes of
  its length; the receiver learns an array's size as it decodes. Right means: every
  byte lands where it was sent from, inside the field's memory, and the decoding loop
  ends.
* **Ready messages.** One task puts, the other pops, and nothing keeps them apart but the
  fact that put moves `tail` and pop moves `head`, which is not true of a put that
  overruns. Right means: a queue until then, and no lasting damage after.
* **Kernel.** `sched_get_next` follows `blocked_on` from the highest priority down, a
  mutex waiter sleeps on the very signal `rtos_sleep` uses, `mutex_unlock` wakes the
  waiters before it frees the mutex, and ticks and events fall in between. Right means:
  mutexes exclude, no wake-up is lost or left over, no priority inversion, the walk ends,
  and the task of the highest priority gets on.
* **Message objects.** Objects are handed out by a bump pointer, chained to queues, filled
  and read lowest first; a frame that comes into an object emptied early overtakes. Right
  means: subscriptions do not share an object and stay inside the table while they fit,
  nothing is lost while there is room, order is kept until such a refill, and every frame is
  handled.
* **Retransmitter.** A byte stream without framing but a magic word, read by a task that does
  not read while it publishes, so that the UART overruns. Right means: only
  lost bytes garble a body, and a bounded number of frames is lost for each run of lost bytes
  and for each start that was none.
* **PWM and locomotion.** A prescaler for all pins, a period for a pair, a width in counts of
  both, inverted polarity for full duty, and calls that fail in silence. Right means: an
  enabled output always has the period and the pulse that were asked for.

## Modules

| module | what it is | maps to |
|---|---|---|
| `MessageBuffer` | the ring as operators on a record | `Message_Buffer.hpp` |
| `BoundedFifo` | abstract: what a message buffer promises | – |
| `PublishQueue` | a publisher's outgoing ring and `spin()` | `Publisher.cpp`, `NodeHandle.cpp` |
| `CanReceive` | interrupt, kernel, ring, can_wait task, start-up, reset | `can_impl.cpp`, `NodeHandle.cpp`, `Incoming_Message_Buffer.cpp`, `rtos-kochab.c` |
| `CanObjects` | the controller's message objects and their table | `can_impl.cpp`, `Subscriber.cpp` |
| `Transport`, `MCTransport` | publishers, bus, one subscriber | `Publisher.cpp`, `Subscriber.cpp`, `Message.cpp` |
| `ReadyMsgs` | the unlocked ring between can_wait and the application task | `Subscriber.cpp`, `Message_Buffer.hpp` |
| `Registration`, `MCRegistration` | promises, requests, responses | `CANPromise.cpp`, `NodeHandle.cpp`, both `register_topic` |
| `Descriptor`, `MCDescriptor` | the bytes of a message, from fields to packets and back | `msg_gen.py`, `Message.cpp`, `Message_Descriptor.cpp`, `ros.hpp` |
| `Kernel` | scheduler, mutexes, signals, sleep, tick, events | `rtos-kochab.c` |
| `Retransmitter`, `MCRetransmitter` | the gateway's serial line, resynchronisation and topics | `modules/retransmitter` |
| `Pwm` | the registers behind a pin and the driver's calls | `libs/pwm` |
| `Locomotion`, `MCLocomotion` | set-up and callbacks of a node that drives two wheels | `modules/*_locomotion`, `libs/servo` |
| `MessageBuffer_proofs` | lemmas on the ring's operators | – |
| `PublishQueue_proofs`, `CanReceive_proofs`, `ReadyMsgs_proofs`, `Kernel_proofs`, `CanObjects_proofs` | theorems of the five components | – |
| `Transport_proofs` | theorems of `Transport` and `Descriptor` | – |
| `Nodes_proofs` | theorems of `Registration`, `Retransmitter` and `Locomotion` | – |

`PublishQueue`, `CanReceive` and `ReadyMsgs` extend `MessageBuffer`, and all three
implement `BoundedFifo` through an `INSTANCE ... WITH` mapping. `Locomotion` extends `Pwm`
and is its only user, so that the driver's calls come in the order the modules make them.
`Nodes_proofs` and `Transport_proofs` extend several components at once, so three of them carry
their names in those of their initial states, steps and specifications
(`RetransmitterInit`, `LocomotionSpec`, `DescriptorNext`).
`Kernel` justifies what the other modules assume of it: that a wake-up is neither lost nor
left over, and that a task is preempted only by one of higher priority.

### MessageBuffer

A pointer into the array is its index. `Put` stores at `tail`, steps `tail` down and,
if it meets `head`, moves `head` down by one **without** wrapping: index -1 is a state
the ring really gets into, and `ReadHead` then returns `Outside`, a value that stands
for the memory in front of the array. `Pop` steps `head` down and wraps it. The member
`is_full` is left out: `put` clears it in the call that sets it and `pop` clears it,
so no call ever begins with it set. `length()` is called by no code.

### PublishQueue

One task, so each call is a step: `Publish` (put), `BeginSpin`, `TakeNext` (the pop in
`get_next_message`, which asks `is_empty` first) and `EndSpin`. Messages are numbered
as they are published; `newest`, `strays`, `broken` and `recovered` are ghosts.

### CanReceive

`Interrupt` is one step (the handler runs to its end on the one core); the can_wait
task runs one statement at a time: wait, receive the signal, lock, load
`*buffer_head`, decrement, wrap, compute `more`, unlock, dispatch. `ClearEvent` and
`HandleEvent` are the kernel's two steps between which an interrupt may fall; no task
runs while the kernel is in the middle. `Subscribe`, `Ready` and `PublishHandle` are
the three points of `NodeHandle::init` at which another party can see a change.
`DispatchReset` is the controller's reset command: it restarts the processor, and the
ring's memory may or may not survive, since nothing initialises it. `Arrive`, the
frames from the bus, is external.

Left out: the handler's status-interrupt branch, which sets an error flag the receive
path does not read. Frames are numbered in the order the handler reads them; how
that differs from the order of their arrival is the subject of `CanObjects`, and what
becomes of a message whose packets come again or late that of `Transport`.

### CanObjects

`Arrive` is the controller, external: a frame goes into the lowest-numbered empty object
that accepts its topic; an object that does not continue a queue (no `MSG_OBJ_FIFO`) is
overwritten. `Interrupt` is `ros_can_interupt_handler`, which asks the controller for the
object (`IntStatus`: the lowest-numbered with a frame), tests it and empties it.
`Subscribe` is `subscribe_can` with its bump pointer. `Unsubscribe` does what the code does:
`Subscriber::unsubscribe` hands `unsubscribe_can` the topic's id where the object's index is
expected, so that it clears an object that has nothing to do with the topic and may take the
pointer back; no module of the repository unsubscribes, and what the safety properties say of
the objects' contents is about the time before. A topic's id is any number of seven bits, as the
controlling computer assigns it; the topic 0 counts as none and is not unsubscribed.

Neither call looks at the table's size. `overrun` says which one has written past it: a
subscription too many, or an unsubscribe of a topic whose id is `OBJECTS` or more. There the
model stops, since what is overwritten is memory of the program; `SubscriptionsApart` says when
it may come to that. `read`, `refilled` and `unsubscribed` are ghosts.

### Transport

Per node a publisher (`Send` is one call of `get_next_message` and the send), at most
one packet in the controller, and one subscriber with its construction slots. A packet
has the header's fields and, for the properties only, `piece`: which packet of which
message it really is, and whether it comes out of turn.

`Deliver` hands a packet to `receive_message` in its turn, and `Lose` is its loss on the way
into the subscriber. From then on the packet is in `past`, and `Stray` may hand it over:
*again*, because a stale signal makes the message loop pop an empty ring, which hands over
what its array holds (`NodeHandle.cpp:168`, `ReplayBounded`), or *late*, after a "loss",
because the interrupt handler reads the lowest message object and not the oldest
(`can_impl.cpp:117`, `OvertakesOnlyAfterRefill`). In the code a packet can come again only while
the ring's array still holds it, and late only while its object does; the model sets no limit to
its age, which allows more. `MaxStrays` bounds how many come. The one thing left out is what the
ring's array holds before its first frames: it is taken to be no packet of the topic.

A first packet that finds no free slot constructs a message at address `NULL`:
`halted'` is then either value, since whether the write faults depends on the build.
A message's byte size is a `uint8_t`, so lengths go from 0 to 31 packets; one of 0 goes out as
one packet with a size of 0. Initial `msg_num` is anything, as the member is not initialised
(`FirstNums` says what is tried). The subscriber's test of `from_node` reads messages under
construction, where `fill` has set it. `ShortMessages` (no
message of more than eight packets) is what `DeliveredWellFormed` needs: from the ninth
packet on a sequence number comes round again, and after losses a longer message may be
put together with a gap.

`DeliveredInOrder` compares the packets that *completed* two messages of a node, not the
messages: with enough losses the packets of one message can complete two, a slot that
waited since four messages ago and then its own. A message is `Belated` if one of its node
completed later, or by the same packet, was delivered before it; there are at most as many as
strays. A repeated packet of a message of one packet delivers it twice, so the bound is met.

`SlotsAccountedFor` bounds the slots in use by the nodes in the middle of a message, the
packets lost, and `owed`: the packets that a slot waits for which was begun by a stray, or by an
empty message, whose size of 0 is never reached. A repeated packet that begins nothing may be
taken for one of a later message, or clear the slots of its node: no slot more is in use, but the
message is lost, so `NothingMissing` is about behaviours with no packet out of turn.

### ReadyMsgs

`Complete` is can_wait's put, whole: it preempts the application task and is not preempted
by it. The application task goes through `call_callback`, `is_empty` and `pop` one access
to the ring at a time, with `reg` for what it has loaded; `CopyBegin` and `CopyEnd` are
the copying of the message, which allocates and may be preempted. The members are not
volatile, so the compiler may store `head` once or twice in `pop`: `Store` has both.
For this ring the memory in front of the array is the last construction slot, which
`Outside` stands for. `broken` marks a put that overwrites a message in the middle of a
pop, or takes `head` out of the array.

### Registration

The application task goes `Match`, `SendRequest`, `StoreSignal`, `SignalWait`,
`RunCallback` for each request: first the node's own registration, then the topics of its
publishers and subscribers, whose headers carry the node id it was given. A header is a
record of the fields that the filters compare, with the widths of the bit-fields:
`RegisterHeader`, `SubscribeHeader`, `AdvertiseHeader` are those of `do_register_node` and
the two `register_topic`; length and priority are outside the filters and left out, and
the sequence number is 0 in every response. `HandleFrame` is `match_message` in the
can_wait task, one step because that task preempts the other and not the reverse.
`Respond` and `RespondToStranger` are the controller, external: responses to other nodes
are on the same bus and must pass by if their headers differ. `Replay` is the stale frame that a pop of the
empty ring brings back (`CanReceive` shows that this happens, and bounds how many). The
frames that carry a topic's name count as one request. Element 0 of the promise buffer is
the only one the loops ever visit, so there is one promise.

Headers may collide: eight publishers of the gateway share three bits of hash, one of its
topics is registered twice, and two nodes' names may have one hash. `Alike(r)` is the set of
responses that carry the header request `r` waits for: its own, those to earlier requests with
the same header, and those to other nodes with it. `OwnAnswer` says that a request gets the id of
one of these and of nothing else, whatever comes back from the ring.

### Descriptor

`GenerateField` is one field of the generated `generate_block_impl`, `NextBlock` is
`get_next_block`, and each round of `decode_msg`'s loop is a step: `ReadLength`,
`ReadLowByte`, `ReadHighByte` (a length in one or in two packets) and `Copy`. A byte knows
where it was sent from, so that `InPlace` can compare it with where it was put; the
receiver looks only at its value, and only in a length. `Allocate` is
`override_with_new_bytes`. A message of more than 255 bytes, whose size does not fit its
`uint8_t`, is not sent. The packets of a message reach it one by one and in order; what
packets a message is put together from when they do not is `Transport`'s subject. What goes wrong is left out (see "Findings"):
arrays of elements wider than a byte (`OneByteElements`), and empty arrays that are not the
last field (`EmptyOnlyLast`).

### Kernel

The tasks are numbered by priority, 0 the highest. A kernel call runs with preemption
disabled, so it is one action up to the point where it yields: `Lock`, `Unlock`, `Sleep`,
`SignalWait`, `SignalSend`; `Resume` is the rest of a call that waited, when its task is
scheduled again. `Wait` is `signal_wait_set_blocked_on`: it sets the task's `blocked_on` to
the holder of the mutex (which lends the holder the waiter's priority), or to nobody, and
yields. `GetNext` is one round of `interrupt_event_get_next`, in SVC or PendSV: pending
events, the tick with the timers it expires, and `sched_get_next`, the walk along
`blocked_on` (`Walk`, a recursive function; a walk that has not ended after as many steps
as there are tasks never does). With nothing runnable the round is repeated, which is the
idle loop. `Tick` asks for a preemption, `RaiseEvent` (the CAN handler) does not: its event
is seen in the next round. A task signal, a mutex wake-up or an expired timer ask for one
(`Pended`).

Timers count the ticks that remain, so the wrap of the kernel's counter is abstracted
away. A tick that comes before the last one was processed is the kernel's fatal error and
excluded by `Tick`'s guard: no kernel call takes 10 ms. A periodic timer of the application
is a wake-up at any tick. `Resume` has the branch in which a task that was woken finds the
mutex taken again and goes back to the blocker its call began with. With two tasks, the most
that any module's `.prx` has, it is never reached (`NeverWaitsTwice`, proved), and neither with
three (checked); with four TLC reaches it. `MayLock` is the usage the repository
makes of the kernel: alloc before print, never the other way round. `held` is a ghost: the
mutexes the task believes it holds.

### Retransmitter

The on-board computer (external: `NextFrame`, `Arrive`) sends frames back to back, without
waiting for the acknowledgement. A byte that finds the FIFO full is lost. `WaitForMsg` reads
a byte and compares it with the next one of the start magic; a byte that breaks the match
is dropped, as in the code, even if it is the magic's first. `ReadBody` reads a byte of the
body, and `Publish` publishes the numbers, whatever the end magic is: the comparison is
commented out in the source. A number is one byte of the model and may
be any; with enough of them a frame holds whatever one of doubles can. `Numbers` are those TLC
tries. Bytes carry the frame and the place they
were sent at, for the properties.

The numbers are doubles of any bits, so one can complete a start magic whose own end was lost, or
hold the whole magic: a body is then read from the middle of a frame. `misled` counts such
starts. A number that holds the magic at the same place in every frame can keep the task out of
step for ever, so no bound in losses alone is true; `OneMorePerGap` counts the losses and the
false starts. `GarbledOnlyByLoss` needs no count: `upto` is where the last body ended if it was
as sent, and what is read behind it is the next frame unless bytes are missing.

`Topic` pairs the publishers with the topics the way `main` does, by an index that is one
too low for the swerve commands. `Turn` is the order in which `spin` empties the publishers'
buffers: from the head of the node's list, where `init` puts each publisher before those
initialised earlier, so the last is the first to send. `sent` are the commands of one frame as they
go out.

`MCRetransmitter` has the numbers: of two wheels, four bytes that begin with the magic's last
and end with its first, or that are the magic itself; and zeros for the run about topics.

### Pwm and Locomotion

`Pwm` has the registers (`prescale`, `load`, `width`, `invert`, `output`) and an action for
each call of the driver that changes them, with the integer arithmetic of the code and of
the library functions it calls: the period counter has 16 bits, the reload register holds
half of the period, the pulse is halved too, full duty is no pulse and an inverted output.
The arithmetic of the driver on doubles is exact here; its rounding is within the two
counts that the properties allow. The clock is any up to 80 MHz (`MaxClock`), the fastest
a TM4C123 can be set to; the modules set 50 MHz. The two writes of `pwm_set_duty` are one step: nothing
else writes the registers, and the glitch between them is shorter than a pulse.

`Locomotion` performs the set-up of the module call by call (`SetUp`, with `servo_init`
inlined) and then any commands. A swerve command is in radians: `angle_to_duty_pct` is the whole
way from there to the duty, `wheel_to_servo_angle`, the conversion to degrees in
`servo_write_rads`, and `servo_write`, with the product of their factors to two places. Left and
right differ in names only.

## Runs

| run | instance | shows |
|---|---|---|
| `publish_queue` | ring of 4, up to 10 messages between spins, 20 in all | bounded queue until an overrun and again after the next spin; never a message twice or out of order; one stray read per spin |
| `can_receive` | ring of 3, 2 message objects, 7 frames, the second a reset | the interleaved pop is a queue, no lost wake-up, at most a ring's worth of replay, the node comes to rest |
| `can_objects` | 3 topics (ids 3, 6 and 9), queues of 2 objects, a table of 8, up to 4 subscriptions, 3 frames of each topic | subscriptions keep to their objects, the table is left only by a subscription too many or by unsubscribing the id 9, loss only when the queue is full, overtaking only after a refill, every frame handled |
| `transport` | one node with five messages of 1-2 packets, one with an empty one or one of 7; 2 slots, 1 packet lost, 1 out of turn | deliveries well formed, in order but for one per packet out of turn, slots accounted for, nothing missing when every packet has its turn |
| `registration` | a node, a subscriber and three publishers, two of one truncated hash; four responses to other nodes, one of this node's hash; 2 replays | own answers as far as headers tell, filter follows the promise, a sleeping registration is woken |
| `registration_early` | the same | **violation**: an early response leaves the task asleep |
| `ready_msgs` | ring of 4, 10 messages completed | a bounded queue while no put overwrites a message in the middle of a pop; then messages may be lost or torn, never repeated or reordered; the ring is emptied and whole again |
| `descriptor` | packets of 3 bytes; every message of up to four fields: scalars of 1, 2, 4 bytes, byte arrays of 1, 2, 3, 5, an empty one only last | every byte in its place, every decoding ends, complete |
| `kernel` | 3 tasks, 2 nested mutexes, sleeps of a tick, an event, a periodic timer | mutual exclusion, wake-ups neither lost nor left over, no priority inversion, the scheduler ends, the highest task gets on |
| `retransmitter` | 2 wheels, numbers with bytes of the magic and the magic itself, a FIFO of 2, 4 frames, 2 runs of lost bytes | only losses garble a body; a run of losses costs the frames it hits and one more, and a false start one more again |
| `retransmitter_topics` | 4 wheels, a frame | **violation**: each swerve command goes out one topic too low |
| `locomotion` | the four pins, clock of 50 MHz, eight speeds and five angles | an enabled output has the period and the pulse last asked for |

### Properties

`PublishQueue`: `NextIsNewer`, `OneStrayPerSpin`, `SafeWithinCapacity`, `FifoSpec`.
`CanReceive`: `NoLostWakeup` (state of the ring against state of kernel and task),
`ReplayBounded`, `FifoSpec`, `ComesToRest`. `CanObjects`: `SubscriptionsApart`,
`LostOnlyWhenFull`, `OvertakesOnlyAfterRefill`, `AllAreHandled`. `Transport`:
`DeliveredWellFormed`, `DeliveredInOrder`, `SlotsAccountedFor`, `NothingMissing`.
`Registration`: `PlaceIsFree`, `OwnAnswer`, `FilterFollowsPromise`, `WokenOnceAsleep`.
`Descriptor`: `InPlace`, `Finishes`. `ReadyMsgs`: `GivenInOrder`, `FifoSpec`, `Drains`.
`Kernel`: `MutexViewsAgree`, `WakeUpsAreOwed`, `NoInversion`, `SchedulerEnds`,
`TopGoesOn`. `Retransmitter`: `GarbledOnlyByLoss`, `OneMorePerGap`. `Locomotion`:
`PeriodIsRight`, `PulseFollowsCommand`. Type invariants are `TypeOK`. Each is described
above its definition.

`BoundedFifo` has an escape clause: a queue put into when full, or popped when empty,
may *break*, and then promises nothing until it *restarts*, empty. Without the clause
the refinement is false: an overrun moves `head` out of the array. With it, it says
precisely when the code may stop being a queue, and that it becomes one again: after the
spin for a publisher, after a processor reset for the receive path, once it is found empty
for `ready_msgs`.

### Bounds, and why they are enough

* *Ring sizes 3 to 5.* Two is the least the code works with; three or four elements
  have a first, a last and a middle one, and the proofs cover the rest.
* *Ten messages between spins* on a ring of four overruns it twice over, so that
  `head` leaves the array and `tail` passes it again; *twenty in all* leaves room for a
  whole spin after the worst burst.
* *Seven frames* overrun a ring of 3 and two message objects, before and after a reset.
* *Three frames on queues of two objects*: a queue fills and loses one, or a frame comes into
  an object that was emptied early and overtakes. Of *four subscriptions* three fit, and the
  fourth, which needs an unsubscription of one of the three topics before it, may write past the
  table. Topic ids 3 and 6 are indices of objects of the first and of the third subscription, 9 is
  past the table.
* *Five messages* of one node: message numbers repeat after four, so the fifth is the
  first that a stale slot can mistake. *Seven packets* is the longest message that is
  delivered, and the *empty message* the one that never completes. *One loss and one packet out
  of turn* come in either order, so that both slots can leak, one by each, a lost packet
  can come late, and a packet can come again into the slot of a later message of its number;
  the proofs cover any number of both. That `msg_num` begins at 3 makes it wrap at once.
* *Five requests, four strangers and two replays*: a stale answer to one request may
  come during a later one, with a request in between; each kind of request has a
  stranger that differs from it in one field, the node's own has one of the same header, and two
  publishers have one truncated hash.
* *A `ready_msgs` of four and ten messages*: two puts of a full ring during one pop empty it,
  one more turns it over, and there are enough left to see it recover.
* *Packets of 3 bytes* against fields of one to five and lengths of two: a packet ends
  before, inside and after a length and a field, and a field spans up to three packets.
  *Four fields* put every kind of field after every other.
* *Three tasks and two mutexes*: a waiter, a holder and a task between them, and a chain in
  which the holder waits for another mutex. A sleep of one tick expires in any state of the
  others; the proofs cover longer ones.
* *A frame of twelve bytes and a FIFO of two*: a run of losses may begin and end anywhere in a
  frame and swallow one entirely; *four frames* leave one before and one after *two runs*. The
  *four numbers* of two wheels have room for the magic whole, and for its last byte and its
  first around anything else.
* *Speeds and angles*: neutral, both directions, the ends of the range of the duty, full
  duty, and beyond on both sides.

`Kernel` and `Locomotion` have no end and are checked for deadlock. The others stop when
their bound of messages, frames or requests is used up, or, in `Transport`, at a fault, and
have `CHECK_DEADLOCK FALSE`.

### Fairness

`CanReceive!Fairness` is weak fairness of each party. An enabled interrupt is taken.
The kernel processes events at every tick (10 ms), so a pending event is handled.
Nothing has a higher priority than can_wait. The application task runs whenever
can_wait is blocked or sleeping in its polling loop, and it is needed only for
start-up, during which can_wait polls with a sleep. In `Registration` the application
task has the processor when can_wait blocks, and the controller is assumed to answer
each request; no liveness is claimed of a request or a response that is lost, for
which the code has neither timeout nor retry. `Descriptor!FairSpec` says that a task in
the decoding loop goes on, `ReadyMsgs!FairSpec` that the application task calls `spin()`
again and again, as every module's main loop does. `CanObjects` has weak fairness of the
interrupt: the controller keeps it asserted while an object holds a frame, and the receive
lock is released again.

`Kernel!Fairness`: ticks keep coming; the processor finishes what the kernel has begun
(`KernelStep`: `PendSV`, `GetNext`, `Resume`); and a task that has a mutex releases it if
it runs again and again (strong fairness of `Unlock` for each mutex: the critical sections
are an allocation and the printing of a line, but they are preempted). `TopGoesOn` speaks of the behaviours in
which a task gets back to its own code again and again: interrupts that come faster than
the kernel handles them would leave the processor to no task.

## Findings

Two are violation runs, and quote the line they disagree with in `PROJECT.json`.

1. `registration_early`: a response handled before `wait()` stores its signal is not
   signalled (`CANPromise.cpp:68`), and the task sleeps for ever.
2. `retransmitter_topics`: the publishers of the swerve commands start at the topic of the
   last drive command (`modules/retransmitter`), so that each wheel's angle goes out on the topic
   before its own: the front left wheel's as the back right wheel's speed, just before that
   wheel's own speed, since the publisher initialised last sends first, the others' as
   other wheels' angles, and nothing goes out on the last topic. Besides, the swerve names in that table contain
   `_wheel_swerve_`, and the locomotion modules subscribe to names without `wheel_`.

The others were met while modelling. They follow from the models, whose actions do what the
code does there, and bound what is checked:

* `put` decrements `buffer_head` without wrapping it (`Message_Buffer.hpp:140`): `Size`
  messages published in one burst make `pop` read in front of the array. The escape clause of
  `BoundedFifo` and `SafeWithinCapacity` say when.
* After a loss a slot takes packets of the message four later (`Subscriber.cpp:90`), and a
  message made of two is delivered. `WellFormed` says what is still true of it.
* In special mode the publisher sends a sequence number one too high (`Publisher.cpp:96`):
  messages of eight packets or more never arrive, and from nine packets on their slots may
  be taken for other messages'. The run sends seven at most.
* An array's length is sent in elements (`msg_gen.py:541`) and read in bytes
  (`Message_Descriptor.cpp:61`): arrays of elements wider than a byte are torn.
* A message of no bytes goes out as one packet with a size of 0 (`Message.cpp:54`), never
  completes, and keeps its construction slot until its node sends the second packet of another
  message: `owed` counts what such a slot waits for.
* Nothing in `receive_message` (`Subscriber.cpp:74`) recognises a packet it has had. A frame that
  comes back from the ring may deliver a message of one packet again, begin a message that nobody
  sends, or drop the one its node is in the middle of. `DeliveredInOrder` and
  `SlotsAccountedFor` bound the harm of each.
* A byte FE in a number can complete a start magic whose own end was lost
  (`retransmitter.cpp:59`), and a body is published that no frame has. `OneMorePerGap` counts such
  starts.
* After an array of no elements the next field's bytes are read as its length again
  (`Message_Descriptor.cpp:58`).
* `Subscriber::unsubscribe` passes the topic's id for the object's (`Subscriber.cpp:69`): it
  clears an object of another topic, or for an id of 32 or more writes past the table.
* A subscription that no longer fits into the table of message objects writes past it
  (`can_impl.cpp:63`).
* Two topics of one truncated hash have requests and responses of one header
  (`Publisher.cpp:120`, whose comment says that the hash is cut to three bits), so a stale
  response to one may answer the other. `OwnAnswer` says that only such responses can.
* `adc_init_pins` configures the last step from `pins[num_pins]` (`adc.c:140`).

Known and not findings: a frame that arrives between wake-up and pop leaves a signal for
which the ring is empty, although the loop's comment doubts it (`NodeHandle.cpp:160`);
`ReplayBounded` bounds the old frames that are handed over again, and `ComesToRest` shows that
the ring recovers. What those frames do to a subscriber is the finding above on packets that
come again.

## Proofs

The assumptions are those named in the modules: `Size` is at least 2
(`SizeAssumption`), the bounds are natural numbers (`BurstAssumption`), and there is at
least one message object (`FramesAssumption`); those of `Registration`, `Transport`,
`Kernel`, `CanObjects`, `Retransmitter` and `Locomotion` give their constants their ranges,
and say that there are finitely many nodes and that topic ids have seven bits. The theorems hold for every value of the constants
that satisfies them, so for any number of messages.

Some theorems have a hypothesis more, each about what the modules send and each evaluated by
TLC for the instance that is run: `ShortMessages` and `NoSpecialMode` (messages of no more
packets than the sequence number counts), `OneByteElements` and `EmptyOnlyLast` (of the
arrays in a message). Without them these theorems are false or the code's behaviour is
undefined, as "Findings" and the sections on the modules say. One
theorem of `Kernel` is about at most two tasks.

**PublishQueue_proofs.** `Typing`, `OrderKept`, `StrayOnce`, `CapacityIsSafe` state
`TypeOK`, `NextIsNewer`, `OneStrayPerSpin` and `SafeWithinCapacity`.
`NextIsNewer` is not inductive: it looks only at the slot under `head`. The
strengthening speaks of *ages*: the slot `Age(t, i)` steps behind the tail was written
that many puts ago, so its message's number is known (`SlotsHoldTheirAge`; what puts and
pops do to ages is in `MessageBuffer_proofs`), and a
reader that continues at `head`, or at the upper end if `head` is outside, finds a
message younger than what it popped last (`ReaderIsBehind`). Every step ages all slots
alike or moves the reader to a younger one: also an overrun, which moves it one slot
down, or out of the array and from there to the upper end. `CountsAgree` relates the
messages in the ring to those published since the spin.

`QueueImplementsFifo` is the refinement: `Spec => FifoSpec`. Each step maps to a
step of `BoundedFifo` or to a stutter: a publish to `PutMessage`, or to `Break` when it
takes `head` out; a pop to `TakeMessage`, or to a stutter of a broken queue; the end of a
spin to `Restart` if the queue was broken. It rests on `MessageBuffer_proofs`, whose
lemmas say of any ring what `Put` and `Pop` do to the sequence it holds: `PopTakes`,
`PutAppends`, `PutDrops`.

**CanReceive_proofs.** `Typing`, `WakeupKept` (`NoLostWakeup`), `RingImplementsFifo`
(`FifoSpec`) and `ReplaysBounded` (`ReplayBounded`). The invariant of the first two
adds that the interrupt is masked exactly from the load to the unlock (`LockHeld`), that
`head` is at most one below the array outside the middle of a pop (`HeadInReach`), and
that `more` is still accurate when the lock is released (`MoreIsAccurate`): a frame that
arrives later raises its own event. The refinement needs one thing more,
that until the queue is broken `head` leaves the array only between the decrement and the
wrap (`RingHolds`); the load is the `TakeMessage`, the interrupt the `PutMessage` or the
`Break`, a reset the `Restart`. For `ReplayBounded` the invariant says that for some number
`g` the `g` youngest slots are in order, and newer than all popped as far as the reader has
not passed them, and that what has been replayed, together with what is left between the
reader and those slots, is at most `Size` (`ReplaysWithin`). A put makes `g` one more, a pop
of an empty ring makes it zero again; and only the first pop of a wake-up can find the ring
empty (`EmptyAtFirstOnly`).

**ReadyMsgs_proofs.** `InOrder` (`GivenInOrder`) and `RingImplementsFifo` (`FifoSpec`), for
every ring and every number of messages; `Torn` and `Outside` must not be messages
(`ReadyAssumption`). The argument is about ages again, but a put may come between the load
and the store of `head`, so the place that matters is not where `head` is but where the pop
after this one is going to read (`Ahead`): one below the loaded cursor, or one below `head`
while it has still to be loaded. The slot there is empty or newer than the message in hand
(`ReadsForward`): a put keeps a slot as new as it was or makes it the newest, and moves
`head` to newer ones only. The refinement adds that, until the queue is broken, the pop has
the head of the ring in hand (`PopHolds`).

**Nodes_proofs, Registration.** `AnswersAreOwn`, `PlaceStaysFree`, `FilterFollows`, for any
topics, hashes, strangers and number of replays, collisions included. The first is the promise of
the whole exchange. None of the three is inductive. `Contents` says that whatever
is on its way is an answer to one of the node's requests or a stranger's, and that the
buffered header and message come from those sets; `Progress` ties the task's place to
the promise: while it is in the buffer it expects the header of the *current*
request's response, and once it is out, its message is one of those `Alike` until the task has read
it. `HeaderTells` turns agreement in the compared fields into equality of headers, as there are no
other fields. The headers of the later requests carry the node id, which is whatever answer the
first request got: it changes only while that request is the last one made, so that neither a
header on its way nor what is `Alike` ever changes (`HeadersStay`, `AlikeStays`, `AskedStay`).

**Nodes_proofs, Retransmitter.** `NoFalseStart` (`GarbledOnlyByLoss`) and `OneFramePerGap`
(`OneMorePerGap`), for any number of wheels, any numbers, any FIFO, and any number of frames and
of losses. Every byte has a `Position` in the stream of frames; those in the FIFO and those the
task has read of its frame lie in order of sending (`InOrderOfSending`), so bytes with the
positions of a whole body are that body (`BodiesAreTrue`). For a body read behind one that was as
sent, `AfterTheLast` says that all that is held or read lies behind it; a matched magic ends with
an FE, which is none of a frame's first three bytes and not its last (`MagicEnds`,
`StartIsByte`), so that a body that begins elsewhere than the next frame's ends beyond it.

`OneMorePerGap` compares the frames that were not published with the runs of lost
bytes and the false starts, and needs an account (`Paid`): the frames missed so far, those the
task will miss because of bytes lost or a false start taken already (`Debt`: two for a false start
in a frame whose true one it has missed, `Trailing`), and the interruptions still in the FIFO,
before the task (`Holes`), are together at most the runs of losses and the false starts. A step of
the task reads a byte and may turn a hole into a debt or a debt into a missed frame, never one
into two (`HolesShrink`, `WaitAccounts`, `BodyAccounts`, `PublishAccounts`); a byte that arrives
behind a loss is a new hole and a new run. That the task pays for no frame twice is `Consumed` and
`CutShort`: it takes its frames in order, and one that has lost a byte is hit by a run
(`LostIsHit`).

**Nodes_proofs, Locomotion.** `LocomotionTyping`, `PeriodsAreRight` (`PeriodIsRight`) and
`PulsesFollowCommands` (`PulseFollowsCommand`), for any clock up to `MaxClock`, any speeds
and any angles. The invariant (`AsSetUp`) says that the registers
are what the calls of the set-up made so far have left, the period of a pair once it is set and no
output before that, which rests on the order of the calls (`CallsComeInOrder`), and that a
pulse is the one the last command asked for (`PulseIsSet`). The rest is integer arithmetic, with the rounding of each
division bounded: the reload value fits into 16 bits (`Fits`), which is where the clock's
bound and the prescaler of 64 come in, and the period is off by less than two counts.

**Transport_proofs.** `Typing`, `InOrder` (`DeliveredInOrder`) and `WellFormedness`
(`DeliveredWellFormed`, assuming `ShortMessages`), for any number of nodes, slots, messages,
losses and packets out of turn. Neither of the last two says anything about the slots, where messages are put together, so
neither is inductive. `TxOK` ties the waiting packet of a node to its publisher, which has
not gone on since, and `PastOK` says of every packet that may come again that its node has made it,
whenever that was (`Valid`); `SlotsOK` says of every message under construction that its packets are of
one node, that the k-th has sequence number k - 1, that there are fewer than eight of them
(the ninth would need a sequence number that does not exist), and that the messages they
come from have numbers *congruent* to the slot's: the difference of ids and the difference of
message numbers agree modulo four, which every new message of the publisher preserves
(`NextIsCongruent`). `HasCome` says that what completed a delivered message is a packet
its publisher has left behind, so a packet in its turn is later than all of them (`HasTurn`), and
only one out of turn can complete a message late (`OneDelivered`).
`ReceiveReceives` is the whole of `receive_message` in one fact: slots are kept or dropped, and
at most one message has taken up the packet. Which of the free or fitting slots it is
plays no part: `IsFirst` is never expanded.

`SlotsDoNotLeak` (`SlotsAccountedFor`, assuming `ShortMessages`) bounds the slots in use by the
nodes in the middle of a message, the packets lost, and what strays and empty messages were promised. The
invariant (`Books`) looks at the packets each slot still waits for (up to `End`, which an empty
message puts at the last sequence number). Those that the node's current message will bring need no account if
that message has begun the slot in its turn (`Own`); the others are missed (`Missed`), and there
are no more of them than packets lost and owed (`AllAccountedFor`): a packet in its turn is waited
for in one slot at most (`OneBegun`), so its loss adds one, and what a stray or an empty message
begins is owed all it waits for (`BegunIsPromised`). A packet can drop the slots of its node, begin
one or extend one (`Drops`, `Begins`, `Extends`), and only the last two have to be paid for. `BooksCount`
turns packets into slots: each slot in use misses one, or is its node's own.

`NoMessageMissing` (`NothingMissing`, assuming `NoSpecialMode`) follows from `Arrives`: while
nothing is lost, out of turn or empty (`Roomy`), every node's packets are in the one slot it has,
in order (`OnTime`), so that the last completes it (`WhatArrives`).

**Transport_proofs, Descriptor.** `BytesStayInPlace` (`InPlace`, assuming `OneByteElements` and
`EmptyOnlyLast`), for any number of fields, packets of any size, and any lengths. About
the block the invariant says (`LaidOut`) that a byte's own account of itself is true, that the rest of a field
follows each of its bytes (`Runs`) and the first byte of the next field its last
(`Turns`): laying out one field more preserves this, and no sum over fields is needed. About
the receiver it says that the next byte to be decoded, in this packet or the next, is the
one the descriptor expects (`Expected`): the first or second of a length while the field is
an array whose length has not been read, else the one behind those in memory.

**Kernel_proofs.** `Typing`, `NoWakeUpIsLost` (`WakeUpsAreOwed`) and `MutexesExclude`
(`HoldersAgree` and `WaiterKnowsHolder`), for any number of tasks and mutexes, any sleeps,
any interrupts. The invariant `IInv` is the conjunction of these with `WaitsProperly`: only a
task in `mutex_lock` is a waiter, and it knows the mutex it asked for. What the scheduler
chooses plays no part in it: mutual exclusion and wake-ups do not depend on priorities.

`TheSchedulerEnds` (`SchedulerEnds`) and `NoPriorityIsInverted` (`NoInversion`) rest on a
second invariant, `Orderly`, with three parts. `LockOrder`: a task waits only for a mutex
above all it holds, and holds none while it waits for anything else; it is `MayLock`, kept
through all interleavings. `LendsNothing`: a task that sleeps or waits for a signal lends its
priority to nobody. `Chosen`: unless a preemption is due, the scheduler would choose the
running task again. By `LockOrder` each step of a walk along `blocked_on` goes to the
holder of a higher mutex, so that it visits no task twice and ends within as many steps as there are tasks.
The library's induction rule is out of reach; the argument takes the least number of
steps for which it fails. That the walks of two maps agree where the scheduler starts one
(`WalksAgree`) is the link between `Chosen`, which is about `blocked_on`, and `NoInversion`,
which is about who holds what.

`ViewsAgreeBetweenTwo` is `MutexViewsAgree` whole, with `NeverWaitsTwice`, for at most two
tasks, the most that any `.prx` of the repository declares. A task that waits for a mutex is
the upper one, and from its release to its return nobody else takes that mutex, because the lower one
does not run (`TwoTasks`, `LowerRuns`). It is false of four tasks, where a task between
them can take the mutex first; the other two views, and `NoPriorityIsInverted`, hold
there too.

**CanObjects_proofs.** `Typing`, `ObjectsAreOwned` (`SubscriptionsApart`) and
`OrderWithoutRefill` (`OvertakesOnlyAfterRefill`), for any topic ids of seven bits, queues and
table, until a call has written past it. That
the bump pointer keeps its range in any order of calls needs a count (`PointerMoves`): a
subscription moves it on by the length of a queue (`OneMore`), and an unsubscription, which comes only
after a subscription of its own, back by one object at most. From this count it follows when a
subscription can be the one too many (`Overruns`). For the order, the
invariant says that frames are where their topic's objects are, chained to the last
(`Layout`, `Chained`), that they are numbered below the next to come (`Numbered`), that the
filled objects of a queue from which none was read are the first ones (`FrontFilled`), and
that until a refill the frames of a queue are in order (`InOrder`). `LossNeedsAFullQueue`
(`LostOnlyWhenFull`) adds that the controller puts a frame into the first free object of its
chain: a set of objects has a least one (`LeastNat`), so a frame that found none
found every object of its queue full.

**Only model-checked.** Liveness (`ComesToRest`, `WokenOnceAsleep`, `Finishes`, `Drains`,
`TopGoesOn`, `AllAreHandled`), which the prover does not do under fairness.
`NeverWaitsTwice` for three tasks: it holds in the run, by an argument about what three tasks
can do, and no module has three.

## Not modelled

* *Of the modelled parts.* `is_full` and `length()` of a ring, and the status interrupt, for
  the reasons above. What the ring of incoming frames holds before its first frame, and what a
  write past the table of message objects overwrites. More than one topic per subscriber: a subscriber has one. In `Transport`,
  the bytes of a message: a packet is a model value there, and `Descriptor` has the bytes. The
  frames that carry a topic's name (`send_string`), one request in `Registration`: they are
  sent one after the other by one task, and the receiver is not part of the repository.
* *Of the kernel.* Semaphores and `mutex_lock_timeout`: no module uses them.
  The fatal-error checks: their conditions are guards or never hold.
* *Dynamic memory.* `alloc.cpp` is a mutex around TLSF, which is third-party; the
  mutex is in `Kernel`. Who frees a message's memory is decided by copy constructors and
  destructors that the compiler calls, whose number depends on which copies it elides.
* *ADC and voltmeter.* What `adc_init_pins` sets the sequencer to is read past the end of the
  array it is given, so it is not determined by the program; what remains of the driver
  is a copy of the samples in the interrupt and a callback.
* *Message lists, logging, time, SPSC queue, vendored libraries, bench programs*: no
  behaviour of their own, third-party, or not part of the rover.

The vendored drivers and libraries make up nearly all of the repository's lines, so the lines the
models stand for are a small share of them all; of the rover's own library they are most.

## What could come next

In order of weight: a `MessageOwnership` module for message memory, once the
copies a build makes are fixed; and `Registration` composed with `CanObjects`, so that a
response also needs an object to come into.
