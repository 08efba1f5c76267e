# ROS2-Bridge: a TLA+ verification project

This directory models the control logic of the ROS2-Bridge firmware (a Zephyr
application for the W6100-EVB-Pico, RP2040, that connects GPIO, RC and E-Stop
hardware to ROS 2 over micro-ROS and Ethernet) and of the host node that drives
the robot from it. Paths are relative to the repository. Everything here is
translated from the C and Python sources; documents are used only to find out
what the code is expected to do.

- `*.tla` without suffix: models. `MC*.tla`: small instances. `*_proofs.tla`:
  theorems. `*.cfg`: TLC configurations. `PROJECT.json`: which definition stands
  for which lines, which run checks what, the hazards and the findings.
- `tlc -config X.cfg M` checks a model, `tlapm M_proofs.tla` its theorems.

## 1. Inventory

### The system

One board runs one firmware image, an application of `apps/` on top of
`common/src`. Its main thread boots (USB, configuration, network), then loops
for ever in `bridge_run` (`main.c:390-480`): look for the micro-ROS agent, open a
session, spin, clean up. Beside the main thread there are the GPIO interrupts,
the network management thread, the Ethernet driver's threads and the USB shell
thread. The RP2040 build uses one core. On the host, the agent relays to ROS 2,
where `rc_teleop_node.py` turns RC sticks into velocity commands.

```
 pins --irq--> drv_gpio --> channel_manager <--> rcl entities <--UDP--> agent <--> ROS 2
                              ^     ^                                          |
 shell thread --> config -----+     +-- main.c: bridge_run, watchdog           v
 Ethernet driver --> net_mgmt thread --> main.c: apply_network_config    rc_teleop_node.py
```

### Components

| Component | State | Operations | Hard behaviour | What makes it correct |
|---|---|---|---|---|
| Channel manager (`bridge/channel_manager.c`, `drivers/drv_gpio.c`, the channels in `apps/*/src`) | `states[]`: entity flags, `irq_pending`, `last_publish_ms`, parameters; per pin `last_irq_ms` | ISR, `signal_irq`, `handle_irq_pending`, `publish`, `sub_callback`, create/destroy/add entities | interrupts between any two steps of the loop; debounce; stale `now`; lost publishes; session loss with work pending | no accepted edge is lost; the heartbeat gap is bounded; the host converges to the input; commands are applied |
| Session and reconnection (`main.c:290-480`, `diagnostics.c`, `service_manager.c`) | static rcl structs, `session_active`, LED, executor handles | search, `ros_session_init` with its error paths, run, `ros_session_fini` | any call fails, the agent leaves at any point, cleanup order | parents outlive children; nothing left behind; always finds its way back |
| Watchdog (`main.c:43-91` and every feed) | time since the last feed | feed, all blocking stretches of the main thread | delays and library timeouts that add up between two feeds | no reset while the bridge makes progress |
| Network bring-up (`main.c:93-281`) | semaphore, callback struct, DHCP client | link wait, DHCP wait | events delivered late, by another thread, to whichever callback is registered | boot never hangs; a lease in time is not missed |
| RC teleoperation (`host_ws/src/roboclaw_tcp_adapter/.../rc_teleop_node.py`) | sticks, mode, E-Stop, last twist | four callbacks, timer, shutdown | order of callbacks; RC board silent; topic shared with navigation | hand-over leaves the robot stopped; E-Stop wins |
| Configuration store (`config/config.c`) | `g_config`, `config.json` | init, load, save, set, reset | partial files, failed saves, the shell thread overtaken by main's load | what a save reported is what later boots load; the table never overflows; no channel is listed twice |
| Shell (`shell/shell_cmd.c`) | none of its own | `bridge config/reboot/bootsel` | runs beside main without a lock | see configuration |
| Parameter server (`bridge/param_server.c`, `config_channel_params_*`) | `ch_params.json` | load into `states[]`; the server itself is never initialised | unchecked values in the file | the limits of the callback hold for the file too |
| Services (`bridge/service_manager.c`) | service table | init, fini, two request callbacks | no application registers one | creation and destruction as any entity |
| RC input (`drivers/drv_pwm_in.c`, `apps/rc/src/rc.c`) | edge times, pulse, `last_update_ms`, smoothing | ISR, `rc_pwm_valid`, `rc_pwm_get`, `rc_normalize` | 64-bit time read in halves, edges served late, unsigned trims, filter state that outlives its stick | a silent channel reads neutral; output within [-1, 1] and between the measured positions |
| W6100 driver (`modules/w6100_driver`) | receive ring and transmit memory in the chip, interrupt bits, two semaphores, link state | initialise, start, send, receive, link poll, interrupt thread | edges that coalesce, bits set while others are cleared, transmit timeouts, no buffers, wrapping pointers, link flaps | no interrupt or completion is lost; frames come up whole, once and in order; the link is reported |
| Upload tool (`tools/upload_config.py`) | errors, whether it lost the port | set keys one by one, save, verify, reboot, reconnect | the board restarts half way; success told by a text | a configuration is saved whole, or the exit code says so |
| ADC driver, pedal board, diagnostics payload | none or constants | one read; one constant heartbeat; formatting | none | - |
| `host_ws/install`, `host_ws/log`, `docker`, `docs`, `examples` | - | build output, containers, documents | - | - |

The hazards of each, at their lines, with the properties that cover them, are
in `PROJECT.json`.

## 2. What is modelled

### ChannelManager (with MCChannelManager, SampledTopic)

One module for the channel manager, the GPIO driver and the Phase 3 loop,
because the hazards are between them. Three actors interleave: the pins with
their interrupt handlers, the main thread, and the host.

| Code | Model |
|---|---|
| `gpio_pin`, `gpio_isr_handler` (`drv_gpio.c:12-37`) | `PinChange`, `latched`, `Isr` with `Accepted` (leading-edge debounce) |
| `channel_manager_signal_irq` | `Signalled`, called by `Isr` |
| `channel_manager_create_entities`, `add_subs_to_executor`, `destroy_entities` | `CreateEntities(pub, sub, m)`, `DestroyEntities` |
| `channel_manager_handle_irq_pending` | `HandleIrqPending`, one registry index per step; the bit is cleared before the read |
| `channel_manager_publish` | `PeriodicPublish`, one index per step |
| `perform_channel_publish`, `estop_read`, `mode_read`, `okgo_btn_read`, `gpio_out` reads | `ReadPin` (one pin per step), `Publish(delivered)` |
| `rclc_executor_spin_some`, `sub_callback` | `Spin`, `Written` |
| Phase 3 loop (`main.c:436-463`) | the order `irq -> spin -> pub -> ping` of `at` |

An interrupt is atomic (one core) but may come between any two steps. `Tick`
is time: only elapsed times the code compares are kept (`sinceIrq`, `sincePub`),
saturating where the code cannot tell values apart any more; `age` is how old
the `now` is that the thread took at the start of its half pass. Abstracted: the
value of messages (a Boolean, or 0..2 for the mode selector), topic names, and of
the samples waiting for a subscription all but the last. `owed` is a history
variable: an interrupt was accepted and no read of the channel has begun since.
`ch_params.json` may set any of `ParamSet` at boot; the setters of
`channel_manager.c:368-411` have no caller in any application.

`SampledTopic` is the abstract specification of a sensor topic: a value reaches
the host only if the input had it at one instant, values arrive in order, and a
sample may be lost. The `estop` channel implements it. The two-pin channels do
not: see the end of section 5. `MCChannelManager` has two boards in one run, an
`estop` and a `gpio` channel, of which one is alive, and of its three boot-time
oddities (disabled, inverted, interrupt not configured) at most one.

### BridgeSession

`bridge_run` phase by phase, `ros_session_init` call by call with success and
failure of each (`SupportInit(ok)`, `NodeInit(ok)`, ...), `ros_session_fini` in its
order. `live` is the set of objects that exist, `dirty` the static structs that are
not zero, `handles`/`capacity` the executor. The agent changes between any two
steps; `known` says whether the agent process still holds this session, which the
ping does not tell. `rclc_support_init` on a struct that is not zeroed fails, as
the comment at `main.c:296-303` says; micro-ROS itself is external.

### NetworkBringup

The two waits of `apply_network_config`, the single semaphore (limit 1) and the single
callback struct they share, and the network: link changes, leases, and events that
are raised at one time and delivered at another.

### Watchdog (with WatchdogTimes)

Every stretch of the main thread between two calls of `watchdog_feed`: `Fed` starts
with a feed, `Unfed` does not. Durations are constants; those with a value in the
source carry its name, the others bound library code. `WatchdogTimes` holds the
constants, their budget and `NoReset`.

### BootSequence

`main` from reset to the bridge loop: `NetworkBringup` and `Watchdog` in step. An
action of the boot thread that takes time is one of both modules (`WaitForLink` is
`W!LinkSlice` with `LinkTake` or `LinkTimeout`); the others take none. `Restart` is the
watchdog, once it is due, or `bridge reboot`. On the way the MAC address is chosen
(`apply_mac_address`: the configuration's, else the device id's, else the
devicetree's) and kept in three places: the driver, the chip, the interface.

### EthernetW6100 (with MCEthernetW6100, FrameQueue)

| Code (`eth_w6100.c`) | Model |
|---|---|
| chip: socket 0 in MACRAW mode | `Receive(f)`, `Transmitted`, `PhyChanges`; `mem`, `wr`, `rd` are the ring and its free-running pointers, `ir` the interrupt register (external) |
| `w6100_gpio_callback` | `Raise`: `int_sem` is given when the pin falls, so only if no bit was set before |
| `w6100_init`, `w6100_iface_init`, `w6100_hw_start` | `Init`, `IfaceInit`, `HwOpen`, `HwUnmask`: frames arrive between open and unmask |
| `w6100_thread`, `w6100_update_link_status` | `Wake`, `Monitor` (500 ms without interrupt), `ReadIr`, `ClearIr`, `GiveTx`, `LeaveLoop`: reading and clearing the register are two SPI transfers |
| `w6100_rx`, `w6100_readbuf` | `RxBegins`, `Allocated`, `AllocFails`, `CopyFragment` with `ReadBuf` in two parts over the end of the ring, `Deliver`, `Release` |
| `w6100_tx` | `Send`, `TakeTx`, `TxTimeout` (10 ms) |

`FrameQueue` is the abstract specification: frames are handed up in the order they
came, whole, none twice; one may be refused. Assumed of the chip and the bus: a command is
accepted before the next SPI transfer; a frame is on the wire within 10 ms;
at a `RECV` command that leaves frames behind the chip sets the bit again (`Rearm`; the
theorems hold with and without, but `FrameAnnounced` speaks only of a chip that does). Assumed of the stack: it sends while the carrier is on,
one frame at a time. `starved` is a history variable: no buffer was found for the oldest
frame. `FrameAnnounced` is what the liveness of the receive side rests on: a frame in the ring has
its bit set, or the thread is on its way to it, or it was starved.

### RcTeleop

The node's subscriptions as bounded queues, its callbacks, timer and shutdown, the
RC board that may fall silent and the navigation stack that shares the topic. A
stick is zero or not; the mixing arithmetic is left out.

### RcPath

`RcTeleop` with what is in front of it: the transmitter that may be lost, and the RC
board, of which it keeps what `RcInput!NeutralWhenSilent` shows of each input, that
after `Failsafe` ticks without a pulse it publishes neutral only. The mode
switch is one of those inputs, so a lost transmitter also means ROS mode. `PathSpec` implements
`RcTeleop!Spec` (proved), so what is proved of the node holds behind the board too.

### ConfigStore

`config.c` between its two threads. Main has the higher priority: it may overtake the
shell between any two steps of a command, and the shell runs only while main sleeps
(waiting for USB, or after the boot). So `config_init` is atomic against the shell
except where main waits, and a shell command is not atomic against `config_init`.

| Code | Model |
|---|---|
| `config_init` | `MountFails`, `Mount`, `Load`, `LoadFails`, `MainOpens`, `MainWrites` |
| `config_set` of strings | `SetNode`, `SetSpace`, then `CopyEnds`: a copy that was overtaken may end as a mixture |
| `config_set` of channels | `SetChannel`, `SetTopic` look up, `EntryEnds` writes: to whatever is in the slot by then |
| `config_reset_defaults` | `ResetBegins` (memset), `ResetEnds` (field by field) |
| `config_save` from the shell | `SaveBegins` (text into the shared `cfg_io_buf`), `ShellOpens`, `ShellWrites` |
| `config_load`, `json_get_*`, `parse_channels` | `Parsed`, `Channels`: a part missing from the text keeps its old value, except that the channels start from zero |
| reboot, power loss, watchdog | `Restart`, between any two steps |

Texts are not spelled out: a text is the configuration it was made from and how many of
its four parts are whole. Kept of the configuration are the node name and namespace (the
validated strings), the channel table with names and flags, and `ema_alpha` (rounded to
two decimals by `%.2f`). The other strings and trims are handled the same way without
validation. Assumed of the file system (littlefs, external): opening creates an empty entry
if there is none; the new content replaces the old one at close; a write that failed or was
not closed leaves the old content. `promised` and `snap` are history variables: what the
last "Config saved" claimed. `raced` is one too: main ran `config_init` in the middle of a
channel's `set`.

### UploadConfig

`upload_config.py` as a client of `ConfigStore`: each of its steps that sends a command is
joined with the shell's first step (`UploadSpec` implements `ConfigStore!Spec`, proved), `Hear` waits for the answer, and `Disconnect` is a
restart of the board at any time, after which the tool goes through
`try_save_and_reboot`. One key of each kind the store tells apart. Assumed: a command ends
within the 1.5 s the tool waits for its answer.

### RcInput (with MCRcInput)

One input of the receiver, from the line to the published value; the six inputs share
nothing but the smoothing factor and the dead zone.

| Code | Model |
|---|---|
| the receiver's line, interrupt latency, both clocks | `LineChanges`, `Tick` (external) |
| `rc_pwm_init` | `Init` |
| `pwm_isr` | `Isr`: which edge it was is read from the level, `Rising`; the width is `since`, modulo `Wrap` |
| `rc_pwm_valid` | `ReadBegins` takes the time, `Verdicts` compares; a time stamp written in between (`torn`) may read as anything |
| `rc_pwm_get`, `rc_normalize` | `Centered`, `Reach`, `Norm` with the casts to 16 bit; `Smooth`; `ReadsNeutral`, `ReadsStick` |
| sessions, `bridge config set/load/reset` | `SessionChanges`, `TrimChanges` (to any of `TrimSet`, all zero among them) |

Values are integer parts of `One`, the 1.0 of the code; divisions round down. `width` and
`span` are history variables: the last pulse that was on the line, and the least and greatest
normalised position since the last reading that was neutral for want of pulses. Assumed: the
line stays at a level for longer than an interrupt waits, so no edge is merged with the next;
and it is never high for as long as the cycle counter takes to wrap (34 s). `ema_alpha` is
taken to be a number of at least 0.

### How they fit together

- `BootSequence` composes `NetworkBringup` and `Watchdog`. Its `Bridge` is the loop
  of which `BridgeSession` has the detail and `Watchdog` the durations.
- `RcPath` composes the transmitter, the board and `RcTeleop`; `RcInput` justifies its guard
  `RcBoard`, and its reads are `ChannelManager`'s periodic reads, at most `Period` apart.
- `UploadConfig` composes the tool with `ConfigStore`.
- `BridgeSession` refines what `ChannelManager` calls "down": any of its states outside
  Phase 3. `ChannelManager!CreateEntities` takes the result of `BridgeSession`'s
  `CreateEntity` and `AddSub` loop (a free subset of publishers and subscriptions, a prefix
  of the subscriptions as handles). They are kept apart because no property relates the
  state of the two beyond this interface.
- `EthernetW6100` is below all of it. What reaches the session from it is a link that
  may lose frames, which `BridgeSession` has as an agent that may not answer, and link
  events, which `NetworkBringup` has as events that come late.

## 3. Runs

Ticks of the channel manager are 25 ms: `DebounceMs = 2` is 50 ms, period 2 the
50 ms of the `estop` channel, `MaxLag = 1` bounds a half pass by 25 ms.

| Run (cfg) | Result | Shows |
|---|---|---|
| `ChannelManager` | pass | A board with an E-Stop and one with a bidirectional channel, each usual, disabled, inverted or without its interrupt, lossy publishes: `TypeOK` (the executor serves only subscriptions that exist), `NoAcceptedEdgeLost`, `HeartbeatGap`, `EstopIsSampled` (refinement), `HostConverges`, `EdgeIsServed`, `CommandApplied`, `CommandEchoed` |
| `BridgeSession` | pass | One publisher, two subscriptions, one service: object lifetimes, executor room, clean restart, and `SessionReturns` |
| `BridgeSession_restart` | violation | `LostSessionDetected` (TECHNICAL_OVERVIEW.md:1037) |
| `BootSequence` | pass | Two slices per wait, any link, lease and MAC setting, one reboot, durations in units of 400 ms: `TypeOK`, `CallbackScoped`, `LeaseNotMissed`, `NoReset`, `OneMac`, `BridgeRuns` |
| `EthernetW6100` | pass | Two frames of different length in a ring two of them nearly fill: `TypeOK`, `EventSeen`, `FrameAnnounced`, `CompletionNotLost`, `OneAhead`, `HandsUpInOrder` (refinement), `FramesMove`, `LinkIsReported` |
| `NetworkBringup_lease` | violation | `AssignedMeansLease` (the log line main.c:257) |
| `RcPath` | pass | One stick, queues of two, a transmitter that comes and goes: `TypeOK`, `HandsOverStopped`, `NavKeepsTopic`, `FollowsLastSamples`, `LostTransmitterStops` |
| `RcTeleop_silence` | violation | `SilenceStops` (rc_teleop_node.py:14) |
| `RcInput` | pass | One input with pulses of 1000 to 2000 us in ticks of 500 us and of other widths, jitter, dropouts, trims that change: `TypeOK`, `NeutralWhenSilent`, `WithinSpan`, `MeasuresPulses` |
| `ConfigStore` | pass | Three channels for a table of two, a name that is cut, a name that reads like a key, three `set`s, any number of saves, loads, resets and restarts: `TypeOK`, `UniqueChannels`, `PromiseKept` |
| `ConfigStore_flash` | violation | `BadNamesNeverReachFlash` (config.c:56) |
| `UploadConfig` | violation | `SavedMeansUploaded` (upload_config.py:5) |

### Bounds and why they are enough

- One live channel at a time (`NumChannels = 2`): the loops treat channels one after the
  other and share only `now`; with several live channels a pass is longer, which `MaxLag`
  stands for. The safety properties are proved for any number of channels. The three
  oddities never change and enter different guards, so one at a time reaches each.
- `MaxPeriod = 2`, `DebounceMs = 2`: large enough for an edge inside and outside
  of the debounce interval and for a period that is and is not due in a pass.
- `MaxLag = 1` is the bound a half pass must meet for the heartbeat to be bounded at
  all. It leaves out a pass blocked by the network stack for longer: the gap grows by
  that time.
- `SincePubCap` lies above every value `HeartbeatGap` or `Due` tells apart.
- `MaxReconnects = 2`: the counter only counts; it saturates.
- One stick and queues of two (ten in the code) already overflow; a second stick
  enters the twist exactly as the first.
- `CFG_MAX_CHANNELS = 2` (12 in the code) and three names reach the full table; `SureFits = 1`
  makes both kinds of configuration occur. In the code an entry takes at most 105 bytes of
  text and the rest at most 946 of the 1535, so five entries fit whatever the strings are.
- `MaxSets = 3` fills the table and tries one more; saves, loads, resets and restarts are not
  bounded.
- `RcInput`: a tick of 500 us for pulses of 2 to 4 ticks and one of latency; the cycle counter
  wraps at 12, the least its assumption allows. The time out (500 ms in the code) is 3 ticks and
  the period (20 or 50 ms) 2, so that a pulse, a dropout and two reads overlap in few states;
  the theorems hold for every value. `One = 2` gives the filter something to round, and the
  three trims are a smoothed one with a stick beyond its end, zeros, and one whose center
  exceeds 32767.
- Two slices per wait (30 and 20 in the code): a first, a last, and an event in each
  and between them. `MaxReboots = 1`: a second boot finds the state a restart leaves;
  resets by the watchdog are not bounded, there is just none.
- The boot run counts in units of 400 ms, in which the watchdog's 8000 ms are 20 and
  the library calls' times are the largest the budget allows. Times are rounded up.
- `RX_MEM = 7`, `Wrap = 14`, `Frag = 1`: frames of three and four cells, header
  included, fill the ring exactly, so a header, a frame and a pointer each wrap and a
  frame spans fragments. `SemLimit = 2` (UINT_MAX in the code): the limit is reached.
  `txq` and the semaphores need no bound; `OneAhead` is why.
- `Failsafe = 1`: only whether the time out has passed is compared.
- `UploadConfig`: three keys, one of each kind (a validated string, a channel, a number).

### Fairness and why the code justifies it

- `ChannelManager`: the main thread runs (`WF(Step)`): every call it makes returns;
  interrupts are delivered (`WF(Isr)`); time passes; and a publish that is repeated
  for ever is not lost for ever (`SF(Publish(TRUE))`), without which no telemetry
  property can hold. Nothing is assumed of the pins, the host or the session.
- `BridgeSession`: the main thread runs, and a library call that is made again and
  again on zeroed structs, with the agent there when the agent is needed, does not fail
  for ever. The agent is under no fairness; `SessionReturns` assumes `<>[]agent`.
- `BootSequence`: the main thread, whose `k_sem_take`s have timeouts, and that a watchdog
  that is due resets the board. Nothing of the network, so `BridgeRuns` holds without cable
  and without server.
- `EthernetW6100`: the driver's thread, which is cooperative and whose waits all have
  timeouts, and the boot that brings the interface up. Nothing of the chip's
  traffic, of the stack's senders, or of its memory: `FramesMove` and `LinkIsReported` name
  what they assume of them.
- `ConfigStore`, `UploadConfig`, `RcInput`: safety only, no fairness.
- `RcTeleop`, `RcPath`: the rclpy executor serves each ready callback and the timer fires;
  time passes, and of the heartbeats the RC board publishes, while it and its agent are there
  for good, not all are lost. Nothing of the other publishers.

## 4. Theorems

Proved with TLAPS for every value of the constants that satisfies the `ASSUME`s of
the modules. All proofs are hierarchical, one step per action.

| Theorem | States | Argument |
|---|---|---|
| `ChannelManager_proofs!TypeCorrect` | `Spec => []TypeOK` | `TypeOK` is inductive |
| `!EdgesKept` | `Spec => []NoAcceptedEdgeLost` | With `OwedHasPin` and `ReadsPublisher`: only a channel with pins is owed, and a bit is only cleared by the step that goes on to the read. That `IrqCapable` covers all channels with pins is what makes it inductive |
| `!HeartbeatBounded` | `Spec => []HeartbeatGap` | `GapInv` bounds `sincePub - age` separately for a channel that the current half pass has still to visit, has visited, or that waits for the next pass; `HeartbeatGap` alone does not say how old the missed check is and is not inductive |
| `!SettledValueIsKept` | `Spec => [][...]_vars` | the safety half of `HostConverges`: while pins and outputs are settled, a read in progress is in step with them (`InStep`), so no publish takes the right value from the host, each one brings it, and `InStep` lasts |
| `!NoCommandLost` | `Spec => [][...]_vars` | the safety half of `CommandApplied`: a command waits in a subscription that is served or has been applied, inverted as configured (`Commanded`), until another comes or the session ends |
| `!EstopRefines` | `Spec => EstopIsSampled` | The refinement mapping maps `sample` to `taken` between `ReadPin` and `Publish`; each step is a `Sample`, `Deliver`, `Lose` or `Change` |
| `BridgeSession_proofs!TypeCorrect`, `!ParentsOutlive`, `!CleanSearch`, `!LiveHandles`, `!RoomForAll` | its type and the four invariants | `LiveAt` says which objects may exist at each `pc`, `Status` ties LED and `session_active` to the phase, `HandlesAt` and `Room` relate handles, capacity and what is still to be added by cardinality |
| `Watchdog_proofs!NeverReset` | `Spec => []NoReset` | `Longest`: at each `pc`, `since` is at most the sum of the stretches since the last feed. It needs `Budget` |
| `BootSequence_proofs!TypeCorrect`, `!CallbackAlwaysScoped`, `!LeaseSeen` | the three invariants of `NetworkBringup` | `LeaseKept`: from delivery on, the semaphore is given or the wait has taken it |
| `!NetworkInBoot` | `BootSpec => []` of the same three | Every step of the boot is a step of `NetworkBringup` or none of it (`MainIsBringup`); a restart establishes its `Init` |
| `!BootNeverReset` | `BootSpec => []NoReset` | Every step is also a stretch of `Watchdog` or takes no time (`MainIsStretch`), so its bound (`WP`, an instance of `Watchdog_proofs`) is kept by the composition |
| `!SameMac` | `BootSpec => []OneMac` | `MacInv` adds that the address is still the devicetree's before the network is begun |
| `UploadConfig_proofs!TypeCorrect` | `Spec => []TypeOK` | `StoreInv`: whatever is in `g_config`, the buffer or the file is typed and within the table's size, so parsing one over another is too |
| `!ListedOnce` | `Spec => []UniqueChannels` | `UniqueInv` adds that a channel about to be added is not in the table (`Fresh`) and that texts and file are free of duplicates, which a later load would bring back |
| `!SaveSurvives` | `Spec => PromiseKept` | `Promise`: the file holds the promised text whole; main writes only after it withdrew the promise; a save in progress has the text of what it is about to promise, because main cannot touch the buffer while it is running |
| `!UploadIsStore`, `!UploadKeepsPromises` | `UploadSpec => Spec`, and the three above of `UploadSpec` | Each step of the tool or the board is one of the store or none. Assumed (`Uploadable`): the channel name and the number the tool sends are among those of the store |
| `RcInput_proofs!TypeCorrect` | `Spec => []TypeOK` | `NormType`: whatever wraps, the clamp comes last; `SmoothBetween`: the filter stays between any bounds of its inputs |
| `!SilenceIsNeutral` | `Spec => []NeutralWhenSilent` | `FreshInv`: a verdict in progress rests on a pulse no older than `seen` plus the time the read takes, a torn one on a pulse during the read; `NeutralWhenSilent` alone does not say how old the pulse behind a verdict is |
| `!NoOvershoot` | `Spec => []WithinSpan` | `SpanInv` puts the filter's state in the span whenever it is initialised, also while it publishes nothing of it |
| `!PulsesMeasured` | `Spec => MeasuresPulses` | an action property by `MeasureInv`: while the line is high the stored rise is that of this pulse, late by at most the latency (`Timed`), or was missed and the counter shows more than any accepted width and too little to wrap (`Untimed`); after the fall the same of the width (`Measured`). Only the pair is inductive, because a missed rise is told from a seen one by its width alone |
| `RcPath_proofs!TypeCorrect` | `Spec => []TypeOK` | with `ReceiveRoom`: a full subscription drops one sample for each it takes |
| `!StoppedHandover` | `Spec => []HandsOverStopped` | `HandoverInv` with the type of `node` |
| `!TopicIsNavs` | `Spec => NavKeepsTopic` | an action property: each step that takes the topic back is a change of mode, in RC mode, or the last |
| `!NewestIsFollowed` | `Spec => [][...]_vars` | the safety half of `FollowsLastSamples`: only another sample of a topic changes what was last sent there, whatever is dropped or taken (`SendIsLast`, `TakeKeepsLast`); while none comes, a node whose last twist follows what it and its queues hold (`Followed`) stays so through callbacks and timer |
| `!PathIsTeleop`, `!PathHandsOverStopped` | `PathSpec => Spec`, and the three above of `PathSpec` | The transmitter and the board only choose what is sent and when |
| `!RestIsKept` | `PathSpec => [](AtRest => ...) /\ [][...]_path` | the safety half of `LostTransmitterStops`: once no pulse has come for `Failsafe`, and node and queues know only neutral sticks, nothing moves the robot from the node's side and only the transmitter ends it |
| `EthernetW6100_proofs!TypeCorrect` | `Spec => []TypeOK` | `FrameInv` is `TypeOK`, `Ring` and `Copying`. The types need the ring: that what `Release` takes off is there, and what `CopyFragment` reads is a part of it |
| `!HandsUpTheQueue` | `Spec => HandsUpInOrder` | `Ring`: the stored frames lie header by header, without a gap, in the cells from `rd` to `wr`. Where each begins is a witness (`\E starts`), moved by one frame at `Release` and extended at `Receive`, so that no recursion over frames is needed. `Copying`: what is copied so far is a prefix of the oldest frame. Then `RxLen` is its length and each fragment the next part of it, over both wraps |
| `!NoFrameStranded` | `Spec => []FrameAnnounced` | inductive relative to `FrameInv`: the thread leaves its receive loop when the pointers meet, and only `Ring` says that no frame is stored then. Of a chip that does not announce again (`Rearm` false) it says nothing |
| `!NoInterruptLost` | `Spec => []EventSeen` | conjunct of `IInv`; before the thread runs nothing is unmasked (`Startup`) |
| `!NoCompletionLost` | `Spec => []CompletionNotLost` | `Snapshot`: the bits the thread is about to clear are bits that are set |
| `!SendsOneAhead` | `Spec => []OneAhead` | `Conserved`: a frame on its way out, its bit, the bit in the thread's hand and the credit it becomes are at most one together, two while a sender waits. `OneAhead` alone says nothing of the credits |

`Budget` is worth reading by itself. With the constants of the source (watchdog
8000 ms, ping 200 ms, delays 2000 ms) it says that all library calls of
`ros_session_init`, the clean-up of a failed attempt included, must take less than
3800 ms together, and those of `ros_session_fini` less than 5800 ms. The
timeouts of the library are not in this repository; the theorem says what they have
to satisfy.

Those about `BootSpec`, `PathSpec` and `UploadSpec` are about compositions, the
first and the last under any number of restarts; the others are about the specification of one component. Every invariant and every
safety action property of the passing runs is stated by a theorem, and so are both refinements.

Only model-checked, because liveness under fairness (and `ENABLED`) is out of the prover's
reach: `HostConverges`, `EdgeIsServed`, `CommandApplied`, `CommandEchoed`, `SessionReturns`,
`BridgeRuns`, `FramesMove`, `LinkIsReported`, `FollowsLastSamples`, `LostTransmitterStops`. Of some,
what must never happen on the way is proved: of `HostConverges` `SettledValueIsKept`, of
`EdgeIsServed` `EdgesKept`, of `CommandApplied` `NoCommandLost`, of `FramesMove` `NoFrameStranded`
and `NoInterruptLost`, of `FollowsLastSamples` `NewestIsFollowed`, of `LostTransmitterStops`
`RestIsKept`. Each says that the state progress is made from cannot be lost; that progress is
made from it is TLC's part.

## 5. Findings

Where the code does not do what a document, a comment or a log line of the
repository says; each is a run that ends with a counterexample.

1. `main.c:447`: the ping does not tell whether the agent still knows the session; an
   agent that restarts within the ping interval leaves the bridge publishing to nobody.
2. `main.c:251`: the shared semaphore is not drained; a late IF_UP ends the DHCP wait
   and "IP address assigned" is logged without a lease.
3. `rc_teleop_node.py:142`: the sticks have no age; when RC input stops, the timer
   repeats the last position rather than zero.
4. `config.c:558`: config.c:56 wants no invalid node name in flash. Power lost in the first
   boot's save leaves an empty `config.json`; the next boot loads it over zeros without an
   error, and `bridge config save` then writes the empty name.

5. `upload_config.py:191`: after a restart of the board halfway the tool reconnects and saves
   without setting again what the restart forgot, and it takes any answer with "save" in it,
   `Save error` included, for success. Its exit code is 0 either way.

Seen while modelling, without a run:

- `okgo_btn.c:54`: the two contacts are sampled one after the other. README.md:678 promises
  TRUE only when both are active; contact A active, then released with B pressed between
  the samples, reads as both.
- `rc.c:84`: the filter is reset only by a reading without pulses. A dropout that falls into
  a lost session is not read, and the first values of the next session are mixed with the stick
  of the last one (`WithinSpan` counts them in).
- `rc.c:90`: `ema_alpha` below 0 or not a number is accepted by `config_set` and makes the filter
  diverge; zero freezes it at its first value.
- `drv_pwm_in.c:77`: within 500 ms of reset an input that never had a pulse counts as valid, with
  1500 us.
- `rc.c:52-65`: `max` below `center`, or a center beyond 32767, is accepted; the value stays in
  [-1, 1], but a full stick reads close to zero.

- `drv_gpio.c:26`: leading-edge debounce drops the edge that carries the final level, while
  `estop.c:53-58` promises an immediate publish of every change. The heartbeat repairs it
  (`HostConverges`).
- `config.c:36` says the buffer is "never concurrent". Before `config_init` the shell already
  takes commands, and main overtakes them: a save begun before it writes the text main left
  there. A `set` of a channel that is overtaken may list it twice or change another's flag
  (`raced` exempts this from `UniqueChannels`).
- `config.c:678-693`: a channel name of 32 characters or more is cut when it is stored but
  compared whole, so each `set` of it adds an entry; `UniqueChannels` exempts `CutName`. The
  `.topic` branch checks the length.
- `shell_cmd.c:53-82`: `-ENOMEM` of a full table falls through to "OK".
- `config.c:583-601`: a text longer than `cfg_io_buf` is saved cut and reported as saved.
  `PromiseKept` exempts it. The RC board with default topics stays below the limit.
- `config.c:818-824`: an unreadable `config.json`, not only a missing one, is replaced by the
  defaults (`config.h:71` speaks of a missing file).
- A node name that is also a key of the file, such as `namespace`, hides that key when the
  file is parsed. `PromiseKept` exempts it.
- `bridge config reset` clears everything before it writes the defaults; `rc_normalize` may
  see zero trims in between.

- `eth_w6100.c:184`: a frame for which no buffer is found within 100 ms is not dropped, as
  `Kconfig.w6100:35-41` says, but stays in the chip. It goes up at the next frame. When the
  ring is full by then no further frame is accepted and none gives an interrupt: the board
  stays deaf (`starved` in `FramesMove`).
- `eth_w6100.c:311`: the link is monitored after 500 ms without an interrupt, not every 500 ms
  (`Kconfig.w6100:43-50`); a change of speed, or a removal under an interrupt load, is seen
  late.
- `eth_w6100.c:153`: `-EIO` after a timeout is returned for a frame that is on the wire or
  will be.
- `eth_w6100.c:128` asserts that a frame fits behind the write pointer. If the chip's pointer
  runs freely, as that of the receive side does, the assertion fails after the first 16 KB or
  so sent; no build enables assertions. The transmit memory is not modelled beyond its frames.
- `eth_w6100.c:137`: the command register is written by the sender (SEND) and the thread
  (RECV) without a lock between them. The model assumes that a command is accepted before the
  other thread's transfer.
- `upload_config.py:207`: a disconnect during the save ends with exit code 0 even when
  reconnecting fails.

- `main.c:370` asks for reverse initialisation order, but the executor is destroyed
  after the channel entities whose handles it holds. Nothing spins in between.
- `main.c:217/235`: a link that comes up between `net_if_is_up` and the registration of
  the callback is noticed only after 15 s. Boot still goes on.
- `rc_teleop_node.py:15-16` says the E-Stop publishes zero "regardless of mode"; in ROS
  mode the node publishes nothing.
- TECHNICAL_OVERVIEW.md:43, 61, 447, 457, 734 and 1040 give 30 s for the watchdog;
  `main.c:43` has 8000 ms.
- README.md:710 says there is no firmware-level RC timeout; `drv_pwm_in.h` has 500 ms.

## 6. Not modelled, and why

- The host name (`main.c:205-214`): a pure conversion.
- Of the Ethernet driver: stopping the socket (nothing takes the interface down) and
  promiscuous mode (`CONFIG_NET_PROMISCUOUS_MODE` is not set).
- The request callbacks of services: no application registers one.
- The parameter server: never initialised, so nothing in a build writes
  `ch_params.json`. Its load is the free choice of `states` in `ChannelManager!Init`.
- Diagnostics payload, ADC, the pedal board's constant, the `test_*` channels: no state.
- Read errors of `gpio_pin_get_dt`: the RP2040 driver has none after configuration.
- micro-ROS, Zephyr, the agent: external, modelled by how the code uses them.
- `host_ws/install`, logs, containers, examples: no logic of this system.
- Of the configuration: topics, network strings, the individual trims.
- What items 10-12 below leave open.

## 7. Plan

In the order of importance; items 1-9 are done.

1. `ChannelManager`, `SampledTopic`: interrupts, publishing, session loss.
2. `BridgeSession`: lifetimes and reconnection.
3. `Watchdog`.
4. `NetworkBringup`.
5. `RcTeleop`.
6. `ConfigStore`: load, save, set and reset under restarts and the shell race.
7. `RcInput`: pulse capture, the 500 ms validity, normalisation and smoothing.
8. `EthernetW6100`, `FrameQueue`: interrupts, receive ring, transmit credits, link.
9. Compositions: `BootSequence`, `RcPath`, `UploadConfig`.
10. Services and their callbacks once an application registers one; then the composition of
    `BridgeSession` and `ChannelManager`.
11. The two-pin channels against a weaker abstract topic (a run of its own: `okgo` alone has
    more states than both boards together).
12. More proofs: the safety half of `CommandEchoed` and of `LinkIsReported`; what an upload that was
    not interrupted saves.

Runs are few on purpose, each a question of its own. A composition replaces the run of the
component it contains where it asks the same question.
