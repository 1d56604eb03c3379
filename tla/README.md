# Verification of the Zigbee air quality monitor

TLA+ models of the firmware in `src/` (application) as it runs on the Telink SDK
(`tl_zigbee_sdk/`), TLC configurations that check them on small instances, and
proofs, for every instance, of the safety properties of every component except the
link quality. Two components are shown to implement an abstract specification: the
SDK's timers the service they promise, and settings with relay control the relay
control over bands.

The firmware is one event loop on one core. `ev_main` polls the software timers,
then the idle task (`app_task`); the Zigbee stack runs callbacks from its task
queue. Every callback runs to completion, so **one action is one callback**, and
the concurrency is that of timers, callbacks, network commands and a finger on a
button, in any order. A timer callback returns -1 (do not run again), 0 (same
period) or a new period in milliseconds. The watchdog is not enabled.

## The parts of the system

| Part | State | Operations | Talks to |
|---|---|---|---|
| Attribute reporting (`zcl/zcl_reporting.c`) | reporting table, one shared one-shot timer, table in NV | `report_handler` (idle), `reportAttrTimerCb`, Configure Reporting, restore at boot | attributes written by all sensors; binding table; `app_task`'s condition |
| Button (`app_button.c`) | `app_button` | `button_handlerCb` every 20 ms; groups of 1 to 6 clicks, hold of 5 s | screen, reports, settings, pairing |
| Pairing (`zb_appCb.c`, `app_button.c`) | `net_steer_start`, `steerTimerEvt`, window timer, `bdbFindBindFlg` | hold, retries, find-and-bind, commissioning results, leave confirm | BDB of the stack, LED, screen |
| LED (`app_led.c`) | one timer, colour, remembered colour | blink, effect, stop | button, pairing, Identify, screen |
| Outdoor sensor (`app_sensors.c`) | record of one bound sensor, a two hour timer, three values | Report command, timer, Clear Bind | screen |
| Relay control (`app_sensors.c`) | `sw_onoff` | `proc_co2_voc_onoff` after each measurement | settings, sensors, the bound relay, which may not hear |
| Settings (`app_config.c`, `zcl_appCb.c`) | `config`, its NV copy, the ZCL attributes | write command, clicks, restore, exception | all the others |
| SCD40 (`app_scd4x.c`, `scd4x/`) | driver record, mode of the sensor, remembered pressure, error count | init/repair, measurement, forced calibration, factory reset | I2C, BME280's pressure, settings |
| Screen (`app_epd.c`) | remembered readings, image, timer, cleaning flag | update, forced update, unit change, clear icon | all readings, LED, button |
| Timers (`proj/os/ev_timer.c`) | a pool of 24 records, a list of those in use | schedule, cancel, one pass of the main loop | every part that waits; the system exception when the pool is empty |
| Clock (`app_time.c`) | local time attribute, `time_sent`, two timers | ask the hub, take its answer, count seconds | hub, screen, DS3231 |
| Lifetime (`app_time.c`) | counter in RAM, record in flash | count hours, save (erase, write), restore | resets of every kind |
| Link quality (`app_lqi.c`) | which router is asked, page index, row found, LQI | search, page, answer, timers | neighbour tables of other routers, screen |
| Measurement chain (`app_sensors.c`) | timer, period | posts the sensors' tasks | sensors |
| SGP40, BH1750, BME280 | driver state, gas index | measure, convert | attributes |
| Sound (`app_sound.c`) | one timer | start, effect | Identify, screen |

Hard behaviour, part by part, is in `PROJECT.json` under `hazards`, at the line
where it bites.

## Modules

| Module | Code | What a state is, what an action is |
|---|---|---|
| `ReportTable` | `zcl_reporting.c`, one entry at a time | operators only: update, reset to default, due, reported, deadlines |
| `Reporting` | the reporting component | `tab`, `seconds`/`left` (the pending timer), `nv`, `bound`; `ReportHandler`, `TimerCb`, `CfgReportCmd`, `SetAttr`, `Restart`, `BindChange`, `GateChange`, and `Tick`, one second |
| `ReportFrames` | the do-while loop in `reportAttrs` | loop index, frame under construction, frames sent; one action per way through the loop body |
| `Pairing` | button hold, five clicks, window, retries, leave, Identify, LED; of `bdb.c` the states this device reaches | who is joined, what the stack is at (`bdb`) and was asked for last (`mode`), the timers as "fires in", what the LED plays and shows; one action per callback of a timer, of the stack or of the button, and `BdbTask`, the task that starts what was asked for |
| `Button` | `button_handlerCb` | `app_button`, the pin; one action per poll: the finger stays or moves |
| `OutsideSensor` | bound outdoor sensor | table, whose reading each variable holds, the timer and timers that lost their handle |
| `OnOffControl` | `proc_co2_voc_onoff` | band of each gas, enabling settings, `sw_onoff`, the relay; the handler, with its command arriving or lost |
| `Settings` | `app_config.c`, `app_zclWriteReqCmd`, clicks | `config`, `attr`, `nv`; one action per command or click |
| `AirControl` | both of these together | `Settings` extended by numeric readings and the variables of the handler; implements `OnOffControl` with the bands computed from readings and thresholds |
| `TimerService` | what `ev_timer.h` promises | which timers run, for whom, how long still, which the current pass has to call; a client stops what it has before it starts anew, unless it is one that may forget which timer it has; the abstract specification |
| `EvTimer` | `ev_timer.c`, `utlist.h` | records, list, `used_num`, handles, the walk (`timerEvt`, `prev_head`); one action per visit of a record, with its callback; `Forget`, the `memset` over a handle; implements `TimerService` |
| `Clock` | `app_time.c`, `app_zclReadRspCmd` | the clock as its difference to the true time, its timers, the answer under way; `Second` lets time pass |
| `Lifetime` | `app_time.c` | counter, the record in flash, and which half of a save is done |
| `Lqi` | `app_lqi.c` | the search, posted tasks, requests that may be answered, page timers, and the network's tables |
| `Scd4x` | `app_scd4x.c`, `scd4x.c` | sensor and driver as a record; an operator maps a state to the states one command, or a chain of them, may end in |
| `Screen` | `app_epd.c` | remembered readings, image, task queue, timers; update and forced update call each other: a stack of the calls under way, one action per call and return |

`<Module>Proofs` holds the theorems about a module. Three of them are about several:
`AirControlProofs` about `Settings` and `AirControl`, `ServicesProofs` about
`OutsideSensor`, `Clock` and `Lifetime`, and `DevicesProofs` about `Button`, `Scd4x` and
`Screen`. `MC<Module>` extends each with the values of its small instance. Definitions
named `Faulty...` are slips, one small change of the definition that follows
them, which the properties are shown to catch; no specification uses them. `MCServices`
runs `OutsideSensor`, `Lqi`, `Clock` and `Lifetime` together; they share no state
(the last three are timers of one loop), so each of its behaviours moves one of
them, and its states are the sum, not the product.

The modules compose where the code shares state. `AirControl` joins the settings
with the handler that reads them. `TimerService` is what all other modules take
for granted when they write "fires in": called when its time has come, not before,
once per pass, and stopped when it is stopped. `EvTimer` shows that the SDK's list
keeps to it although callbacks change the list under the walk.

`Reporting` takes the loop of `reportAttrs` as one step (`Reported` for all
entries at once). `ReportFrames` is what entitles it to: `OnePassEffect` says
that the loop, however many passes it takes, has just that effect. `Reported`
and `Due` are the same operators of `ReportTable` in both.

Observers (variables named so in the modules) only record: how long an entry has
been waiting, when the last reset was, whether the monitor restarted while the
relay was on. No guard of a modelled action reads one, except to keep it within its
bound.

## Runs

| Run | Question | Bounds, and why they are enough | States |
|---|---|---|---|
| `reporting_safety` | does the shared timer serve every entry on time, whatever hubs configure? | two attributes of two clusters, one slot free at the start; intervals up to 3 s so that one entry's deadline falls before, on and after the other's; records of every shape; observers saturate at `Cap` = 4, above every interval and two intervals apart for the throttled ones | 1.1 M, 2 min |
| `reporting_forever` | is a bound attribute reported again and again? | late binding, restarts and commands; one value, as only the maximum interval guarantees a report | 106 k |
| `frames_loop` | has the loop the effect of one look at the table? | four slots, three of one cluster (more than a frame holds) around one of another; seven situations of a slot, which are all that the code tells apart; every binding | 69 297 |
| `pairing_window` | are window, retries and LED consistent? | three presses: a reset, one that interrupts it, one more; two groups of five clicks, so that one meets what the other has left; one Identify; window of 4 ticks, delays of 1 or 2 ticks (5 to 10 s), so that several retries fit in a window and one lies across its end; a find-and-bind of 5 ticks, longer than a window as in the code, so that a window may open before it, in it, and close in it | 302 313 |
| `pairing_lasts` | does a window last its minute and a half? | as above, without the five clicks, which are not needed for the answer; **violated** | |
| `button_clicks` | are clicks and holds told apart? | thresholds in the code's order (debounce 3 polls, 500 ms as 5, 5 s as 9), four presses in a group, a contact that bounces for two polls | 333 |
| `services` | outdoor sensor: whose readings are shown, and for how long? Link: does the screen follow the network? Clock: how wrong can it be? Lifetime: what does a reset forget? | two sensors, three clusters, two Clear Binds, two hours as 4 ticks; a parent but no sibling, tables of two rows, two of tasks, requests and timers under way at a time; the hub asked every 3 ticks, then 5, answers that travel 2, a loop held up for 3; 14 hours, more than two saves | 196 651, 40 s |
| `air_control` | are settings and relay consistent, and is the composition the control over bands? | two gases, thresholds 1 to 3 (three pairs), readings below, between and above; values that are taken, refused and out of range, any pair in one command in either order; one flag | 108 546, 2 min |
| `timer_pool` | do pool, list and handles agree, and is each timer called when it should be? | three records for four clients of the four kinds (a handle, one that may be lost once, a periodic timer, one without a handle), so that the pool runs out, records are reused, and the list has a head, a middle and an end; periods of 1 and 2 ticks; a pass up to 2 ticks late, so that a timer expires on time, late, or while the loop is held up; one loss, after which a client has two timers, and the one without a handle may end before or after the other | 197 115, 2 min |
| `scd4x_bus` | does the driver keep up with the sensor when commands are lost? | any command of any chain may be lost; two pressures, one correction | 6 480 |
| `scd4x_null` | is a NULL function pointer called? | as above; **violated** | |
| `screen_shown` | do the right readings end up on the screen? | four cells, two readings each, three minutes of which two are cleaning time; one time-out of the panel in an update, one waiting update of the user, one lost timer | 141 587, 40 s |

All named bounds (`Cap`, `MaxPresses`, `MaxFindBinds`, `MaxIdentify`, `MaxTaps`, `MaxClears`,
`MaxBusy`, `MaxTasks`, `MaxOrphans`, `MaxBlock`, `MaxTransit`,
`MaxMissed`, `MaxHours`, `MaxPending`, `MaxLost`) stop an environment or saturate an observer.
`MaxFindBinds` counts only the groups of five clicks that find `bdbFindBindFlg`
clear; the others change nothing. Three bounds cut the firmware short. `MaxOrphans`: a behaviour
in which a nested forced update would lose one more timer handle is cut there.
`MaxLost`: so is one in which a client of the timers does. `MaxPending`: a search for
the link quality waits until something under way has been answered or lost. A `VIEW`
leaves the NV copy out of the states of `reporting_safety`, where nothing reads it.

`reporting_safety` is run without late binding and `reporting_forever` with it:
under late binding the bounds on time do not hold (next section).

### What the passing runs show

* **Reporting.** The shared timer never subtracts more from a running counter
  than it holds, so the clamp to 0 in `reportAttrTimerCb` is never needed
  (`TimerCoversCounters`). Reports are late only by seconds in which no timer was
  counting (`MaxIntervalKept`, `ChangeLatencyBounded`): before the first arming,
  and what a Configure Reporting command threw away by cancelling the timer.
  None is early (`MinIntervalKept`). Without the hub's commands ceasing there is
  no liveness: a hub that repeats Configure Reporting faster than the shortest
  interval holds all reports back; TLC shows this at once when the premise of
  `ReportedForever` is dropped.
* **Frames.** Every due attribute goes out exactly once, in a frame of its own
  cluster, and the loop ends even with intervals of 0.
* **Pairing.** A flickering LED means an open window; an open window is being
  worked on, unless the leave is still unconfirmed or was refused, or a find-and-bind
  has the stack (below); one retry at most is made after the window; LED and screen
  come to rest.
* **Button.** No phantom clicks, one reset for one hold, no group left open.
* **Outdoor sensor.** Readings of two sensors never mix; a silent one goes in
  time; a lively one is only erased by a timer that Clear Bind lost.
* **Relay.** The relay itself, not `sw_onoff`, follows the air and the settings,
  whenever they are written, except after a restart with the relay on, and except
  for a command that did not arrive, until the next one.
* **Settings.** Thresholds stay ordered and in range, whatever one command
  writes in whatever order; nothing in use is unsaved. Because of that, a restart
  is for the relay control only a loss of its readings and of `sw_onoff`
  (`ControlImplemented`).
* **Timers.** A record is free or on the list once, and counted right; a handle is
  never that of another client's timer, although records are reused at once. Timers
  that their client cannot stop come only from cleared handles, one from each. Each
  pass calls exactly the timers that were due when it began and have not been stopped
  since, however its callbacks
  change the list, and none early (`ServiceImplemented`); every timer that is not
  stopped comes to be called, and no pass goes on for ever (`EveryTimerCalled`).
  A pool that is asked for one timer too many ends in a reset (`Reset`).
* **Clock.** It never counts a second twice, although every answer of the hub
  passes through the code that starts its timer; it is wrong by the travel of the
  answer, what the loop lost, and one second. It comes to be right even if an
  uninitialised variable has been stored in between.
* **Lifetime.** A reset at any moment forgets at most five hours, or all of them if it
  comes between the erasure of the sector and the write.
* **Link quality.** Late answers and two searches that share one index leave nothing
  behind that keeps the monitor from finding itself again; out of the network no
  number is shown.
* **SCD40.** The setting "Frc co2 correction" is that of the sensor after a calibration
  on a working bus, or 0 if the sensor refused. After any loss of commands, a bus that works brings readings back
  (two failed reads initialise the sensor); the driver never sends a measuring
  sensor a command it refuses.
* **Screen.** No nesting of forced updates leaves the monitor without a refresh
  timer; the panel is cleaned once per window; what stays is shown.

### Where code and documents part

Checked, as runs that end in a counterexample:

* `pairing_lasts`: the window's timer has no handle (`app_button.c:62`). Hold,
  join within the window, hold again: the first timer closes the second window
  early. The README gives a minute and a half.
* `scd4x_null`: a repair that does not find the sensor clears the function
  pointers of a driver that keeps its device (`app_scd4x.c:84`); the next command
  calls a NULL pointer. `scd4x_init` refuses such a device; nothing else does.
  In the model the monitor then stops until it is restarted.

Seen while modelling and stated as exceptions in the properties that pass:
a retry after the window (`OneLateAttempt`: one); a timer that Clear Bind has
lost (`ErasedOnlyWhenSilent`), which, each time it fires, loses the handle of
the timer running then, and so goes on; a relay that was on at a restart
(`RelayFollowsAir`: `sw_onoff` is not saved); a command to the relay that is lost and
not repeated (same); the garbage that the clock counts on while the hub does not
know its time (`ClockInStep` speaks of a clock that has been set); the lifetime in
the moment after the erasure (`LifetimeKept`); a pressure that a lost write or a
reinitialisation took from the sensor, which is not sent again before it
changes, although the README says every time (`PressureApplied`); a calibration
that could not start, which saves an uninitialised variable (`FrcIsResult`, for
a known sensor on a bus that works), and one that the sensor refuses by answering
0xFFFF, which saves 0 although the sensor keeps the correction it had
(`scd4x.c:258`, same; an answer that is lost does the same to a correction that was
made); a window that opens, or whose leave is confirmed, while five
clicks have the stack find and bind: `bdb_networkSteerStart` is dropped
(`zb_appCb.c:302`, `bdb.c:1486`) and no retry armed, so that nobody tries to join
until find-and-bind ends, after at most 180 s; its success then closes the window
(`zb_appCb.c:178-182`), if the window has not closed by itself (`OpenWindowWorks`);
0 lux, which is the sentinel of its cell (`ReadingsShown`).

What these properties therefore do not catch: `PressureApplied` excludes just the
stale pressure; `MinIntervalKept` is run and proved without throttled change-only
records, whose minimum the code ignores; `NoPhantomClick` counts the
bounces of the contact as the finger's, and in its run a level lasts for two polls at
least; and `ModeRespected` does not count a start command that reaches a sensor which
still measures, as its stop was lost (`app_scd4x.c:113-139`): the sensor ignores it.

Seen, and not in a run: five clicks off the network set `bdbFindBindFlg`, which only
the end of an Identify clears, so that later groups of five are ignored until then
(`app_button.c:136`); five clicks during an attempt to join have the attempt bind once
it has joined, and the window and its LED learn of the success minutes later
(`bdb.c:750`); the find-and-bind that should follow every join is compiled out by a
misspelt macro (`zb_appCb.c:194`); a cluster bound while the timer is pending for another
one waits for it, up to 65000 s (`zcl_reporting.c:573`); a record with a minimum
interval and maximum interval 0 has its minimum ignored (`zcl_reporting.c:456`);
a press during the window stops the flickering (`app_button.c:71`); the window's
timer cuts the green flashes of a success short (`app_button.c:35`); click, then
hold, is not seen as a hold (`app_button.c:93`); a nested forced update leaves a
second screen timer (`app_epd.c:989`; `orphans` in `Screen`); the inner humidity
is rounded by the outer one (`app_epd.c:432`); the logarithm of less than one lux is
stored as an unsigned value (`app_bh1750.c:104`); the record of the lifetime lies in
the sector of the SDK's pre-installed code (`app_time.c:3`, `drv_nv.h:174`), which
every save erases with it; each page of a neighbour table starts a timer that
nobody stops (`app_lqi.c:100`), so that a long table could exhaust the pool.

## Fairness

`ev_main` polls timers and the idle task for ever, so timer callbacks,
`ReportHandler` and queued tasks are weakly fair. `Tick` is strongly fair in
`Reporting`: time goes on although commands and values can disable a second's end
again and again (until the handler has run). In `Pairing` the
stack's task runs (`BdbTask`) and find-and-bind looks every second whether it is over
(`FindBindDone`), while attempts to join need not end; a finger does
not stay on the button for ever (`Release`), and the screen has something new every minute
(`EpdRefresh`). In `Scd4x` the measurement recurs with a period of at least five
seconds, in which the sensor has a new reading (`Sample`). In `EvTimer` time and the
passes go on (`Elapse`, `Process`, `Visit`), while clients need not ask for anything.
In `Lqi` and `Clock` timers fire, tasks run and an answer that is not lost arrives;
that questions are answered at all is a premise (`calm`, `steady`), which the
environment may never grant. Network, user, bus and
sensors' values have no fairness; liveness is stated for environments that settle.

## Assumptions about what is outside

The stack delivers callbacks asynchronously, never inside the call that asks;
`bdb_networkSteerStart` ignores a call while busy; `zb_factoryReset` gives up a
rejoin and is answered with a leave confirm, which may be an error. A leave takes
the commissioning attributes back to their defaults, but not the state of `bdb_task`: a
find-and-bind goes on. `zb_factoryReset` is in the SDK's library: what it does to
the NV module the settings are in (`nv_resetToFactoryNew` erases every module
but one) is not modelled. They are taken to survive it; `NothingUnsaved` says nothing about
a reset that erases them, of which the application would learn at the next restart. A command
that the SCD40 does not acknowledge was not carried out; reinit takes the ambient
pressure back to the sensor's default; in its measuring mode it refuses
calibration, reinit and factory reset. Idle it may refuse a calibration all the same. Its
answer is kept as the correction, 0x8000 less the word it sends, as the driver takes it.
The binding table changes without notice.
The relay obeys a command that reaches it. Writes of the settings and the reporting
table to NV succeed and are atomic; the lifetime, which the application writes to
flash itself, is not. A callback makes at most one request to the timers besides
its return value, and none for its own timer, as those of the application do; one
that returns -1 has set its handle to NULL. A timer that is started over
the handle of another, as by a nested update of the screen, is a `Forget` and a request.
In a network that is calm, an answer about the link comes within the 900 ms of the page
timer. A hub that is asked for
the time answers before it is asked again, or not at all.

## Proofs

`ReportingProofs` (checked by TLAPS, SMT and Zenon, LS4 for the temporal steps)
proves of `Reporting`, for every number of attributes, any defaults, records,
values and intervals:

| Theorem | Statement | Assumes, besides `ReportingAssumption` |
|---|---|---|
| `TypeCorrect` | `Spec => []TypeOK` | |
| `TimerCoversTheorem` | `[]TimerCoversCounters` | no late binding |
| `MaxIntervalTheorem` | `[]MaxIntervalKept` | no late binding |
| `ChangeLatencyTheorem` | `[]ChangeLatencyBounded` | no late binding |
| `MinIntervalTheorem` | `[]MinIntervalKept` | no late binding, no throttled change-only record |

None of the four is inductive: they speak of observed time, and what
ties it to the counters has to be carried along. The invariant `Inv` has the
intervals of every entry consistent, also of the copy in NV (`TableOK`); nothing
left due once the handler has run (`NothingDue`); every counter of an active
entry at least as long as the pending timer (`PendingCovers`); and two balances:
time since the last report plus what the counter still has to run, corrected by
the elapsed part of the pending timer, is the interval plus the lost seconds
(`MaxBalance`), and the same for a waiting change and the minimum counter
(`LatencyBalance`). `MinInv` adds the balance the other way round. One lemma per
action shows that it is kept; late binding breaks `PendingCovers`, which is why
the theorems exclude it.

`ReportFramesProofs` proves `TypeOK`, `OnePassEffect` and `EachDueSentOnce` of
`ReportFrames`, for any table, clusters, bindings and length of a frame. With
`OnePassEffectHolds` the step that `Reporting` takes for the loop is justified for
every instance, not only for four slots. Its
invariant (`Settled`) says that an entry is as it was or as one look makes it, and
that those behind the walk are as one look makes them, unless a further
pass has been asked for; it rests on a second look at an entry changing nothing
(`ReportedSettles`), intervals of 0 included. That each due attribute is in one place of
one frame is said with a relation (`At`) between frame, position and entry instead of
the set `InFrames`: an entry that has been taken is in one place, any other in none
(`Sent`). The end of the loop is liveness and stays with TLC.

`AirControlProofs` first proves `TypeOK`, `LowBelowHigh`, `NothingUnsaved` and
`ThresholdsShown` of `Settings`, for any gases, ranges and written values. Their
conjunction is inductive. The two handlers of a threshold are treated once each
(`LowWrittenFacts`, `HighWrittenFacts`: what one of them does to the record that
a command works on, with "nothing changed or it will be saved" carried along);
a command with both thresholds is the two lemmas in either order.

`ServicesProofs` proves `TypeOK`, `OneSensorShown`, `SilentIsErased` and the
action property `ErasedOnlyWhenSilent` of `OutsideSensor`, for any sensors,
timeout and number of clears. The last one needs two facts more: the timer with
a handle has left what the sensor may still be silent
(`TimerMeasuresSilence`), and a timer without one comes from clearing the binding
(`OrphansFromClears`).

`OnOffControlProofs` proves `TypeOK`, `RelayFollowsAir` and `NoChatter` of
`OnOffControl`, for any environment. The handler knows only
`sw_onoff`; the invariant ties it to the relay (`FlagAndRelay`) and says that a
run of the handler leaves nothing to send (`Settled`). That its three switches
never send two commands (`CommandCases`) rests on a gas not being high and low at
once.

`AirControlProofs` then proves that `AirControl` implements `OnOffControl`
(`ControlIsImplemented`) and carries its theorems over to numbers
(`RelayFollowsAirInNumbers`, `NoChatterInNumbers`), with no invariant about the relay
of its own. The invariants of `Settings` hold in the composition because each of its
steps is a step of `Settings` or leaves it alone. Two of them are what the refinement
needs: `TypeOK`, by which a reading of 0, as after a restart, is low whatever the
thresholds, and `NothingUnsaved`: a restart is a `Restart` of `OnOffControl`, which
keeps the enabling settings, only if those in flash are those in use. `LowBelowHigh` is
not needed: the code clears `ctrl_on` when both conditions hold
(`app_sensors.c:78-79`), so a band is one of three by definition.

`EvTimerProofs` proves `PoolConsistent`, `HandlesOwned` and the refinement
`ServiceIsImplemented`, for a pool of any size, any clients and periods. The
difficulty is the walk: it holds a pointer into a list that callbacks prepend to
and delete from, and starts over only when the head has changed. The invariant
(`WalkOK`) says that every expired timer is still before the walk: it is the record
the walk is at, or behind that in the list. It is kept because a new timer, which is
not expired, goes to the head, because a deletion anywhere keeps the order of
what remains (`Precedes`), and because the walk starts over when the head has changed,
which puts every timer before it again. An expired timer is thus never passed over, which is what "each pass
calls all that were due" comes to; that no other is called is in the guard, and
that none is early is the arithmetic of `Updated` (`Left`).

For `HandlesOwned` the invariant counts (`LostOK`): the timers of a client that its
handle does not name are no more than the handles it cleared. Only `Forget` adds one, and
is counted; every other step leaves each client with no more of them than it had
(`Fewer`). Cancelling frees the one timer that the handle names; starting
puts the new one under the handle, which the cancel has set to NULL; and a callback that
ends clears the handle of its client, be it that of another timer of the same client,
but its own record goes in the same step, so that the number does not grow. In the
refinement a client that forgets is one that stops one timer or none before it starts the
next (`Stops`); the others stop all they have, which needs that they have no
orphan.

`ServicesProofs` also proves `ClockInStep` of `Clock` and `LifetimeKept` of `Lifetime`. The
clock's invariant has one timer from the first answer on (`OneTimer`) and the clock
behind only by the second that is due (`Behind`); the lifetime's says that the
counter has not passed a multiple of six since it was saved (`SixHours`).

`PairingProofs` proves `TypeOK`, `FlickerMeansOpen`, `OpenWindowWorks` and
`OneLateAttempt` of `Pairing`, for any times and numbers of presses and commands. The
last two need that after an attempt made outside the window nothing is armed
that could make another (`LateIsLast`), and that while the window is open the device
is factory new or still on a network, so that no press has the stack rejoin instead
(`WindowIsNew`). `OpenWindowWorks` is inductive with the second. Its one hole is
find-and-bind: a confirmed leave that finds the stack there is dropped, any
other finds it idle, with a start in the queue, or at an attempt, each of which
ends by joining, by arming a retry, or by a find-and-bind. That the start in the queue
may be carried out in another mode than it was asked for in makes no difference:
without a network it fails at once, which arms the retry too.

`DevicesProofs` has three parts.

* `Button`: `TypeOK`, `NeverStuck` and `NoPhantomClick` for any debounce, times and way
  to move the finger, and `ResetNeedsHold` if the contact keeps a level for at least
  `DEBOUNCE_BUTTON - 1` polls. Without that the last one is false, as TLC shows: a
  contact that goes up and down at once stops the debouncing in the middle, the press
  before it stays without a release, and the time it has lasted goes on. The
  invariant says what a group is (`GroupOK`: it has a press; one that is over is
  marked as released; a released one is not older than `Multi`), that a finger which is
  up has been debounced or is being (`UpOK`), and that the clicks counted, the one being
  debounced included, were made by the finger (`TapsOK`); for a reset also that a press
  without a release has lasted less than the finger has been down (`HoldInv`).
* `Scd4x`: `TypeOK`, `ModeRespected`, `PressureApplied` and `FrcIsResult`, for any
  pressures and corrections. A handler is a chain of commands, each of which may be lost,
  so that a step ends in any of a set of states. One lemma per command says what all of
  its outcomes have in common, and what its only outcome is on a bus that works; the
  lemmas of the handlers chain them. In the middle of an initialisation the driver
  that takes the sensor to be idle is right (`Underway`), which is why no command
  is refused. Between handlers that need not be so, and the invariant (`Between`)
  does not say it: the initialisation begins by forgetting what the driver believed,
  and calibration and factory reset go on only if the sensor has heard the stop.
* `Screen`: `TypeOK`, `NeverWithoutTimer` and `OneCleaning`, for any readings, cleaning
  times and depth of nesting. There is a timer, or a forced update under way that will
  start one (`ScreenInv`). For the cleaning, one that was asked for is remembered in `clear_screen` as
  long as the clock is in its time: the update that looks at `clear_time` has drawn
  the clock, or the minute drawn is the one remembered (`CleanOK`). The update that waits for a forced one needs a fact of its own
  (`CallersOK`): when the call has returned, the nested update has drawn the clock,
  as nothing kept its caller from drawing.

Only model-checked: all liveness (`ReportedForever`, `Returns`, `LedSettles`,
`Recovers`, `ReadingsShown`, `LinkFollows`, `ClockSet`, `EveryTimerCalled`; TLAPS does
not reason about fairness and ENABLED), and so everything about `Lqi`, whose one
property is of that kind. The two properties that the code violates are not theorems of any part.

## Not modelled

* The order of the measurement chain's tasks; its timer is one of the restarted
  clients of `EvTimer`, its effects are inputs of the other modules.
* SGP40, BH1750 and BME280, the gas index and the DS3231: reading, conversion and
  fixed-point arithmetic without state that others see before it is an attribute.
* Sound beyond its use of a timer; level control and the On/Off switch
  configuration: attributes and one saved byte, without ordering of their own.
* Find-and-bind beyond what it does to the stack's state, the window and the LED: the
  initiator's side, and the bindings it makes (external in `Reporting`). OTA: callbacks
  that log or hand on to the SDK.
* Drawing, fonts, the panel driver, the boot loader.
* The SDK beyond its timers and what the modules quote: routing, security, APS. That
  is most of the lines of the repository. `common/factory_reset.c` has no caller.

Byte layouts, checksums and conversions are abstracted: values are integers or
model values. Sending a frame is not followed: a lost report is rewritten as sent.

## What could come next

An abstract specification of reporting (each attribute with a clock of its own)
for `Reporting` to implement; `Reporting` and `Lqi` over `TimerService` instead of
timers of their own; proofs of the invariants of `Lqi` that `LinkFollows` rests on; a model of APS sending, for reports that are lost.
