# runwhenidle: TLA+ models, model checking and proofs

runwhenidle starts a shell command (or takes a PID with `--pid`) and keeps it stopped while
the user is active: it pauses the command's process tree with SIGSTOP or SIGTSTP when there
is input and resumes it with SIGCONT when the user has been idle for a timeout. It has one
thread and no stored state. What makes it hard is that everything around it moves on by
itself: the command and its descendants, the user, the compositor or X server, timers and
signals, and that a mistake leaves a process stopped for ever, or running when it should not
be.

Source references are to files under `src/`.

## The system's parts

| Part | State | Operations | Hard about it |
|---|---|---|---|
| Command control (`main.c`, `process_handling.c`) | `interruption_received`, `sigchld_received`, `command_paused`, `monitoring_started`, pending signals of `signal_fd`, the command | `process_signalfd`, `handle_interruption`, `resume_and_wait_for_pid_to_exit_checking_for_signals`, `exit_if_pid_has_finished`, pause, resume | flags that must follow the command through failures and two loops; blocking `waitpid()`; signals that coalesce; `--pid`, where there is no SIGCHLD and another parent reaps |
| Wayland loop (`main.c`, `wayland.c`, `descriptor_utils.c`) | the connection, notification object, two timerfds, a pidfd, `wayland_flush_is_pending`, `revents` | one iteration of `run_wayland_idle_event_loop`, the callbacks idled and resumed, abort and break | acts on a snapshot of `poll()`; events queue up; EINTR and EAGAIN anywhere; connection lost while the command is paused |
| X11 loop (`main.c`) | `user_idle_time_ms`, `sleep_time_ms`, elapsed time, availability of XScreenSaver | one iteration of the loop of `main()` | also the fallback after the Wayland loop, with the flags as that left them; stale samples; computed sleep times |
| Process tree (`process_handling.c`) | none of its own; the kernel's process table | `pause_command_recursively`, `resume_command_recursively` | /proc is read entry by entry while processes fork, end and get new parents |
| List of descendants (`process_handling.c`) | two arrays | `get_child_processes`, `read_parent_process_id` | a parent has to be found in a text that contains the process's own name; an array that grows, and one that is walked while it grows |
| Options (`arguments_parsing.c`) | settings, `errno` | `parse_command_line_arguments` | bounds and widths of numbers; options that follow one another |
| Environment guessing (`environment_guessing.c`) | environment variables | look for the sockets of a session and for its cookie | a choice among directory entries that come in any order, while servers start, end and crash; integer conversions |
| Start (`main.c`, `wayland.c`) | the connection, the choice of a loop | `run_shell_command`, two attempts to connect, the registry | what was guessed is old when it is used; what was asked for must not be overruled by a guess |
| Helpers, generated protocol code | none | | |

`main()` parses the options, starts the command or looks for the process, guesses the
environment and connects. The loops call command control directly; the callbacks of the
Wayland loop run inside `wl_display_dispatch()` and share the flags with it. `main()` runs
the Wayland loop, goes on to the X11 loop if there is no usable compositor or the Wayland
loop is aborted, and to `resume_and_wait_...` if the Wayland loop breaks off. Every route
ends in `handle_interruption()` or `exit_if_pid_has_finished()`, or in an exit with status 1
when a call fails.

## Modules

| Module | Models |
|---|---|
| `CommandControl` | the command, the signals and flags, and the code both loops end in |
| `WaylandLoop` | extends it with the Wayland loop, the compositor and the timers |
| `X11Loop` | extends it with the second half of `main()` |
| `RunWhenIdle` | composes the three; `Spec`, the properties, the refinement mapping |
| `IdleSupervisor` | the abstract promise: hold and let go while watching; once releasing, never hold again; leave only when the command is over |
| `RunWhenIdleProofs` | proofs of type correctness and of four invariants of `RunWhenIdle`, about the flag and the ends |
| `MonitoringProofs` | proofs of its other invariants and of the safety part of the refinement |
| `ProcessTree`, `MCProcessTree` | the recursive pause and resume against a changing process tree |
| `ProcessListing`, `MCProcessListing` | `get_child_processes()`: the text of /proc/<pid>/stat, the list of all processes (stage 1), and stage 2 by extending the next |
| `DescendantScan` | stage 2 of `get_child_processes()` as an algorithm |
| `ProcessTreeProofs`, `ProcessListingProofs`, `DescendantScanProofs` | proofs of their type correctness and safety invariants |
| `X11Polling` | when the X11 loop looks at the user, in units of time |
| `X11PollingProofs` | proofs of its delays and of its type correctness |
| `CTypes` | `strtol()` and the conversion from `long` to `int`, of any width |
| `ArgumentsParsing` | the options |
| `EnvironmentGuessing` | the environment, the directories of sockets, the connections, and the servers as the program's environment |
| `Startup`, `MCStartup` | compose the two with the start of the command: `main()` up to its loops |
| `ArgumentsParsingProofs`, `EnvironmentGuessingProofs` | proofs of the invariants of `Startup` |

`Startup` ends where `RunWhenIdle` begins: there, which loop is entered first is a choice,
and `StartMonitorAfterMs` and `ExternalPid` are what the options have set. `ProcessTree`
reads a parent in one step and takes `Descendants` of what was read in another; that the
text of /proc, the arrays and the loops of the code come to the same is `ImplementsTree` of
`ProcessListing`, whose instance `Tree` of `ProcessTree` maps the one's state to the
other's.

### From code to actions

`pc` is the place in the code. An action is the code between two places where the command,
the user or the display server can be observed, so that the world may take steps between any
two of them. `wl_top`, `wl_sigchld`, `wl_flush`, `wl_poll`, `wl_signals`, `wl_flush_out`,
`wl_monitor`, `wl_first_pause`, `wl_exit_fd`, `wl_read` and `wl_dispatch` are the parts of
one iteration of `run_wayland_idle_event_loop()` in their order; `revents` is what `poll()`
said. `x_top`, `x_sigchld`, `x_query`, `x_check`, `x_act`, `x_sleep` are the parts of one
iteration in `main()`; `forward`, `unpause`, `await` those of `handle_interruption()`;
`let_finish`, `wait_top`, `wait_check`, `wait_sleep` those of
`resume_and_wait_for_pid_to_exit_checking_for_signals()`.

* `SignalTree` is a recursive pause or resume seen from the loops: it exits with 1 before
  anything is signalled if the command is gone, or after the command was signalled if a
  descendant is. What happens to the descendants is in `ProcessTree`.
* `exit_if_pid_has_finished` reaps the command, and exits only if it ended by `exit()`. With
  `--pid` it exits if the process does not exist any more.
* `process_signalfd` reads all pending signals, lowest number first, so that SIGTERM
  overwrites SIGINT.
* Output, `--quiet` and `--verbose` are left out.

In `ProcessTree`, `Root` is signalled first, then /proc is opened, each entry is read in any
order, `Descendants` of what was read is computed and its members are signalled, none before
its parent. In between any process may `Fork`, `End` (its children go to init) and be
reaped.

`ProcessListing` has one action for an entry of /proc that is a process and one for any
other; both begin with the test whether the array is full. The stat file is a sequence of
characters, with numbers in decimal (`decimal` writes them, `strtol` reads them, both as
recursive functions). It is read as the code does: `fgets()` cuts it off after what the
buffer holds, the name ends at the first `") "` from the fourth character on, a state
follows, and the number behind it. A process that ended since it was returned by readdir()
gives 0 and is left out. `truth` is what the kernel knew at the moment of each read.

`DescendantScan` has one action for a step of the inner loop and one for the end of it;
`found` is the part of the array that has been written.

`ArgumentsParsing` has one action for each `case` of the switch and one for the checks
behind the loop. An option carries the number its argument starts with, as an integer
without bounds, and whether text follows it. `errno` is kept from one option to the next, as
in the code, which never clears it. `parsing` says how far it is, or how the program ended.

In `EnvironmentGuessing`, `ReadEntry` is one readdir(): an entry that is added or removed
while the directory is open may be returned or not, any other is. What is in `stable` was
there from opendir() on. The end of a scan is part of the action that uses its result.
`infer_socket` and `infer_display` are the scans of
`best_effort_infer_graphical_session_environment_if_missing()`, `connect_socket` is the one
of the second attempt to connect, `open_display` that of the second attempt to open the X
display. A name is its rank in the order of strcmp(), with `Number` for its suffix.
libwayland and Xlib are external: `LibWaylandSocket` and `XOpenDisplay` say what they look
at.

`X11Polling` counts time. It begins with the flags that an abandoned Wayland loop may have
left (`main.c:489`). Code takes no time, except pausing a tree, which takes up to
`MaxPausingTime`. `unnoticed` is a stopwatch for the properties: how long a user has been
active while the command runs.

## Runs

| Run | Shows | Bounds |
|---|---|---|
| `wrapped` | safety, liveness and refinement of the whole program over its own child | both interruptions, one each; one EINTR or EAGAIN; two events in the socket; every failing call; 569,414 states |
| `external` | safety, liveness and refinement with `--pid` and SIGTSTP | the same with two EINTRs or EAGAINs; 544,978 states |
| `process_tree` | pause and resume of a tree with a stranger and outside kills | five PIDs, three of them descendants; symmetry; 2,408,625 states |
| `process_tree_external` | with `--pid`, a descendant of another user | four PIDs; 504,417 states |
| `child_processes` | from the text of the stat files to the array of descendants, and that this is the scan of `ProcessTree` | init, the command, runwhenidle and three others in every tree and every order of /proc; PIDs of one and two digits; two processes with odd names; one ends; 1,007,104 states |
| `x11_polling` | delays of polling | a timeout of 9, an int of at most 8, pausing of up to 4 units; 4,790 states |
| `startup` | the options, and the session that is found | an int of 4 bits and a long of 8; up to two options of 36; five Wayland and three X sockets, seven environments, two servers that start or end; 5,167,326 states |
| `no_delay`, `killed`, `pause_misses`, `resume_misses`, `misread_parent` | the disagreements below | the smallest instance that shows each |

Why the bounds are enough. `MaxTransient` limits how often a call is interrupted or would
block. Two let the request for the notification be refused when it is made and again by the
flush of the next iteration, the one case in which an occurrence leaves something behind for
the next; `NoRequestForgotten` is about it, and is checked with two in `external`. Any other
only sends the loop back to a place from which it runs as before, for which one is enough:
`wrapped` has one, and the proofs hold for any number. `MaxEvents = 2` lets an idled and a
resumed be dispatched together, which is the longest sequence without repetition that the
protocol allows. Each interruption arrives once; what a second of the same signal does is to
set the same variable. Three descendants form every shape of tree with a grandchild and a
sibling, and one can be forked into each place during a scan. In `child_processes` an array
of two elements has to grow twice, and one process that ends is enough to mix parents that
were read at different times. `MaxPidLength` is 2 and `MaxCommLength` 3, where the code has
7 and 64: the command, 12, has a name of three characters and a parent of two digits, so
that its line is exactly as long as the buffer. In `startup` an option has a number below,
at, between, at and beyond each end of its range, and two options are what it takes for one
to see the other's `errno` or value. The constraint `OneCommandLine` looks for a session
after the empty command line only, since no variable of the options is read there. The
sockets are two numbers in the order of digits that differs from that of letters, a
compositor without notifier, which one environment names, a name without a number, and a
number beyond an int. In `x11_polling` the timeout is longer than INT_MAX and the pausing
longer than the polling interval, the two cases in which `sleep_time_ms` is not the
difference it is computed from. Deadlock checking is off where the program ends or the
process tree may die out; `x11_polling` runs for ever and has it on.

### Properties

Safety of the whole program: `FlagTracksCommand`, `NeverAwaitsStopped`,
`NothingLeftStopped`, `NeverAbandons`, `AsleepInAgreement` (before `poll()` with all events
handled the command is paused exactly if the compositor's last word is not idled),
`NoRequestForgotten` (EAGAIN), `UnrestrictedAtFirst` (across the switch of loops),
`NeverPausedUndetected`. Liveness: `ResumedWhenIdle`, `PausedWhenActive`,
`UndetectedContinues`, `EndIsNoticed`, `InterruptionIsServed`. Refinement:
`ImplementsSupervisor`.

The process tree: `EscapeesAreNewborn` says exactly what the pause misses, namely processes
forked since /proc was opened; `ResumeLeavesNoDescendantStopped`, `OnlyFamilyStopped`. Its
arrays: `ReadsRealParent`, `StaysInsideAllocation`, `HandsOverTable` (stage 2 gets a
relation without cycles through the command and with somebody outside of its tree, or its
array would be too short), `StaysInsideArray`, `NeverComparesUninitialized`,
`FindsDescendants`, the liveness property `ScanEnds`, and the refinement `ImplementsTree`
(every step is a step of the scan of `ProcessTree` or nothing to it). Time: `ResumedInTime`,
`PausedInTime`, `SleepsForAWhile`.

The start: `SettingsAreUsable` (of any command line), `ParsesAsMeant` (an acceptable command
line is not refused, a line means what its last options say, and an option that is not
acceptable is accepted in the two cases of `Overlooked` only), `ProtocolTimeoutIsLongest`;
`GuessIsBest` (against an order that does not know how the directory is read),
`HonoursEnvironment` (no other compositor in the place of one that is named and there),
`WorksUnderWayland`, `WorksUnderX11` (with the X server that is used).

`FlagTracksCommand`, `UnrestrictedAtFirst` and others stop at an exit: an error exit in the
middle of a pause does leave processes stopped, and is modelled so.

### Fairness

`WF_vars(Program)`: the scheduler runs the program's only thread as long as it has a step to
take. Timers that are armed expire, and `CompositorSends` is fair because
`ext_idle_notification_v1` promises its events. The command, the user and senders of signals
owe nothing; in particular `InterruptionIsServed` ends where the program waits for a command
that runs. `ScanEnds` needs `WF` of `Scan` only: the scheduler runs the loop. `Startup` has
no liveness property and no fairness: whether its directories come to an end is up to the
servers.

### Disagreements found

* `no_delay`: `--start-monitor-after=0` disarms the timer (`descriptor_utils.c:18`), so
  under Wayland the command is never paused. `README.md:91` describes a delay before
  monitoring starts, and `arguments_parsing.c:17` allows 0.
* `killed`: a child killed by a signal is reaped and not noticed (`process_handling.c:285`);
  the program then runs without a command, and ends with an error only when it next tries to
  pause or resume. `process_handling.h:61`.
* `pause_misses`: a child forked during the scan is not paused (`process_handling.c:235`).
  `process_handling.h:21`.
* `resume_misses`: a stopped process whose parent ended is not resumed
  (`process_handling.c:253`). `process_handling.h:36`.
* `misread_parent`: the name of a process is taken to end at its first `") "`
  (`process_handling.c:109`), so that a part of a name is read as the parent. In the run a
  process called `a) S 2` is taken for a child of process 2; one called `a) b` would be left
  out. `process_handling.c:71`.

Noted while reading, without a run of their own:

* Polling under X11 while the user is idle is every 100 ms if they were idle from the start
  (`main.c:43`): `main.c:505` resets the interval to a second only when a command is
  resumed. `README.md:54` says once per second.
* `README.md:42` has an interrupted program resume the command and then pass the signal on;
  `handle_interruption()` sends the signal first.
* The message for `--start-monitor-after` names a maximum (`arguments_parsing.c:16`, `:152`)
  that the condition at `:150` does not check: a longer delay is accepted. `ParsesAsMeant`
  holds the maximum for the limit of what is acceptable and has this as a case of
  `Overlooked`.
* A number for `--pid` is narrowed to an int before it is checked: one beyond INT_MAX may
  name another process, and is taken for it. This is the other case of `Overlooked`.
* A timeout longer than 2^32 - 1 ms is shortened to that for the compositor.
* DISPLAY and XAUTHORITY that are set but empty count as missing, and the guess for them has
  no effect, because `setenv()` is told not to overwrite.
* The socket that a crashed compositor left behind hides a running one with a higher number:
  the best guess is the only one that is tried.
* The number of an X socket beyond INT_MAX is narrowed, and may become the lowest.

## Proofs

`RunWhenIdleProofs` proves for every value of the constants that satisfies
`ControlAssumption` and `WaylandAssumption`: `TypeCorrect`, `FlagIsRight`,
`NeverWaitsInVain`, `LeavesNothingStopped`, `DoesNotAbandon`, each as `SafetySpec => []P`
for an invariant P of the runs. The inductive invariant is `TypeOK` with `ControlInv`.
`FlagTracksCommand` carries most of it: the resume before a wait may be skipped only because
a command that is stopped is known to be paused, which is what `NeverAwaitsStopped` and, at
an end, `NothingLeftStopped` rest on. The properties are not inductive by themselves.
`ExitIsFinal` ties `pc` to `exit_status`, about which two of them speak;
`SignalsAreAccountedFor` (a received interruption was sent) and `HandlesAnInterruption`
(`handle_interruption()` is entered only with one) give `NeverAbandons` its excuse with
`--pid`. The types and the rest of the invariant are preserved by separate lemmas, one for
each group of actions with one case for each action.

`MonitoringProofs` builds on that invariant and proves `ForgetsNoRequest`,
`WaitsForTheDelay`, `DoesNotPauseBlindly` and `SleepsInAgreement`, under the same
assumptions and so for any `MaxTransient` and `MaxEvents`. `DelayInv` follows the delay
through both loops: monitoring is not on before either has begun, and once it is on, one of
the two ways to wait has ended. `SampleInv` is what makes the second half of `main()`
harmless without XScreenSaver: the sample it acts on then says "idle". `RequestIsAwaited`
ties the buffered request to `wayland_flush_is_pending`. For `SleepsInAgreement`,
`LastWordInv` says where the compositor's last word is: at the end of what is still unread,
or else of what is being dispatched, or else, when nothing is left, in `command_paused`.
`StepsAreAllowed` is the safety part of `ImplementsSupervisor`: every behaviour starts as
`IdleSupervisor` does and takes only its steps or stutters. `Allowed` names what a step may
do to `pc` and the command together, each group of actions is shown to be `Allowed`, and
`AllowedIsAbstractStep` maps it once. `NeverAwaitsStopped` is needed for it: without it
`Await` might leave a stopped command.

`X11PollingProofs` proves `TypeCorrect`, `ResumesInTime`, `PausesInTime` and `AlwaysSleeps`
from `PollingAssumption`, for every timeout, interval and pausing time. The key is a bound
on `idle + timer`: what is left of a sleep is how much the idle time may still grow
unobserved, and while the tree is being paused the idle time grows with the stopwatch that
is later subtracted. For a command that the Wayland loop left paused the bound begins with
the first sample.

`ProcessTreeProofs` proves `PausesTheOld`, `ResumesDescendants`, `StopsOnlyFamily` and
`TypeCorrect` from `TreeAssumption`, for any set of PIDs, with and without processes of
other users. The argument is in the lemma `ScanFindsTheOld`: the parent of a process only
ever changes to init, which takes the process out of the tree, so that an entry of /proc
that has become stale names a parent that was right for every process that still is a
descendant. A complete scan therefore has every descendant that existed when it began
(`ScanIsCurrent`, `NewbornIsClosed`). `PauseCovers` and `ResumeCovers` follow who is still
to be signalled. `FamilyIsClosed` keeps the set of processes that ever belonged to the
command closed under being a child, and `OnlyFamilyStopped` rests on it.

Two more theorems there say how much is true of the two comments that the runs
`pause_misses` and `resume_misses` refute, and that the race shown by each run is the only
one. `PausesAll`: no descendant goes on running after a pause (`PauseReachesAll`), in every
behaviour in which nothing of the command's tree forks while the pause reads /proc and
signals (`NoForkIntoPause`); forks before and after, ends, orphans and reaping at any time
are allowed. Its invariant is `PauseIsComplete`: whoever is still to be stopped is among the
targets. `ResumesAll`: nothing stays stopped after a resume (`ResumeReachesAll`), in every
behaviour in which no process that has a living child ends from the beginning of a pause to
the end of the resume (`NoOrphansWhilePaused`); all else is allowed, forks during the pause
among it. Its invariant `OrphansInv` keeps every stopped process below the command
(`StoppedAreBelow`), and for that every process to be signalled (`TargetsAreBelow`), what
was read about it (`ReadIsTrue`) and the processes that do not exist yet
(`UnbornAreApart`). The runs show that neither hypothesis can be dropped.

`DescendantScanProofs` proves `StaysInside`, `NeverUninitialized`, `ReturnsTheDescendants`,
`ScanRunsOut` and `TypeCorrect` from `ScanAssumption`, for process tables of any length and
order. `FoundIfChecked` is the key of its invariant: an entry has been found exactly if its
parent has been checked, or is being checked and the entry has been passed. No process is
checked twice (`CheckedOnce`), so none is found twice; what is found is an injection into
the entries without the one that is not below the command, which bounds the array; at the
end everything found has been checked, so that the result is closed under children. The
bound of the array also bounds the loop: `ScanRank`, the steps that are left, is a natural
number that every step lowers (`ScanRunsOut`). What is left of termination is that the
program is run, which is the fairness of `ScanEnds`.

`ProcessListingProofs` extends `DescendantScanProofs` to the whole of
`get_child_processes()`, from `ListingAssumption` and `TextAssumption`, for any processes in
any order whichever of them end. Its first half is about the text. `ReadsParents` says that
what `read_parent_process_id()` returns is the parent that the kernel wrote
(`ReadsRealParent`), whatever the PIDs and names are, provided no name has `") "` inside:
`NamesAreReadable` is the exact complement of the finding `misread_parent`, and an
assumption on the constant `Comms` that the theorem, not the module, makes. The instance of
`child_processes` satisfies it and that of `misread_parent` does not, as the assumption
`ReadableNames` of `MCProcessListing` has TLC check. The proof has three parts. `strtol` of
`decimal` is the identity on numbers (`StrtolReadsDecimal`). This is an induction over data;
the library's induction theorems take an operator as parameter and cannot be instantiated
here, so that it is done through a least counterexample (`LeastElement`), and
`RecursiveFunctionExists` shows in the same way that a function with the equation of
`decimal` exists. The line has its parts at known places (`LineLayout`), and the buffer
holds all of them up to the parent and the space behind it (`TextFits`): this is where
`MAX_STAT_FILE_READ_LENGTH` is shown to be large enough for the longest PIDs and the longest
name. The first `") "` is then the end of the name (`LineIsRead`).

The other half follows what is built from the parents that were read. `GrowsInTime` holds
without any condition. `HandsOver`, `ScanStaysInside`, `ScanNeverUninitialized`,
`ReturnsDescendants`, `ListTypeCorrect`, `ListScanRunsOut` and `ListingImplementsTree` are
stated for `ListSpec /\ []ReadsRealParent`, and `ListingIsCorrect` puts them together under
`NamesAreReadable` alone. The argument is that a process only ever moves to init, so that
the set of those below the command at first stays closed under what is read at different
times (`FamilyIsKept`): no process above or beside the command gets into its tree, and
runwhenidle, which is always read, is the entry outside of it that the array of stage 2
needs (`SelfIsListed`). From the start of stage 2 on the invariant is the one of
`DescendantScanProofs`, whose constant `Tables` is then not used.

`ListingImplementsTree` is the refinement: `ImplementsTree`, which says that the listing
begins where OpenProc of `ProcessTree` ends, and that every step of it is one of
`read_parent_process_id` (of the parent the kernel has then), is `get_child_processes` (of
exactly `Descendants`, with nothing unread), or leaves the mapped state alone. `ReadsOne`
says that one read adds one right entry or none, `ParentIsAdded` what that is to the table
of `ProcessTree`; `SameDescendants` that the two definitions of `Descendants` agree,
although `ProcessTree` has init outside of its processes and this module has it among them;
and `AllAreRead` that the scan begins with nothing alive unread. Only `ProcessEnds` is let
pass: it is an `End` and a `Reap` at once, steps of the kernel in `ProcessTree` that its
scan allows at any time. What `ProcessTreeProofs` shows of pause and resume is so shown for
`get_child_processes()` as it is written, as far as names are readable and nothing forks
while it runs: `ProcessListing` has no fork, and what a fork does to the scan is in
`ProcessTree` alone.

`ArgumentsParsingProofs` proves `UsableSettings`, `LongestTimeout` and
`OptionsMeanWhatTheySay` from `CTypesAssumption` and `ArgumentsAssumption`, for all command
lines and all widths of the types. A setting other than the timeout may be wrong for as long
as the program is about to end because of it, which is what `Usable` says.
`OptionsMeanWhatTheySay` is about `ParsesAsMeant`, whose reference `Meant` looks at all
options at once, while the code goes through them with an `errno` that nothing clears. Its
invariant `MeantSoFar` says that the settings are those that the options read so far mean,
that each of these `Passes`, and that `errno` is still 0; `MeaningOfNext` says what one more
option adds to the meaning of a line. An option passes if it is acceptable or `Overlooked`:
a pid that no int can hold, of which the conversion leaves a positive number, or a delay
above the maximum. `PidIsGiven`, which is part of the invariant, is why 0 can stand for no
pid in spite of the conversion.

`EnvironmentGuessingProofs` proves `TypeCorrect`, `BestGuess`, `Honours`, `FindsCompositor`
and `FindsXServer` from `GuessingAssumption`, for any sockets and any sequence of starts,
ends and crashes. `SessionInv` says of a scan that what was chosen is preferred to each
entry read so far, in any order, because `Preferred` is a total order; and that every
listening server has a socket. `HonoursInv`, `WaylandWay` and `X11Way` then describe, for
each place of the code, what is still known about a server that stays up: it is in `stable`
while a directory is read, and in the variable or the connection afterwards. `Honours` is
about a compositor that the environment names and that is there throughout; if it is not,
the code may guess another. `FindsCompositor` supposes that neither WAYLAND_DISPLAY nor
DISPLAY names anything, `FindsXServer` that DISPLAY is not set, and it says which server is
opened.

Every invariant that a passing run checks is also a theorem. So is the type correctness of
the other modules, which no run has to check. Only model-checked are the liveness properties
(with `ScanEnds`) and the fairness part of the refinement of `IdleSupervisor`, which are out
of the proof system's reach, and the counterexamples of the five runs that expect a
violation.

## Not modelled

The time, sleep, string and terminal helpers, beyond what the loops use of them; output;
generated code. What `RunWhenIdle` knows of the start is its outcome; `Startup` is not
composed with it, because nothing of what it decides changes later, and the product would be
out of TLC's reach. The loop around `read()` of a timer for EINTR: it reads a timer that
poll() has reported, and does not block. getopt_long() beyond its errors. Names of processes
of more than 64 characters (a newline in a name is escaped by the kernel). Two Wayland
sockets with the same number (leading zeros) or numbered INT_MAX, between which the order of
the directory decides (`GuessingAssumption`). A command with runwhenidle below it, or a
process table in which nobody outside of the command's tree has a parent, for which the
array of stage 2 is one element too short (`ListingAssumption`). In `ProcessListing`, forks
while /proc is read. In `RunWhenIdle`, somebody else who stops or continues the command
(without `--pid` as with it): the flag would not notice. Reuse of PIDs between the scan and
`kill()`; SIGKILL or SIGHUP of runwhenidle itself, against which it can do nothing; `--pid`
of one of its own ancestors. POLLNVAL and POLLERR on descriptors that the program itself
opened. Of the process tree: a descendant that adopts orphans (`PR_SET_CHILD_SUBREAPER`), a
/proc that hides processes, and processes that change their user while the command runs.

## Plan

1. (done) `CommandControl`, `WaylandLoop`, `X11Loop`, `RunWhenIdle`, `IdleSupervisor` and
   the proofs of type correctness and of the invariants about the flag and the ends.
2. (done) `ProcessTree`, `DescendantScan`, `X11Polling` with `X11PollingProofs`.
3. (done) `DescendantScanProofs`: the array is large enough and what is returned is
   `Descendants`.
4. (done) `ProcessTreeProofs`: what a pause misses and what a resume reaches.
5. (done) `MonitoringProofs`: the other invariants of `RunWhenIdle`, and that every step of
   `SafetySpec` is a step of `IdleSupervisor` or a stutter.
6. (done) `ProcessListing` with its proofs: the text of the stat file, stage 1 and its
   array.
7. (done) `ArgumentsParsing`, `EnvironmentGuessing`, `Startup` with their proofs.
8. `ProcessTree` with SIGTSTP, which a descendant may ignore, and with PIDs that are used
   again.
9. (done) `ParsesAsMeant` and `ReadsRealParent` as theorems, the pause and the resume
   without their races, and the bound of the scan.
10. (done) `ImplementsTree`: the listing implements the scan of `ProcessTree`.
11. An abstract pause and resume that `ProcessTree` implements, by which `SignalTree` of
    `CommandControl` could be justified.
