---------------------------- MODULE MiningEngine ----------------------------
(***************************************************************************)
(* The mining engine of the library taron-miner (engine.rs) with its burst *)
(* controller (burst.rs) and thermal governor (thermal.rs).  start_async   *)
(* spawns a mining loop and a thermal monitor; nothing but the flag        *)
(* is_running keeps a second call out, and a loop sets it only when it     *)
(* handles a Start.  All loops share the flags, the command channel, the   *)
(* nonce, the burst controller and the thermal state; a header is a local  *)
(* of its loop.  An action is what a task does between two accesses to     *)
(* shared state.                                                           *)
(*                                                                         *)
(* Durations are nondeterministic: whether a burst is over, and what the   *)
(* PID controller makes of a temperature.  Intensities are tenths.  Of the *)
(* configuration there is the burst pattern, of the statistics the two     *)
(* counters; the others, the stats timer and GetStats are for display.     *)
(***************************************************************************)
EXTENDS Integers, Sequences, FiniteSets

CONSTANTS
    Loops,            \* bound: mining loops alive at a time
    Headers,
    Patterns,         \* burst configurations of callers
    Intensities,      \* MIN_INTENSITY to MAX_INTENSITY, in tenths
    NoHeader,
    MaxStarts, MaxCommands, MaxNonce    \* bounds: start_async calls, commands, hashes

MIN_INTENSITY == 1
MAX_INTENSITY == 10
DEFAULT_BURST_MS == 20
DEFAULT_SLEEP_MS == 10
MIN_MS == 1         \* of a burst and of a sleep
MAX_MS == 1000

BurstConfigs == [burst_ms : MIN_MS..MAX_MS, sleep_ms : MIN_MS..MAX_MS, adaptive : BOOLEAN]

ClampMs(ms) == IF ms < MIN_MS THEN MIN_MS ELSE IF ms > MAX_MS THEN MAX_MS ELSE ms

\* BurstConfig::new.  A pattern that is not adaptive is taken to come from here: the
\* fields are public, and one written field by field need not be within the range.
CustomBurst(burst_ms, sleep_ms) ==
    [burst_ms |-> ClampMs(burst_ms), sleep_ms |-> ClampMs(sleep_ms), adaptive |-> FALSE]

LowPower == [burst_ms |-> 15, sleep_ms |-> 25, adaptive |-> TRUE]
Balanced == [burst_ms |-> 20, sleep_ms |-> 10, adaptive |-> TRUE]
Performance == [burst_ms |-> 40, sleep_ms |-> 10, adaptive |-> TRUE]

ASSUME EngineAssumption ==
    /\ IsFiniteSet(Loops)
    /\ Intensities \subseteq MIN_INTENSITY..MAX_INTENSITY
    /\ {MIN_INTENSITY, MAX_INTENSITY} \subseteq Intensities
    /\ \A p \in Patterns : \/ p \in {LowPower, Balanced, Performance}
                          \/ /\ p.burst_ms \in Nat /\ p.sleep_ms \in Nat
                             /\ p = CustomBurst(p.burst_ms, p.sleep_ms)
    /\ MaxStarts \in Nat /\ MaxCommands \in Nat /\ MaxNonce \in Nat

VARIABLES
    running, paused,
    commands,     \* command_tx to command_rx
    loop,         \* what each loop is at, with its locals
    monitors,     \* thermal monitors; they run for ever
    thermal,      \* ThermalState
    burst,        \* config and in_burst_phase of the BurstController
    nonce,        \* current_nonce
    stats,        \* MiningStats
    found,        \* nonces of the HashFound events
    late,         \* hashes of a loop since the state became critical
    sent          \* commands sent so far

flags == <<running, paused>>
counts == <<nonce, stats, found, late>>
vars == <<running, paused, commands, loop, monitors, thermal, burst, nonce, stats, found, late, sent>>

Commands ==
    [name : {"Start"}, header : Headers] \cup [name : {"UpdateConfig"}, pattern : Patterns]
      \cup [name : {"Stop", "Pause", "Resume"}]

Off == [pc |-> "off"]
Alive(l) == loop[l] # Off
Waiting(header) == [pc |-> "select", header |-> header]

TypeOK ==
    /\ running \in BOOLEAN /\ paused \in BOOLEAN
    /\ commands \in Seq(Commands)
    /\ \A l \in Loops : /\ loop[l].pc \in {"off", "select", "command", "state", "burst", "nonce", "hash"}
                        /\ Alive(l) => loop[l].header \in Headers \cup {NoHeader}
    /\ monitors \in 0..MaxStarts
    /\ thermal \in [intensity : Intensities, is_critical : BOOLEAN]
    /\ burst \in [config : BurstConfigs, in_burst_phase : BOOLEAN]
    /\ nonce \in 0..MaxNonce
    /\ stats \in [total_hashes : 0..MaxNonce, valid_hashes : 0..MaxNonce]
    /\ stats.valid_hashes <= stats.total_hashes
    /\ found \in Seq(0..MaxNonce)
    /\ late \in [Loops -> Nat]
    /\ sent \in 0..MaxCommands

-----------------------------------------------------------------------------
(* ThermalGovernor                                                         *)

NewThermalState == [intensity |-> MAX_INTENSITY, is_critical |-> FALSE]

\* PidController::compute and the clamp: errors, their integral and the time
\* between two calls give any intensity.
Regulated == Intensities

\* read_temperature: the mean of the zones that can be read.
Readings == {"none", "normal", "critical"}

\* The state after a reading: none, below CRITICAL_TEMP or not.  Without one
\* mining goes on at full intensity.
Updated(reading) ==
    IF reading = "none" THEN {NewThermalState}
    ELSE IF reading = "critical" THEN {[intensity |-> MIN_INTENSITY, is_critical |-> TRUE]}
    ELSE {[intensity |-> i, is_critical |-> FALSE] : i \in Regulated}

\* late counts from the moment the state becomes critical.
ThermalUpdate(reading) ==
    /\ thermal' \in Updated(reading)
    /\ late' = IF thermal'.is_critical /\ thermal.is_critical THEN late ELSE [l \in Loops |-> 0]

MonitorUpdate(reading) ==
    /\ monitors > 0
    /\ ThermalUpdate(reading)
    /\ UNCHANGED <<flags, commands, loop, monitors, burst, nonce, stats, found, sent>>

-----------------------------------------------------------------------------
(* BurstController                                                         *)

NewController(pattern) == [config |-> pattern, in_burst_phase |-> FALSE]

\* update_config: nothing replaces a configuration that is not adaptive.
UpdateConfig(b, pattern) == IF b.config.adaptive THEN [b EXCEPT !.config = pattern] ELSE b

\* adapt_to_thermal_intensity, from the default pattern whatever the current.
Adapted(b, intensity) ==
    UpdateConfig(b, [burst_ms |-> (DEFAULT_BURST_MS * intensity) \div 10,
                     sleep_ms |-> (DEFAULT_SLEEP_MS * (20 - intensity)) \div 10,
                     adaptive |-> TRUE])

\* cycle_blocking: the sleep at the end of a burst is under the write lock.
Cycled(b, elapsed) ==
    [b EXCEPT !.in_burst_phase = ~(b.in_burst_phase /\ elapsed)]

-----------------------------------------------------------------------------
(* Callers                                                                 *)

StartAsync(l) ==
    /\ ~Alive(l)
    /\ monitors < MaxStarts
    /\ ~running
    /\ monitors' = monitors + 1
    /\ loop' = [loop EXCEPT ![l] = Waiting(NoHeader)]
    /\ UNCHANGED <<flags, commands, thermal, burst, counts, sent>>

Send(command) ==
    /\ sent < MaxCommands
    /\ sent' = sent + 1
    /\ commands' = Append(commands, command)
    /\ UNCHANGED <<flags, loop, monitors, thermal, burst, counts>>

-----------------------------------------------------------------------------
(* A mining loop                                                           *)

\* Mutant: commands wait for the engine to run.
TakeCommandRunning(l) ==
    /\ loop[l].pc = "select"
    /\ running
    /\ commands # <<>>
    /\ commands' = Tail(commands)
    /\ loop' = [loop EXCEPT ![l] = [pc |-> "command", header |-> @.header, command |-> Head(commands)]]
    /\ UNCHANGED <<flags, monitors, thermal, burst, counts, sent>>

TakeCommand(l) ==
    /\ loop[l].pc = "select"
    /\ commands # <<>>
    /\ commands' = Tail(commands)
    /\ loop' = [loop EXCEPT ![l] = [pc |-> "command", header |-> @.header, command |-> Head(commands)]]
    /\ UNCHANGED <<flags, monitors, thermal, burst, counts, sent>>

\* Mutant: the loop ends without a word.
RunningAfterBreak(c) == (c.name = "Start") \/ running

RunningAfter(c) == IF c.name \in {"Start", "Stop"} THEN c.name = "Start" ELSE running

\* A Stop ends this loop only.
HandleCommand(l) ==
    LET c == loop[l].command
    IN  /\ loop[l].pc = "command"
        /\ running' = RunningAfter(c)
        /\ paused' = IF c.name \in {"Pause", "Resume"} THEN c.name = "Pause" ELSE paused
        /\ burst' = IF c.name = "UpdateConfig" THEN UpdateConfig(burst, c.pattern) ELSE burst
        /\ loop' = [loop EXCEPT ![l] =
             IF c.name = "Stop" THEN Off
             ELSE Waiting(IF c.name = "Start" THEN c.header ELSE @.header)]
        /\ UNCHANGED <<commands, monitors, thermal, counts, sent>>

\* mine_iteration, if the sleep of a millisecond wins the select.
BeginIteration(l, reading) ==
    /\ loop[l].pc = "select"
    /\ running /\ ~paused
    /\ loop[l].header # NoHeader
    /\ nonce + Cardinality({k \in Loops : loop[k].pc \in {"state", "burst", "nonce"}}) < MaxNonce
    /\ ThermalUpdate(reading)
    /\ loop' = [loop EXCEPT ![l] = [pc |-> "state", header |-> @.header]]
    /\ UNCHANGED <<flags, commands, monitors, burst, nonce, stats, found, sent>>

ReadThermalState(l) ==
    /\ loop[l].pc = "state"
    /\ loop' = [loop EXCEPT ![l] = [pc |-> "burst", header |-> @.header, thermal |-> thermal]]
    /\ UNCHANGED <<flags, commands, monitors, thermal, burst, counts, sent>>

\* Mutant: a critical temperature only shortens the bursts.
ShouldMineHot(l, b) == b.in_burst_phase

ShouldMine(l, b) == b.in_burst_phase /\ ~loop[l].thermal.is_critical

\* Two write locks, one after the other; a loop that comes in between only
\* changes the pattern, and the phase does not depend on that here.
AdaptAndCycle(l, elapsed) ==
    /\ loop[l].pc = "burst"
    /\ burst' = Cycled(Adapted(burst, loop[l].thermal.intensity), elapsed)
    /\ loop' = [loop EXCEPT ![l] = IF ShouldMine(l, burst') THEN [pc |-> "nonce", header |-> @.header]
                                   ELSE Waiting(@.header)]
    /\ UNCHANGED <<flags, commands, monitors, thermal, counts, sent>>

\* Mutant: the nonce is loaded here and stored only after the hash.
NextNonceStale(l) == stats.total_hashes

NextNonce(l) == nonce

\* fetch_add, and the hash.
TakeNonce(l) ==
    /\ loop[l].pc = "nonce"
    /\ nonce' = nonce + 1
    /\ late' = [late EXCEPT ![l] = @ + (IF thermal.is_critical THEN 1 ELSE 0)]
    /\ loop' = [loop EXCEPT ![l] = [pc |-> "hash", header |-> @.header, nonce |-> NextNonce(l)]]
    /\ UNCHANGED <<flags, commands, monitors, thermal, burst, stats, found, sent>>

\* Mutant: total_hashes is counted for misses only.
CountedMisses(valid) ==
    [stats EXCEPT !.total_hashes = @ + (IF valid THEN 0 ELSE 1), !.valid_hashes = @ + (IF valid THEN 1 ELSE 0)]

Counted(valid) ==
    [stats EXCEPT !.total_hashes = @ + 1, !.valid_hashes = @ + (IF valid THEN 1 ELSE 0)]

FinishHash(l, valid) ==
    /\ loop[l].pc = "hash"
    /\ stats' = Counted(valid)
    /\ found' = IF valid THEN Append(found, loop[l].nonce) ELSE found
    /\ loop' = [loop EXCEPT ![l] = Waiting(@.header)]
    /\ UNCHANGED <<flags, commands, monitors, thermal, burst, nonce, late, sent>>

Iterate(l) ==
    \/ ReadThermalState(l) \/ TakeNonce(l)
    \/ \E b \in BOOLEAN : AdaptAndCycle(l, b) \/ FinishHash(l, b)

-----------------------------------------------------------------------------

Init ==
    /\ running = FALSE /\ paused = FALSE
    /\ commands = <<>>
    /\ loop = [l \in Loops |-> Off]
    /\ monitors = 0
    /\ thermal = NewThermalState
    /\ burst \in {NewController(p) : p \in Patterns}
    /\ nonce = 0
    /\ stats = [total_hashes |-> 0, valid_hashes |-> 0]
    /\ found = <<>>
    /\ late = [l \in Loops |-> 0]
    /\ sent = 0

Next ==
    \/ \E command \in Commands : Send(command)
    \/ \E reading \in Readings : MonitorUpdate(reading)
    \/ \E l \in Loops :
        \/ StartAsync(l) \/ TakeCommand(l) \/ HandleCommand(l)
        \/ \E reading \in Readings : BeginIteration(l, reading)
        \/ Iterate(l)

\* The command branch of select! is ready whenever it is polled, and the branches
\* are polled from a random one on, so a waiting command is taken.  The sleep of
\* the mining branch starts anew with every select!, so nothing makes it win.
Spec ==
    /\ Init /\ [][Next]_vars
    /\ \A l \in Loops : WF_vars(HandleCommand(l)) /\ WF_vars(Iterate(l)) /\ SF_vars(TakeCommand(l))

-----------------------------------------------------------------------------
(* Properties                                                              *)

\* Loops that run together never report a nonce twice, and every nonce they
\* report was handed out by the shared counter.
FoundNoncesDiffer ==
    \A i, j \in 1..Len(found) : found[i] < nonce /\ (found[i] = found[j] => i = j)

\* A critical temperature stops the engine: once the shared state says so, each
\* loop finishes at most the iteration whose copy of the state is older.
CriticalStopsHashing == \A l \in Loops : late[l] <= 1

\* is_running never outlives the loops, or start_async would refuse to start the
\* engine for ever, whatever loops handled Start and Stop in whatever order.
RunningHasLoop == running => \E l \in Loops : Alive(l)

\* A loop that lives takes every command that was sent, paused or not, running or
\* not, while others take some of them and mine in between.
CommandsAreHandled ==
    commands # <<>> ~> (commands = <<>> \/ \A l \in Loops : ~Alive(l))

=============================================================================
