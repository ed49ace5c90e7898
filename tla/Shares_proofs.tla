-------------------------- MODULE Shares_proofs --------------------------
(***************************************************************************)
(* Shares from the loop that finds them to the pool that credits them.     *)
(* First the mining engine, for any number of loops, calls of start_async, *)
(* commands and hashes; then the pool: a share is credited once, for every *)
(* bucket lifetime, timestamp window and number of handlers, workers,      *)
(* nonces and blocks.                                                      *)
(***************************************************************************)
EXTENDS MiningEngine, PoolShares, FiniteSetTheorems, SequenceTheorems, TLAPS

-----------------------------------------------------------------------------
(* The mining engine                                                       *)

AnyHeader == Headers \cup {NoHeader}
Thermals == [intensity : Intensities, is_critical : BOOLEAN]

\* What a loop carries from one step of mine_iteration to the next.
LoopStates ==
    {Off} \cup [pc : {"select", "state", "nonce"}, header : AnyHeader]
      \cup [pc : {"command"}, header : AnyHeader, command : Commands]
      \cup [pc : {"burst"}, header : AnyHeader, thermal : Thermals]
      \cup [pc : {"hash"}, header : AnyHeader, nonce : Nat]

Shapes ==
    /\ running \in BOOLEAN
    /\ commands \in Seq(Commands)
    /\ loop \in [Loops -> LoopStates]
    /\ thermal \in Thermals
    /\ nonce \in Nat
    /\ found \in Seq(Nat)
    /\ late \in [Loops -> Nat]

\* Intensities include both ends of their range.
LEMMA EndsOfRange == MIN_INTENSITY \in Intensities /\ MAX_INTENSITY \in Intensities
  BY EngineAssumption, Zenon

\* A temperature reading leaves a thermal state.
LEMMA ThermalShape ==
    ASSUME NEW reading \in Readings, ThermalUpdate(reading), Shapes
    PROVE  thermal' \in Thermals /\ late' \in [Loops -> Nat]
  <1>1. thermal' \in Updated(reading) /\ late' \in {late, [l \in Loops |-> 0]}
    BY DEF ThermalUpdate
  <1>2. NewThermalState \in Thermals /\ [intensity |-> MIN_INTENSITY, is_critical |-> TRUE] \in Thermals
    BY EndsOfRange DEF NewThermalState, Thermals
  <1>3. {[intensity |-> i, is_critical |-> FALSE] : i \in Regulated} \subseteq Thermals
    <2>1. \A i \in Regulated : [intensity |-> i, is_critical |-> FALSE] \in Thermals
      BY DEF Regulated, Thermals
    <2> QED  BY <2>1, Zenon
  <1>4. Updated(reading) \subseteq Thermals
    <2>1. CASE reading \in {"none", "critical"}
      BY <1>2, <2>1 DEF Updated
    <2>2. CASE reading \notin {"none", "critical"}
      BY <1>3, <2>2 DEF Updated
    <2> QED  BY <2>1, <2>2
  <1> QED  BY <1>1, <1>4 DEF Shapes

\* One step of one loop that takes or handles a command.
LEMMA CommandShape ==
    ASSUME Shapes, NEW l \in Loops, TakeCommand(l) \/ HandleCommand(l)
    PROVE  Shapes'
  <1>1. CASE TakeCommand(l)
    BY <1>1 DEF Shapes, TakeCommand, LoopStates, flags, counts, Off
  <1>2. CASE HandleCommand(l)
    <2>1. loop[l] \in [pc : {"command"}, header : AnyHeader, command : Commands]
      BY <1>2 DEF Shapes, HandleCommand, LoopStates, Off
    <2>2. loop[l].command.name = "Start" => loop[l].command.header \in AnyHeader
      BY <2>1 DEF Commands, AnyHeader
    <2>3. loop' \in [Loops -> LoopStates]
      BY <1>2, <2>1, <2>2 DEF Shapes, HandleCommand, LoopStates, Waiting
    <2>4. running' \in BOOLEAN
      BY <1>2 DEF Shapes, HandleCommand, RunningAfter
    <2> QED  BY <1>2, <2>3, <2>4 DEF Shapes, HandleCommand, counts
  <1> QED  BY <1>1, <1>2

\* One step of a mining iteration.
LEMMA IterationShape ==
    ASSUME Shapes, NEW l \in Loops,
           Iterate(l) \/ \E reading \in Readings : BeginIteration(l, reading)
    PROVE  Shapes'
  <1>1. CASE ReadThermalState(l)
    BY <1>1 DEF Shapes, ReadThermalState, LoopStates, flags, counts, Off
  <1>2. CASE TakeNonce(l)
    BY <1>2 DEF Shapes, TakeNonce, LoopStates, NextNonce, flags, Off
  <1>3. ASSUME NEW b \in BOOLEAN, AdaptAndCycle(l, b)  PROVE Shapes'
    BY <1>3 DEF Shapes, AdaptAndCycle, LoopStates, Waiting, flags, counts, Off
  <1>4. ASSUME NEW b \in BOOLEAN, FinishHash(l, b)  PROVE Shapes'
    <2>1. loop[l].pc = "hash" /\ loop' = [loop EXCEPT ![l] = Waiting(@.header)]
      BY <1>4, Zenon DEF FinishHash
    <2>2. loop[l].nonce \in Nat /\ loop[l].header \in AnyHeader
      <3>1. loop[l] \in LoopStates
        BY DEF Shapes
      <3> QED  BY <2>1, <3>1 DEF LoopStates, Off
    <2>3. loop' \in [Loops -> LoopStates]
      BY <2>1, <2>2 DEF Shapes, LoopStates, Waiting
    <2>4. found' \in {found, Append(found, loop[l].nonce)}
      BY <1>4, Zenon DEF FinishHash
    <2>5. found' \in Seq(Nat)
      <3>1. found \in Seq(Nat)
        BY DEF Shapes
      <3>2. Append(found, loop[l].nonce) \in Seq(Nat)
        BY <2>2, <3>1
      <3> QED  BY <2>4, <3>1, <3>2, Zenon
    <2>6. UNCHANGED <<flags, commands, monitors, thermal, burst, nonce, late, sent>>
      BY <1>4, Zenon DEF FinishHash
    <2> QED  BY <2>3, <2>5, <2>6 DEF Shapes, flags
  <1>5. ASSUME NEW reading \in Readings, BeginIteration(l, reading)  PROVE Shapes'
    <2>1. thermal' \in Thermals /\ late' \in [Loops -> Nat]
      BY <1>5, ThermalShape DEF BeginIteration
    <2>2. loop' \in [Loops -> LoopStates]
      BY <1>5 DEF Shapes, BeginIteration, LoopStates, Off
    <2> QED  BY <1>5, <2>1, <2>2 DEF Shapes, BeginIteration, flags
  <1> QED  BY <1>1, <1>2, <1>3, <1>4, <1>5 DEF Iterate

\* Every step keeps the shapes.
LEMMA ShapesNext == ASSUME Shapes, [Next]_vars PROVE Shapes'
  <1>1. ASSUME NEW command \in Commands, Send(command)  PROVE Shapes'
    BY <1>1 DEF Shapes, Send, flags, counts
  <1>2. ASSUME NEW reading \in Readings, MonitorUpdate(reading)  PROVE Shapes'
    BY <1>2, ThermalShape DEF Shapes, MonitorUpdate, flags
  <1>3. ASSUME NEW l \in Loops, StartAsync(l)  PROVE Shapes'
    BY <1>3 DEF Shapes, StartAsync, LoopStates, Waiting, AnyHeader, flags, counts
  <1>4. CASE UNCHANGED vars
    BY <1>4 DEF Shapes, vars
  <1>5. ASSUME NEW l \in Loops, TakeCommand(l) \/ HandleCommand(l)  PROVE Shapes'
    BY <1>5, CommandShape
  <1>6. ASSUME NEW l \in Loops, Iterate(l) \/ \E reading \in Readings : BeginIteration(l, reading)
        PROVE  Shapes'
    BY <1>6, IterationShape
  <1>7. CASE Next
    BY <1>7, <1>1, <1>2, <1>3, <1>5, <1>6, Zenon DEF Next
  <1> QED  BY <1>4, <1>7

\* An engine that was just built has no loop and an empty channel.
LEMMA ShapesInit == Init => Shapes
  <1> SUFFICES ASSUME Init PROVE Shapes
    OBVIOUS
  <1>1. thermal \in Thermals
    BY EndsOfRange DEF Init, NewThermalState, Thermals
  <1>2. loop \in [Loops -> LoopStates]
    BY DEF Init, LoopStates
  <1>3. commands \in Seq(Commands) /\ found \in Seq(Nat)
    BY DEF Init
  <1> QED  BY <1>1, <1>2, <1>3 DEF Init, Shapes

-----------------------------------------------------------------------------
(* is_running has a loop                                                   *)

\* No step leaves is_running without a loop.
LEMMA RunningNext == ASSUME Shapes, RunningHasLoop, [Next]_vars PROVE RunningHasLoop'
  <1> USE DEF RunningHasLoop, Alive
  <1>1. ASSUME NEW l \in Loops, loop'[l].pc # "off", Shapes'  PROVE RunningHasLoop'
    BY <1>1 DEF Off
  <1>2. ASSUME UNCHANGED <<running, loop>>  PROVE RunningHasLoop'
    BY <1>2
  <1>3. ASSUME NEW command \in Commands, Send(command)  PROVE RunningHasLoop'
    BY <1>2, <1>3 DEF Send, flags
  <1>4. ASSUME NEW reading \in Readings, MonitorUpdate(reading)  PROVE RunningHasLoop'
    BY <1>2, <1>4 DEF MonitorUpdate, flags
  <1>5. Shapes'
    BY ShapesNext
  <1>6. ASSUME NEW l \in Loops, StartAsync(l)  PROVE RunningHasLoop'
    BY <1>1, <1>5, <1>6 DEF StartAsync, Waiting, Shapes
  <1>7. ASSUME NEW l \in Loops, TakeCommand(l)  PROVE RunningHasLoop'
    BY <1>1, <1>5, <1>7 DEF TakeCommand, Shapes
  <1>8. ASSUME NEW l \in Loops, HandleCommand(l)  PROVE RunningHasLoop'
    <2>1. CASE loop[l].command.name = "Stop"
      BY <1>8, <2>1 DEF HandleCommand, RunningAfter
    <2>2. CASE loop[l].command.name # "Stop"
      BY <1>1, <1>5, <1>8, <2>2 DEF HandleCommand, Waiting, Shapes
    <2> QED  BY <2>1, <2>2
  <1>9. ASSUME NEW l \in Loops, NEW reading \in Readings, BeginIteration(l, reading)  PROVE RunningHasLoop'
    BY <1>1, <1>5, <1>9 DEF BeginIteration, Shapes
  <1>10. ASSUME NEW l \in Loops, Iterate(l)  PROVE RunningHasLoop'
    <2>1. loop'[l].pc # "off"
      <3>1. CASE ReadThermalState(l)
        BY <3>1 DEF ReadThermalState, Shapes
      <3>2. CASE TakeNonce(l)
        BY <3>2 DEF TakeNonce, Shapes
      <3>3. ASSUME NEW b \in BOOLEAN, AdaptAndCycle(l, b)  PROVE loop'[l].pc # "off"
        BY <3>3 DEF AdaptAndCycle, Waiting, Shapes
      <3>4. ASSUME NEW b \in BOOLEAN, FinishHash(l, b)  PROVE loop'[l].pc # "off"
        <4>1. loop' = [loop EXCEPT ![l] = Waiting(@.header)]
          BY <3>4, Zenon DEF FinishHash
        <4> QED  BY <4>1 DEF Waiting, Shapes
      <3> QED  BY <1>10, <3>1, <3>2, <3>3, <3>4 DEF Iterate
    <2> QED  BY <1>1, <1>5, <2>1
  <1>11. CASE UNCHANGED vars
    BY <1>2, <1>11 DEF vars
  <1>12. CASE Next
    BY <1>12, <1>3, <1>4, <1>6, <1>7, <1>8, <1>9, <1>10, Zenon DEF Next
  <1> QED  BY <1>11, <1>12

\* However many loops the calls of start_async have left behind, and whichever of
\* them handle Start and Stop, is_running is never set without a loop (engine.rs).
THEOREM RunningAlwaysHasLoop == Spec => []RunningHasLoop
  <1>1. Init => RunningHasLoop
    BY DEF Init, RunningHasLoop
  <1> QED  BY <1>1, ShapesInit, ShapesNext, RunningNext, PTL DEF Spec

-----------------------------------------------------------------------------
(* A critical temperature stops the loops                                  *)

\* A loop that has hashed since the state became critical has seen it, or will
\* before it decides again.
CooledDown(l) ==
    /\ late[l] <= 1
    /\ late[l] = 1 => /\ thermal.is_critical
                      /\ loop[l].pc # "nonce"
                      /\ loop[l].pc = "burst" => loop[l].thermal.is_critical

AllCooledDown == \A l \in Loops : CooledDown(l)

\* A reading either clears the counts or leaves a state that is critical still.
LEMMA ThermalCoolsDown ==
    ASSUME Shapes, AllCooledDown, NEW reading \in Readings, ThermalUpdate(reading), NEW l \in Loops,
           \/ loop'[l] = loop[l]
           \/ loop'[l].pc = "state"
    PROVE  CooledDown(l)'
  <1>1. CASE late' = late /\ thermal'.is_critical
    BY <1>1 DEF AllCooledDown, CooledDown, Shapes
  <1>2. CASE late' = [k \in Loops |-> 0]
    BY <1>2 DEF CooledDown
  <1> QED  BY <1>1, <1>2 DEF ThermalUpdate

\* Nothing about hashing changes and the loop goes somewhere harmless.
LEMMA StaysCool ==
    ASSUME Shapes, AllCooledDown, NEW l \in Loops, UNCHANGED <<thermal, late>>,
           loop'[l] = loop[l] \/ loop'[l].pc \in {"off", "select", "command", "hash"}
    PROVE  CooledDown(l)'
  BY DEF AllCooledDown, CooledDown

\* A step of one iteration keeps every loop cool.
LEMMA IterationCools ==
    ASSUME Shapes, AllCooledDown, NEW l \in Loops, Iterate(l)
    PROVE  AllCooledDown'
  <1> SUFFICES ASSUME NEW k \in Loops  PROVE CooledDown(k)'
    BY DEF AllCooledDown
  <1>1. CASE ReadThermalState(l)
    BY <1>1 DEF ReadThermalState, AllCooledDown, CooledDown, Shapes, counts
  <1>2. CASE TakeNonce(l)
    <2>1. late[l] = 0
      BY <1>2 DEF TakeNonce, AllCooledDown, CooledDown, Shapes
    <2>2. CASE k = l
      BY <1>2, <2>1, <2>2 DEF TakeNonce, CooledDown, Shapes
    <2>3. CASE k # l
      BY <1>2, <2>3 DEF TakeNonce, AllCooledDown, CooledDown, Shapes
    <2> QED  BY <2>2, <2>3
  <1>3. ASSUME NEW b \in BOOLEAN, AdaptAndCycle(l, b)  PROVE CooledDown(k)'
    <2>1. UNCHANGED <<thermal, late>>
      BY <1>3 DEF AdaptAndCycle, counts
    <2>2. CASE ShouldMine(l, burst')
      <3>1. loop[l].pc = "burst" /\ ~loop[l].thermal.is_critical
        BY <1>3, <2>2 DEF AdaptAndCycle, ShouldMine
      <3>2. late[l] = 0
        BY <3>1 DEF AllCooledDown, CooledDown, Shapes
      <3>3. CASE k = l
        BY <2>1, <3>2, <3>3 DEF CooledDown
      <3>4. CASE k # l
        BY <1>3, <2>1, <3>4, StaysCool DEF AdaptAndCycle, Shapes
      <3> QED  BY <3>3, <3>4
    <2>3. CASE ~ShouldMine(l, burst')
      BY <1>3, <2>1, <2>3, StaysCool DEF AdaptAndCycle, Waiting, Shapes
    <2> QED  BY <2>2, <2>3
  <1>4. ASSUME NEW b \in BOOLEAN, FinishHash(l, b)  PROVE CooledDown(k)'
    <2>1. /\ loop' = [loop EXCEPT ![l] = Waiting(@.header)]
          /\ thermal' = thermal /\ late' = late
      BY <1>4, Zenon DEF FinishHash
    <2> QED  BY <2>1, StaysCool DEF Waiting, Shapes
  <1> QED  BY <1>1, <1>2, <1>3, <1>4 DEF Iterate

\* Every step keeps every loop cool.
LEMMA CoolNext == ASSUME Shapes, AllCooledDown, [Next]_vars PROVE AllCooledDown'
  <1>1. ASSUME UNCHANGED <<loop, thermal, late>>  PROVE AllCooledDown'
    BY <1>1 DEF AllCooledDown, CooledDown
  <1>2. ASSUME NEW command \in Commands, Send(command)  PROVE AllCooledDown'
    BY <1>1, <1>2 DEF Send, counts
  <1>3. ASSUME NEW reading \in Readings, MonitorUpdate(reading)  PROVE AllCooledDown'
    BY <1>3, ThermalCoolsDown DEF MonitorUpdate, AllCooledDown
  <1>4. ASSUME NEW l \in Loops, StartAsync(l)  PROVE AllCooledDown'
    BY <1>4, StaysCool DEF StartAsync, Waiting, Shapes, counts, AllCooledDown
  <1>5. ASSUME NEW l \in Loops, TakeCommand(l)  PROVE AllCooledDown'
    BY <1>5, StaysCool DEF TakeCommand, Shapes, counts, AllCooledDown
  <1>6. ASSUME NEW l \in Loops, HandleCommand(l)  PROVE AllCooledDown'
    BY <1>6, StaysCool DEF HandleCommand, Waiting, Off, Shapes, counts, AllCooledDown
  <1>7. ASSUME NEW l \in Loops, NEW reading \in Readings, BeginIteration(l, reading)  PROVE AllCooledDown'
    BY <1>7, ThermalCoolsDown DEF BeginIteration, Shapes, AllCooledDown
  <1>8. ASSUME NEW l \in Loops, Iterate(l)  PROVE AllCooledDown'
    BY <1>8, IterationCools
  <1>9. CASE UNCHANGED vars
    BY <1>1, <1>9 DEF vars
  <1>10. CASE Next
    BY <1>10, <1>2, <1>3, <1>4, <1>5, <1>6, <1>7, <1>8, Zenon DEF Next
  <1> QED  BY <1>9, <1>10

\* Whatever monitors and loops update the thermal state, no loop hashes more than
\* once after it has become critical (thermal.rs, mine_iteration in engine.rs).
THEOREM CriticalAlwaysStopsHashing == Spec => []CriticalStopsHashing
  <1>1. Init => AllCooledDown
    BY DEF Init, AllCooledDown, CooledDown
  <1>2. AllCooledDown => CriticalStopsHashing
    BY DEF AllCooledDown, CooledDown, CriticalStopsHashing
  <1> QED  BY <1>1, <1>2, ShapesInit, ShapesNext, CoolNext, PTL DEF Spec

-----------------------------------------------------------------------------
(* Nonces                                                                  *)

Hashing(l) == loop[l].pc = "hash"

\* The nonces in use, reported or being hashed, are old and all different.
NoncesDiffer ==
    /\ FoundNoncesDiffer
    /\ \A l \in Loops : Hashing(l) =>
         /\ loop[l].nonce < nonce
         /\ \A i \in 1..Len(found) : found[i] # loop[l].nonce
         /\ \A k \in Loops \ {l} : Hashing(k) => loop[k].nonce # loop[l].nonce

\* A step that reports nothing and begins no hash.
LEMMA NoncesStay ==
    ASSUME Shapes, NoncesDiffer, UNCHANGED <<nonce, found>>,
           \A l \in Loops : loop'[l] = loop[l] \/ loop'[l].pc # "hash"
    PROVE  NoncesDiffer'
  BY DEF NoncesDiffer, FoundNoncesDiffer, Hashing

\* fetch_add gives a nonce that nobody has.
LEMMA TakeNonceDiffers ==
    ASSUME Shapes, NoncesDiffer, NEW l \in Loops, TakeNonce(l)
    PROVE  NoncesDiffer'
  <1>1. /\ nonce \in Nat /\ nonce' = nonce + 1 /\ found' = found
        /\ loop'[l].pc = "hash" /\ loop'[l].nonce = nonce
        /\ \A k \in Loops \ {l} : loop'[k] = loop[k]
    BY DEF TakeNonce, NextNonce, Shapes
  <1>2. \A i \in 1..Len(found) : found[i] \in Nat
    BY DEF Shapes
  <1>3. \A k \in Loops : Hashing(k) => loop[k].nonce \in Nat
    <2> SUFFICES ASSUME NEW k \in Loops, Hashing(k) PROVE loop[k].nonce \in Nat
      OBVIOUS
    <2>1. loop[k] \in LoopStates
      BY DEF Shapes
    <2> QED  BY <2>1 DEF LoopStates, Off, Hashing
  <1>4. FoundNoncesDiffer'
    BY <1>1, <1>2 DEF NoncesDiffer, FoundNoncesDiffer
  <1>5. ASSUME NEW k \in Loops, Hashing(k)'
        PROVE  /\ loop'[k].nonce < nonce'
               /\ \A i \in 1..Len(found') : found'[i] # loop'[k].nonce
               /\ \A j \in Loops \ {k} : Hashing(j)' => loop'[j].nonce # loop'[k].nonce
    <2>1. CASE k = l
      BY <1>1, <1>2, <1>3, <2>1 DEF NoncesDiffer, FoundNoncesDiffer, Hashing
    <2>2. CASE k # l
      BY <1>1, <1>2, <1>3, <1>5, <2>2 DEF NoncesDiffer, FoundNoncesDiffer, Hashing
    <2> QED  BY <2>1, <2>2
  <1> QED  BY <1>4, <1>5 DEF NoncesDiffer

\* A HashFound event carries a nonce that was in use by its loop only.
LEMMA FinishHashDiffers ==
    ASSUME Shapes, NoncesDiffer, NEW l \in Loops, NEW b \in BOOLEAN, FinishHash(l, b)
    PROVE  NoncesDiffer'
  <1>1. /\ loop[l].pc = "hash" /\ nonce' = nonce
        /\ loop' = [loop EXCEPT ![l] = Waiting(@.header)]
        /\ found' = found \/ found' = Append(found, loop[l].nonce)
    BY Zenon DEF FinishHash
  <1>2. loop'[l].pc # "hash" /\ \A k \in Loops \ {l} : loop'[k] = loop[k]
    BY <1>1 DEF Waiting, Shapes
  <1>3. CASE found' = found
    BY <1>1, <1>2, <1>3, NoncesStay
  <1>4. CASE found' = Append(found, loop[l].nonce)
    <2>1. found \in Seq(Nat) /\ loop[l].nonce \in Nat /\ nonce \in Nat
      <3>1. loop[l] \in LoopStates /\ found \in Seq(Nat) /\ nonce \in Nat
        BY DEF Shapes
      <3>2. loop[l].nonce \in Nat
        BY <1>1, <3>1 DEF LoopStates, Off
      <3> QED  BY <3>1, <3>2
    <2>2. /\ Len(found') = Len(found) + 1 /\ found'[Len(found) + 1] = loop[l].nonce
          /\ \A i \in 1..Len(found) : found'[i] = found[i]
          /\ Len(found) \in Nat
      BY <1>4, <2>1
    <2>3. FoundNoncesDiffer'
      <3>1. /\ loop[l].nonce < nonce
            /\ \A i \in 1..Len(found) : found[i] < nonce /\ found[i] # loop[l].nonce
            /\ \A i, j \in 1..Len(found) : found[i] = found[j] => i = j
        BY <1>1 DEF NoncesDiffer, FoundNoncesDiffer, Hashing
      <3> SUFFICES ASSUME NEW i \in 1..Len(found) + 1, NEW j \in 1..Len(found) + 1
                   PROVE  found'[i] < nonce' /\ (found'[i] = found'[j] => i = j)
        BY <2>2 DEF FoundNoncesDiffer
      <3>2. i \in 1..Len(found) \/ i = Len(found) + 1
        BY <2>2
      <3>3. j \in 1..Len(found) \/ j = Len(found) + 1
        BY <2>2
      <3> QED  BY <1>1, <2>2, <3>1, <3>2, <3>3
    <2>4. ASSUME NEW k \in Loops, Hashing(k)'
          PROVE  /\ loop'[k].nonce < nonce'
                 /\ \A i \in 1..Len(found') : found'[i] # loop'[k].nonce
                 /\ \A j \in Loops \ {k} : Hashing(j)' => loop'[j].nonce # loop'[k].nonce
      BY <1>1, <1>2, <2>2, <2>4 DEF NoncesDiffer, Hashing
    <2> QED  BY <2>3, <2>4 DEF NoncesDiffer
  <1> QED  BY <1>1, <1>3, <1>4

\* Every step keeps the nonces apart.
LEMMA NoncesNext == ASSUME Shapes, NoncesDiffer, [Next]_vars PROVE NoncesDiffer'
  <1>1. ASSUME NEW command \in Commands, Send(command)  PROVE NoncesDiffer'
    BY <1>1, NoncesStay DEF Send, counts
  <1>2. ASSUME NEW reading \in Readings, MonitorUpdate(reading)  PROVE NoncesDiffer'
    BY <1>2, NoncesStay DEF MonitorUpdate
  <1>3. ASSUME NEW l \in Loops, StartAsync(l)  PROVE NoncesDiffer'
    BY <1>3, NoncesStay DEF StartAsync, Waiting, Shapes, counts
  <1>4. ASSUME NEW l \in Loops, TakeCommand(l)  PROVE NoncesDiffer'
    BY <1>4, NoncesStay DEF TakeCommand, Shapes, counts
  <1>5. ASSUME NEW l \in Loops, HandleCommand(l)  PROVE NoncesDiffer'
    BY <1>5, NoncesStay DEF HandleCommand, Waiting, Off, Shapes, counts
  <1>6. ASSUME NEW l \in Loops, NEW reading \in Readings, BeginIteration(l, reading)  PROVE NoncesDiffer'
    BY <1>6, NoncesStay DEF BeginIteration, Shapes
  <1>7. ASSUME NEW l \in Loops, Iterate(l)  PROVE NoncesDiffer'
    <2>1. CASE ReadThermalState(l)
      BY <2>1, NoncesStay DEF ReadThermalState, Shapes, counts
    <2>2. ASSUME NEW b \in BOOLEAN, AdaptAndCycle(l, b)  PROVE NoncesDiffer'
      BY <2>2, NoncesStay DEF AdaptAndCycle, Waiting, Shapes, counts
    <2> QED  BY <1>7, <2>1, <2>2, TakeNonceDiffers, FinishHashDiffers, Zenon DEF Iterate
  <1>8. CASE UNCHANGED vars
    BY <1>8, NoncesStay DEF vars
  <1>9. CASE Next
    BY <1>9, <1>1, <1>2, <1>3, <1>4, <1>5, <1>6, <1>7, Zenon DEF Next
  <1> QED  BY <1>8, <1>9

\* Any number of loops that share current_nonce report different nonces, all of
\* them handed out before (engine.rs).
THEOREM FoundNoncesAlwaysDiffer == Spec => []FoundNoncesDiffer
  <1>1. Init => NoncesDiffer
    BY DEF Init, NoncesDiffer, FoundNoncesDiffer, Hashing, Off
  <1>2. NoncesDiffer => FoundNoncesDiffer
    BY DEF NoncesDiffer
  <1> QED  BY <1>1, <1>2, ShapesInit, ShapesNext, NoncesNext, PTL DEF Spec

-----------------------------------------------------------------------------
(* Types, and what the counters count                                      *)

Controllers == [config : BurstConfigs, in_burst_phase : BOOLEAN]

Settings ==
    /\ paused \in BOOLEAN
    /\ monitors \in 0..MaxStarts
    /\ sent \in 0..MaxCommands
    /\ burst \in Controllers

\* Loops that have begun an iteration and have no nonce yet, and that hash.
Deciding == {k \in Loops : loop[k].pc \in {"state", "burst", "nonce"}}
InHash == {k \in Loops : loop[k].pc = "hash"}

\* Every nonce that was handed out has been counted or is being hashed.
Accounts ==
    /\ stats \in [total_hashes : Nat, valid_hashes : Nat]
    /\ stats.valid_hashes <= stats.total_hashes
    /\ stats.total_hashes + Cardinality(InHash) = nonce
    /\ nonce + Cardinality(Deciding) <= MaxNonce

\* Patterns of callers are within the limits of BurstConfig::new.
LEMMA PatternsInRange == Patterns \subseteq BurstConfigs
  <1> SUFFICES ASSUME NEW p \in Patterns PROVE p \in BurstConfigs
    OBVIOUS
  <1>1. CASE p \in {LowPower, Balanced, Performance}
    <2>1. LowPower \in BurstConfigs
      BY DEF LowPower, BurstConfigs, MIN_MS, MAX_MS
    <2>2. Balanced \in BurstConfigs
      BY DEF Balanced, BurstConfigs, MIN_MS, MAX_MS
    <2>3. Performance \in BurstConfigs
      BY DEF Performance, BurstConfigs, MIN_MS, MAX_MS
    <2> QED  BY <1>1, <2>1, <2>2, <2>3
  <1>2. CASE p.burst_ms \in Nat /\ p.sleep_ms \in Nat /\ p = CustomBurst(p.burst_ms, p.sleep_ms)
    <2>1. PICK b \in Nat, s \in Nat : p = CustomBurst(b, s)
      BY <1>2
    <2>2. ClampMs(b) \in MIN_MS..MAX_MS /\ ClampMs(s) \in MIN_MS..MAX_MS
      BY DEF ClampMs, MIN_MS, MAX_MS
    <2> QED  BY <2>1, <2>2 DEF CustomBurst, BurstConfigs
  <1> QED  BY <1>1, <1>2, EngineAssumption

\* update_config keeps a controller a controller.
LEMMA UpdateInRange ==
    ASSUME NEW b \in Controllers, NEW pattern \in BurstConfigs
    PROVE  UpdateConfig(b, pattern) \in Controllers
  BY DEF UpdateConfig, Controllers

\* So does an adaptation to any intensity: 2 to 20 ms of burst, 10 to 19 of sleep.
LEMMA AdaptedInRange ==
    ASSUME NEW b \in Controllers, NEW i \in Intensities
    PROVE  Adapted(b, i) \in Controllers
  <1>1. i \in 1..10
    BY EngineAssumption DEF MIN_INTENSITY, MAX_INTENSITY
  <1>2. (20 * i) \div 10 \in 1..1000 /\ (10 * (20 - i)) \div 10 \in 1..1000
    BY <1>1
  <1>3. [burst_ms |-> (DEFAULT_BURST_MS * i) \div 10, sleep_ms |-> (DEFAULT_SLEEP_MS * (20 - i)) \div 10,
         adaptive |-> TRUE] \in BurstConfigs
    BY <1>2 DEF BurstConfigs, DEFAULT_BURST_MS, DEFAULT_SLEEP_MS, MIN_MS, MAX_MS
  <1> QED  BY <1>3, UpdateInRange DEF Adapted

\* A loop that handles a command has one, and one that adapts the burst pattern
\* a copy of the thermal state.
LEMMA LocalsOfLoop ==
    ASSUME Shapes, NEW l \in Loops
    PROVE  /\ loop[l].pc = "command" => loop[l].command \in Commands
           /\ loop[l].pc = "burst" => loop[l].thermal.intensity \in Intensities
  <1>0. loop[l] \in LoopStates
    BY DEF Shapes
  <1>1. CASE loop[l].pc = "command"
    <2>1. loop[l] \in [pc : {"command"}, header : AnyHeader, command : Commands]
      BY <1>0, <1>1 DEF LoopStates, Off
    <2> QED  BY <1>1, <2>1
  <1>2. CASE loop[l].pc = "burst"
    <2>1. loop[l] \in [pc : {"burst"}, header : AnyHeader, thermal : Thermals]
      BY <1>0, <1>2 DEF LoopStates, Off
    <2> QED  BY <1>2, <2>1 DEF Thermals
  <1> QED  BY <1>1, <1>2

\* Every step keeps the settings in range.
LEMMA SettingsNext == ASSUME Shapes, Settings, [Next]_vars PROVE Settings'
  <1>0. MaxStarts \in Nat /\ MaxCommands \in Nat
    BY EngineAssumption
  <1>1. ASSUME NEW command \in Commands, Send(command)  PROVE Settings'
    BY <1>0, <1>1 DEF Send, flags, Settings
  <1>2. ASSUME NEW reading \in Readings, MonitorUpdate(reading)  PROVE Settings'
    BY <1>2 DEF MonitorUpdate, flags, Settings
  <1>3. ASSUME NEW l \in Loops, StartAsync(l)  PROVE Settings'
    BY <1>0, <1>3 DEF StartAsync, flags, Settings
  <1>4. ASSUME NEW l \in Loops, TakeCommand(l)  PROVE Settings'
    BY <1>4 DEF TakeCommand, flags, Settings
  <1>5. ASSUME NEW l \in Loops, HandleCommand(l)  PROVE Settings'
    <2>1. loop[l].command \in Commands
      BY <1>5, LocalsOfLoop DEF HandleCommand
    <2>2. loop[l].command.name = "UpdateConfig" => loop[l].command.pattern \in BurstConfigs
      BY <2>1, PatternsInRange DEF Commands
    <2>3. burst' \in Controllers
      BY <1>5, <2>2, UpdateInRange DEF HandleCommand, Settings
    <2>4. paused' \in BOOLEAN
      BY <1>5 DEF HandleCommand, Settings
    <2> QED  BY <1>5, <2>3, <2>4 DEF HandleCommand, Settings
  <1>6. ASSUME NEW l \in Loops, NEW reading \in Readings, BeginIteration(l, reading)  PROVE Settings'
    BY <1>6 DEF BeginIteration, flags, Settings
  <1>7. ASSUME NEW l \in Loops, Iterate(l)  PROVE Settings'
    <2>1. CASE ReadThermalState(l)
      BY <2>1 DEF ReadThermalState, flags, Settings
    <2>2. CASE TakeNonce(l)
      BY <2>2 DEF TakeNonce, flags, Settings
    <2>3. ASSUME NEW b \in BOOLEAN, AdaptAndCycle(l, b)  PROVE Settings'
      <3>1. loop[l].pc = "burst" /\ UNCHANGED <<flags, monitors, sent>>
            /\ burst' = Cycled(Adapted(burst, loop[l].thermal.intensity), b)
        BY <2>3, Zenon DEF AdaptAndCycle
      <3>2. loop[l].thermal.intensity \in Intensities
        BY <3>1, LocalsOfLoop
      <3>3. Adapted(burst, loop[l].thermal.intensity) \in Controllers
        BY <3>2, AdaptedInRange DEF Settings
      <3>4. \A c \in Controllers : Cycled(c, b) \in Controllers
        BY DEF Cycled, Controllers
      <3> QED  BY <3>1, <3>3, <3>4 DEF flags, Settings
    <2>4. ASSUME NEW b \in BOOLEAN, FinishHash(l, b)  PROVE Settings'
      <3>1. UNCHANGED <<flags, monitors, burst, sent>>
        BY <2>4, Zenon DEF FinishHash
      <3> QED  BY <3>1 DEF flags, Settings
    <2> QED  BY <1>7, <2>1, <2>2, <2>3, <2>4 DEF Iterate
  <1>8. CASE UNCHANGED vars
    BY <1>8 DEF vars, Settings
  <1>9. CASE Next
    BY <1>9, <1>1, <1>2, <1>3, <1>4, <1>5, <1>6, <1>7, Zenon DEF Next
  <1> QED  BY <1>8, <1>9

\* Sets of loops are finite.
LEMMA LoopSets == /\ IsFiniteSet(Deciding) /\ Cardinality(Deciding) \in Nat
                  /\ IsFiniteSet(InHash) /\ Cardinality(InHash) \in Nat
  <1>1. Deciding \subseteq Loops /\ InHash \subseteq Loops
    BY DEF Deciding, InHash
  <1> QED  BY <1>1, EngineAssumption, FS_Subset, FS_CardinalityType

\* A step that hands out no nonce, counts no hash and begins no iteration.
LEMMA AccountsStay ==
    ASSUME Accounts, UNCHANGED <<nonce, stats>>, Deciding' = Deciding, InHash' = InHash
    PROVE  Accounts'
  BY DEF Accounts

\* A loop that moves between places that are in neither set.
LEMMA Elsewhere ==
    ASSUME Shapes, Accounts, UNCHANGED <<nonce, stats>>, NEW l \in Loops, NEW x,
           loop' = [loop EXCEPT ![l] = x],
           loop[l].pc \in {"off", "select", "command"}, x.pc \in {"off", "select", "command"}
    PROVE  Accounts'
  <1>1. Deciding' = Deciding /\ InHash' = InHash
    BY DEF Deciding, InHash, Shapes
  <1> QED  BY <1>1, AccountsStay

\* A step of one iteration keeps the accounts.
LEMMA IterationCounts ==
    ASSUME Shapes, Accounts, NEW l \in Loops, Iterate(l)
    PROVE  Accounts'
  <1>0. nonce \in Nat /\ MaxNonce \in Nat
    BY EngineAssumption DEF Shapes
  <1>1. CASE ReadThermalState(l)
    <2>1. Deciding' = Deciding /\ InHash' = InHash
      BY <1>1 DEF ReadThermalState, Deciding, InHash, Shapes
    <2> QED  BY <1>1, <2>1, AccountsStay DEF ReadThermalState, counts
  <1>2. CASE TakeNonce(l)
    <2>1. /\ Deciding' = Deciding \ {l} /\ l \in Deciding
          /\ InHash' = InHash \cup {l} /\ l \notin InHash
      BY <1>2 DEF TakeNonce, Deciding, InHash, Shapes
    <2>2. Cardinality(Deciding') = Cardinality(Deciding) - 1 /\ Cardinality(InHash') = Cardinality(InHash) + 1
      BY <2>1, LoopSets, FS_AddElement, FS_RemoveElement
    <2>3. nonce' = nonce + 1 /\ stats' = stats
      BY <1>2 DEF TakeNonce
    <2>4. stats.total_hashes \in Nat
      BY DEF Accounts
    <2> QED  BY <1>0, <2>2, <2>3, <2>4, LoopSets DEF Accounts
  <1>3. ASSUME NEW b \in BOOLEAN, AdaptAndCycle(l, b)  PROVE Accounts'
    <2>1. /\ loop[l].pc = "burst" /\ UNCHANGED <<nonce, stats>>
          /\ \/ loop' = [loop EXCEPT ![l] = [pc |-> "nonce", header |-> @.header]]
             \/ loop' = [loop EXCEPT ![l] = Waiting(@.header)]
      BY <1>3, Zenon DEF AdaptAndCycle, counts
    <2>2. CASE loop' = [loop EXCEPT ![l] = [pc |-> "nonce", header |-> @.header]]
      <3>1. Deciding' = Deciding /\ InHash' = InHash
        BY <2>1, <2>2 DEF Deciding, InHash, Shapes
      <3> QED  BY <2>1, <3>1, AccountsStay
    <2>3. CASE loop' = [loop EXCEPT ![l] = Waiting(@.header)]
      <3>1. Deciding' = Deciding \ {l} /\ l \in Deciding /\ InHash' = InHash
        BY <2>1, <2>3 DEF Deciding, InHash, Shapes, Waiting
      <3>2. Cardinality(Deciding') = Cardinality(Deciding) - 1
        BY <3>1, LoopSets, FS_RemoveElement
      <3> QED  BY <1>0, <2>1, <3>1, <3>2, LoopSets DEF Accounts
    <2> QED  BY <2>1, <2>2, <2>3
  <1>4. ASSUME NEW b \in BOOLEAN, FinishHash(l, b)  PROVE Accounts'
    <2>1. /\ loop[l].pc = "hash" /\ nonce' = nonce
          /\ loop' = [loop EXCEPT ![l] = Waiting(@.header)]
      BY <1>4, Zenon DEF FinishHash
    <2>2. PICK v \in {0, 1} : stats' = [stats EXCEPT !.total_hashes = @ + 1, !.valid_hashes = @ + v]
      <3>1. stats' = Counted(b)
        BY <1>4, Zenon DEF FinishHash
      <3>2. CASE b
        BY <3>1, <3>2 DEF Counted
      <3>3. CASE ~b
        BY <3>1, <3>3 DEF Counted
      <3> QED  BY <3>2, <3>3
    <2>3. Deciding' = Deciding /\ InHash' = InHash \ {l} /\ l \in InHash
      BY <2>1 DEF Deciding, InHash, Shapes, Waiting
    <2>4. Cardinality(InHash') = Cardinality(InHash) - 1
      BY <2>3, LoopSets, FS_RemoveElement
    <2>5. /\ stats' \in [total_hashes : Nat, valid_hashes : Nat]
          /\ stats'.total_hashes = stats.total_hashes + 1 /\ stats'.valid_hashes = stats.valid_hashes + v
          /\ stats.total_hashes \in Nat /\ stats.valid_hashes \in Nat
      <3>1. stats \in [total_hashes : Nat, valid_hashes : Nat] /\ v \in Nat
        BY DEF Accounts
      <3>2. stats.total_hashes \in Nat /\ stats.valid_hashes \in Nat
        BY <3>1
      <3>3. stats' = [total_hashes |-> stats.total_hashes + 1, valid_hashes |-> stats.valid_hashes + v]
        BY <2>2, <3>1
      <3> QED  BY <3>1, <3>2, <3>3
    <2> QED  BY <1>0, <2>1, <2>3, <2>4, <2>5, LoopSets DEF Accounts
  <1> QED  BY <1>1, <1>2, <1>3, <1>4 DEF Iterate

\* Every step keeps the accounts.
LEMMA AccountsNext == ASSUME Shapes, Accounts, [Next]_vars PROVE Accounts'
  <1>1. ASSUME UNCHANGED <<loop, nonce, stats>>  PROVE Accounts'
    BY <1>1, AccountsStay DEF Deciding, InHash
  <1>2. ASSUME NEW command \in Commands, Send(command)  PROVE Accounts'
    BY <1>1, <1>2 DEF Send, counts
  <1>3. ASSUME NEW reading \in Readings, MonitorUpdate(reading)  PROVE Accounts'
    BY <1>1, <1>3 DEF MonitorUpdate
  <1>4. ASSUME NEW l \in Loops, StartAsync(l)  PROVE Accounts'
    <2>1. loop[l].pc = "off" /\ Waiting(NoHeader).pc = "select"
      BY <1>4 DEF StartAsync, Alive, Off, Waiting
    <2> QED  BY <1>4, <2>1, Elsewhere DEF StartAsync, counts
  <1>5. ASSUME NEW l \in Loops, TakeCommand(l)  PROVE Accounts'
    BY <1>5, Elsewhere DEF TakeCommand, counts
  <1>6. ASSUME NEW l \in Loops, HandleCommand(l)  PROVE Accounts'
    <2> DEFINE c == loop[l].command
               x == IF c.name = "Stop" THEN Off
                    ELSE Waiting(IF c.name = "Start" THEN c.header ELSE loop[l].header)
    <2>1. loop' = [loop EXCEPT ![l] = x] /\ x.pc \in {"off", "select"}
      BY <1>6 DEF HandleCommand, Off, Waiting, Shapes
    <2> HIDE DEF x
    <2>2. loop[l].pc = "command" /\ UNCHANGED <<nonce, stats>>
      BY <1>6 DEF HandleCommand, counts
    <2> QED  BY <2>1, <2>2, Elsewhere
  <1>7. ASSUME NEW l \in Loops, NEW reading \in Readings, BeginIteration(l, reading)  PROVE Accounts'
    <2>1. Deciding' = Deciding \cup {l} /\ l \notin Deciding /\ InHash' = InHash
      BY <1>7 DEF BeginIteration, Deciding, InHash, Shapes
    <2>2. Cardinality(Deciding') = Cardinality(Deciding) + 1
      BY <2>1, LoopSets, FS_AddElement
    <2>3. nonce + Cardinality(Deciding) < MaxNonce /\ UNCHANGED <<nonce, stats>>
      BY <1>7 DEF BeginIteration, Deciding
    <2>4. nonce \in Nat /\ MaxNonce \in Nat
      BY EngineAssumption DEF Shapes
    <2> QED  BY <2>1, <2>2, <2>3, <2>4, LoopSets DEF Accounts
  <1>8. ASSUME NEW l \in Loops, Iterate(l)  PROVE Accounts'
    BY <1>8, IterationCounts
  <1>9. CASE UNCHANGED vars
    BY <1>1, <1>9 DEF vars
  <1>10. CASE Next
    BY <1>10, <1>2, <1>3, <1>4, <1>5, <1>6, <1>7, <1>8, Zenon DEF Next
  <1> QED  BY <1>9, <1>10

\* A new engine has counted nothing.
LEMMA AccountsInit == Init => Settings /\ Accounts
  <1> SUFFICES ASSUME Init PROVE Settings /\ Accounts
    OBVIOUS
  <1>1. Deciding = {} /\ InHash = {} /\ Cardinality({}) = 0
    BY FS_EmptySet DEF Init, Deciding, InHash, Off
  <1>2. Accounts
    BY <1>1, EngineAssumption DEF Init, Accounts
  <1>3. burst \in Controllers
    <2>1. PICK p \in Patterns : burst = NewController(p)
      BY DEF Init
    <2> QED  BY <2>1, PatternsInRange DEF NewController, Controllers
  <1>4. paused \in BOOLEAN /\ monitors = 0 /\ sent = 0
    BY DEF Init
  <1> QED  BY <1>2, <1>3, <1>4, EngineAssumption DEF Settings

\* The engine's state keeps its types, the burst and sleep times their range and
\* the counters their order, however many loops count hashes and adapt the burst
\* pattern at the same time (engine.rs, burst.rs).
THEOREM TypeCorrect == Spec => []TypeOK
  <1>1. Init => NoncesDiffer
    BY DEF Init, NoncesDiffer, FoundNoncesDiffer, Hashing, Off
  <1>2. Shapes /\ NoncesDiffer /\ Settings /\ Accounts => TypeOK
    <2> SUFFICES ASSUME Shapes, NoncesDiffer, Settings, Accounts PROVE TypeOK
      OBVIOUS
    <2>1. nonce \in Nat /\ MaxNonce \in Nat /\ stats.total_hashes \in Nat /\ stats.valid_hashes \in Nat
      BY EngineAssumption DEF Shapes, Accounts
    <2>2. nonce <= MaxNonce /\ stats.total_hashes <= MaxNonce /\ stats.valid_hashes <= MaxNonce
      BY <2>1, LoopSets DEF Accounts
    <2>3. nonce \in 0..MaxNonce /\ stats \in [total_hashes : 0..MaxNonce, valid_hashes : 0..MaxNonce]
      BY <2>1, <2>2 DEF Accounts
    <2>4. found \in Seq(0..MaxNonce)
      <3>1. found \in Seq(Nat) /\ \A i \in 1..Len(found) : found[i] \in 0..MaxNonce
        BY <2>1, <2>2 DEF Shapes, NoncesDiffer, FoundNoncesDiffer
      <3>2. found \in [1..Len(found) -> 0..MaxNonce] /\ Len(found) \in Nat
        BY <3>1
      <3> QED  BY <3>2, SeqDef
    <2>5. ASSUME NEW l \in Loops
          PROVE  /\ loop[l].pc \in {"off", "select", "command", "state", "burst", "nonce", "hash"}
                 /\ Alive(l) => loop[l].header \in Headers \cup {NoHeader}
      <3>1. loop[l] \in LoopStates
        BY DEF Shapes
      <3> QED  BY <3>1 DEF LoopStates, Off, Alive, AnyHeader
    <2> QED  BY <2>3, <2>4, <2>5 DEF TypeOK, Shapes, Settings, Accounts, Controllers, Thermals
  <1> QED
    BY <1>1, <1>2, ShapesInit, ShapesNext, NoncesNext, SettingsNext, AccountsInit, AccountsNext, PTL
    DEF Spec


-----------------------------------------------------------------------------
(* The shares of the pool                                                  *)

ShareRecords == [worker : Workers, nonce : Nonces, index : Nat, ts : Nat]
KeyOf(s) == MakeKey(s.index, s.nonce, s.worker)
Keys == {KeyOf(s) : s \in ShareRecords}
Guards == [buckets : [0..2 -> SUBSET Keys], current : 0..2, last_rotate : Nat]

-----------------------------------------------------------------------------
(* The guard                                                               *)

\* The guard knows key, and the bucket it is in will not be emptied before
\* 2 * BUCKET_TTL after ts: the younger the bucket, the later ts may be.
Holds(g, key, ts) ==
    \/ key \in g.buckets[g.current] /\ ts < g.last_rotate + BUCKET_TTL
    \/ key \in g.buckets[(g.current + 2) % 3] /\ ts < g.last_rotate
    \/ key \in g.buckets[(g.current + 1) % 3] /\ ts + BUCKET_TTL < g.last_rotate

\* What a rotation does, bucket by bucket.
LEMMA RotateShape ==
    ASSUME NEW g \in Guards, NEW t \in Nat
    PROVE  /\ MaybeRotate(g, t) \in Guards
           /\ t < MaybeRotate(g, t).last_rotate + BUCKET_TTL
  <1>1. CASE t - g.last_rotate < BUCKET_TTL
    BY <1>1, GuardAssumption DEF MaybeRotate, Guards
  <1>2. CASE ~(t - g.last_rotate < BUCKET_TTL)
    <2> DEFINE next == (g.current + 1) % 3
    <2>1. next \in 0..2
      BY DEF Guards
    <2>2. MaybeRotate(g, t) = [buckets |-> [g.buckets EXCEPT ![next] = {}], current |-> next,
                               last_rotate |-> t]
      BY <1>2 DEF MaybeRotate
    <2>3. [g.buckets EXCEPT ![next] = {}] \in [0..2 -> SUBSET Keys]
      BY <2>1 DEF Guards
    <2> HIDE DEF next
    <2> QED  BY <2>1, <2>2, <2>3, GuardAssumption DEF Guards
  <1> QED  BY <1>1, <1>2

\* A rotation forgets nothing that is younger than 2 * BUCKET_TTL.
LEMMA RotateKeeps ==
    ASSUME NEW g \in Guards, NEW t \in Nat, NEW ts \in Nat, NEW key,
           Holds(g, key, ts), t - ts <= 2 * BUCKET_TTL
    PROVE  Holds(MaybeRotate(g, t), key, ts)
  <1>1. CASE t - g.last_rotate < BUCKET_TTL
    BY <1>1 DEF MaybeRotate
  <1>2. CASE ~(t - g.last_rotate < BUCKET_TTL)
    <2> DEFINE r == MaybeRotate(g, t)
    <2> SUFFICES Holds(r, key, ts)
      OBVIOUS
    <2>1. /\ r.buckets = [g.buckets EXCEPT ![(g.current + 1) % 3] = {}]
          /\ r.current = (g.current + 1) % 3 /\ r.last_rotate = t
      BY <1>2 DEF MaybeRotate
    <2>2. /\ g.last_rotate + BUCKET_TTL <= t /\ BUCKET_TTL \in Nat /\ g.last_rotate \in Nat
          /\ g.buckets \in [0..2 -> SUBSET Keys]
      BY <1>2, GuardAssumption DEF Guards
    <2>3. \/ key \in g.buckets[g.current] /\ ts < g.last_rotate + BUCKET_TTL
          \/ key \in g.buckets[(g.current + 2) % 3] /\ ts < g.last_rotate
      BY <2>2 DEF Holds
    <2> HIDE DEF r
    <2>4. g.current = 0 \/ g.current = 1 \/ g.current = 2
      BY DEF Guards
    <2>5. /\ r.current \in 0..2 /\ g.current \in 0..2 /\ (g.current + 2) % 3 \in 0..2
          /\ (r.current + 2) % 3 = g.current /\ (r.current + 1) % 3 = (g.current + 2) % 3
          /\ g.current # r.current /\ (g.current + 2) % 3 # r.current
      BY <2>1, <2>4
    <2>6. /\ r.buckets[g.current] = g.buckets[g.current]
          /\ r.buckets[(g.current + 2) % 3] = g.buckets[(g.current + 2) % 3]
      BY <2>1, <2>2, <2>5
    <2>7. CASE key \in g.buckets[g.current] /\ ts < g.last_rotate + BUCKET_TTL
      <3>1. ts < r.last_rotate
        BY <2>1, <2>2, <2>7
      <3> QED  BY <2>5, <2>6, <2>7, <3>1 DEF Holds
    <2>8. CASE key \in g.buckets[(g.current + 2) % 3] /\ ts < g.last_rotate
      <3>1. ts + BUCKET_TTL < r.last_rotate
        BY <2>1, <2>2, <2>8
      <3> QED  BY <2>5, <2>6, <2>8, <3>1 DEF Holds
    <2> QED  BY <2>3, <2>7, <2>8
  <1> QED  BY <1>1, <1>2

\* What is held is known.
LEMMA HeldIsKnown ==
    ASSUME NEW g \in Guards, NEW ts \in Nat, NEW key, Holds(g, key, ts)
    PROVE  Known(g, key)
  BY DEF Guards, Holds, Known

\* is_duplicate keeps what it holds and remembers the key it was asked about.
LEMMA AskedKeeps ==
    ASSUME NEW g \in Guards, NEW t \in Nat, NEW asked \in Keys
    PROVE  /\ Asked(g, asked, t) \in Guards
           /\ \A ts \in Nat : \A key : Holds(g, key, ts) /\ t - ts <= 2 * BUCKET_TTL
                                         => Holds(Asked(g, asked, t), key, ts)
           /\ \A ts \in 0..t : ~IsDuplicate(g, asked, t) => Holds(Asked(g, asked, t), asked, ts)
  <1> DEFINE r == MaybeRotate(g, t)
  <1>1. r \in Guards /\ t < r.last_rotate + BUCKET_TTL
    BY RotateShape
  <1>2. \A ts \in Nat : \A key : Holds(g, key, ts) /\ t - ts <= 2 * BUCKET_TTL => Holds(r, key, ts)
    BY RotateKeeps
  <1>3. CASE Known(r, asked)
    BY <1>1, <1>2, <1>3 DEF Asked, IsDuplicate
  <1>4. CASE ~Known(r, asked)
    <2> DEFINE a == [r EXCEPT !.buckets[r.current] = @ \cup {asked}]
    <2>1. Asked(g, asked, t) = a
      BY <1>4 DEF Asked
    <2> HIDE DEF r
    <2>2. /\ a \in Guards /\ a.current = r.current /\ a.last_rotate = r.last_rotate
          /\ asked \in a.buckets[r.current]
          /\ \A i \in 0..2 : r.buckets[i] \subseteq a.buckets[i]
      BY <1>1 DEF Guards
    <2>3. \A ts \in Nat : \A key : Holds(r, key, ts) => Holds(a, key, ts)
      BY <1>1, <2>2 DEF Holds, Guards
    <2>4. \A ts \in 0..t : Holds(a, asked, ts)
      BY <1>1, <2>2, GuardAssumption DEF Holds, Guards
    <2> QED  BY <1>2, <2>1, <2>2, <2>3, <2>4
  <1> QED  BY <1>3, <1>4

-----------------------------------------------------------------------------
(* The handlers                                                            *)

Requests ==
    {Idle} \cup [pc : {"dedup"}, began : Nat, share : ShareRecords]
      \cup [pc : {"vardiff", "count"}, share : ShareRecords, at : Nat]

ShareShapes ==
    /\ template.index \in Nat
    /\ guard \in Guards
    /\ handler \in [Handlers -> Requests]
    /\ counted \subseteq [share : ShareRecords, at : Nat]
    /\ now \in Nat

\* A handler comes to the guard while its share is still young.
Young ==
    \A h \in Handlers : handler[h].pc = "dedup" =>
        /\ handler[h].began <= now /\ now <= handler[h].began + MAX_DELAY
        /\ handler[h].began - handler[h].share.ts <= TS_WINDOW

\* The share s passed the guard at time t.
Credited(s, t) ==
    \/ \E c \in counted : c.share = s /\ c.at = t
    \/ \E h \in Handlers : Validated(h) /\ handler[h].share = s /\ handler[h].at = t

\* The guard holds every share that passed it within two bucket lifetimes.
Memory ==
    \A s \in ShareRecords, t \in Nat : Credited(s, t) =>
        /\ t <= now
        /\ now - t <= 2 * BUCKET_TTL => Holds(guard, KeyOf(s), t)

\* The property, share by share: what a handler holds and what else was credited.
Apart(s, t, u) ==
    \/ u > t + 2 * BUCKET_TTL /\ s.ts > t
    \/ t > u + 2 * BUCKET_TTL /\ s.ts > u

Once ==
    \A h \in Handlers : Validated(h) =>
        /\ \A c \in counted : c.share = handler[h].share => Apart(c.share, c.at, handler[h].at)
        /\ \A k \in Handlers \ {h} : Validated(k) /\ handler[k].share = handler[h].share =>
             Apart(handler[k].share, handler[k].at, handler[h].at)

Inv == ShareShapes /\ Young /\ Memory /\ Once

\* Said of the handler's records it is the property of the run.
LEMMA OnceIsProperty == Once <=> CreditedOnceUnlessAhead
  BY DEF Once, Apart, CreditedOnceUnlessAhead, PassedAgain, Credits

\* A pool that starts has credited nothing.
LEMMA InvInit == SharesInit => Inv
  <1> SUFFICES ASSUME SharesInit PROVE Inv
    OBVIOUS
  <1>1. guard \in Guards
    BY DEF SharesInit, NewGuard, Guards
  <1>2. template.index \in Nat /\ handler \in [Handlers -> Requests] /\ counted = {} /\ now \in Nat
    BY DEF SharesInit, Requests
  <1>3. \A h \in Handlers : handler[h].pc = "idle"
    BY DEF SharesInit, Idle
  <1> QED
    BY <1>1, <1>2, <1>3 DEF Inv, ShareShapes, Young, Memory, Credited, Validated, Once

\* A step that leaves guard, clock and counted shares alone, and no handler with
\* a share it did not have.
LEMMA Undisturbed ==
    ASSUME Inv, UNCHANGED <<guard, counted, now>>, template.index' \in Nat,
           handler' \in [Handlers -> Requests],
           \A h \in Handlers :
               \/ handler'[h] = handler[h]
               \/ handler'[h] = Idle
               \/ /\ Validated(h) /\ Validated(h)'
                  /\ handler'[h].share = handler[h].share /\ handler'[h].at = handler[h].at
    PROVE  Inv'
  <1>1. \A h \in Handlers : Validated(h)' =>
            /\ Validated(h)
            /\ handler'[h].share = handler[h].share /\ handler'[h].at = handler[h].at
    BY DEF Validated, Idle
  <1>2. Memory'
    BY <1>1 DEF Inv, Memory, Credited
  <1>3. Young'
    BY DEF Inv, Young, Validated, Idle
  <1>4. Once'
    BY <1>1 DEF Inv, Once
  <1> QED  BY <1>2, <1>3, <1>4 DEF Inv, ShareShapes

\* A handler begins with a fresh timestamp.
LEMMA BeginKeeps ==
    ASSUME Inv, NEW h \in Handlers, NEW w \in Workers, NEW n \in Nonces, NEW ts \in 0..now + TS_WINDOW,
           BeginShare(h, w, n, ts)
    PROVE  Inv'
  <1> DEFINE s == [worker |-> w, nonce |-> n, index |-> template.index, ts |-> ts]
  <1>1. /\ UNCHANGED <<guard, counted, now, template>> /\ now - ts <= TS_WINDOW
        /\ handler' = [handler EXCEPT ![h] = [pc |-> "dedup", began |-> now, share |-> s]]
    BY DEF BeginShare, FreshTimestamp
  <1>2. s \in ShareRecords /\ s.ts = ts /\ ts \in Nat /\ now \in Nat /\ MAX_DELAY \in Nat
    BY SharesAssumption DEF Inv, ShareShapes, ShareRecords
  <1> HIDE DEF s
  <1>3. handler' \in [Handlers -> Requests] /\ handler'[h] = [pc |-> "dedup", began |-> now, share |-> s]
        /\ \A k \in Handlers \ {h} : handler'[k] = handler[k]
    BY <1>1, <1>2 DEF Inv, ShareShapes, Requests
  <1>4. \A k \in Handlers : Validated(k)' => Validated(k) /\ handler'[k] = handler[k]
    BY <1>3 DEF Validated
  <1>5. Young'
    BY <1>1, <1>2, <1>3 DEF Inv, Young
  <1>6. Memory' /\ Once'
    BY <1>1, <1>4 DEF Inv, Memory, Credited, Once
  <1> QED  BY <1>1, <1>3, <1>5, <1>6 DEF Inv, ShareShapes

\* The clock makes nothing younger, and waits for handlers on their way.
LEMMA TickKeeps == ASSUME Inv, Tick PROVE Inv'
  <1>1. now \in Nat /\ now' = now + 1 /\ UNCHANGED <<guard, counted, handler, template>>
    BY DEF Tick, Inv, ShareShapes
  <1>2. \A h \in Handlers : handler[h].pc = "dedup" =>
            handler[h].began \in Nat /\ handler[h].share.ts \in Nat
    BY DEF Inv, ShareShapes, Requests, ShareRecords, Idle
  <1>3. Young'
    BY <1>1, <1>2, SharesAssumption DEF Inv, Young, Tick, Prompt
  <1>4. Memory'
    BY <1>1, GuardAssumption DEF Inv, Memory, Credited, Validated, ShareRecords
  <1>5. Once'
    BY <1>1 DEF Inv, Once, Validated
  <1> QED  BY <1>1, <1>3, <1>4, <1>5 DEF Inv, ShareShapes

\* A share that passes the guard has not passed within two bucket lifetimes,
\* for the guard would hold it; and as it is fresh, an earlier time at which it
\* passed is before its timestamp.  From then on the guard holds it.
LEMMA CheckKeeps == ASSUME Inv, NEW h \in Handlers, CheckDuplicate(h) PROVE Inv'
  <1> DEFINE s == handler[h].share
             key == KeyOf(s)
             refused == IsDuplicate(guard, key, now) \/ s.nonce \in WeakNonces
  <1>1. /\ handler[h].pc = "dedup" /\ guard' = Asked(guard, key, now)
        /\ handler' = [handler EXCEPT ![h] = IF refused THEN Idle ELSE [pc |-> "vardiff", share |-> s, at |-> now]]
        /\ UNCHANGED <<template, counted, now>>
    BY DEF CheckDuplicate, KeyOf
  <1>2. s \in ShareRecords /\ handler[h].began \in Nat
    BY <1>1 DEF Inv, ShareShapes, Requests, Idle
  <1>3. s.ts \in Nat /\ now - s.ts <= 2 * BUCKET_TTL
    BY <1>1, <1>2, SharesAssumption, GuardAssumption DEF Inv, Young, ShareShapes, ShareRecords
  <1>4. key \in Keys
    BY <1>2 DEF Keys
  <1>5. guard \in Guards /\ now \in Nat
    BY DEF Inv, ShareShapes
  <1>6. ASSUME ~IsDuplicate(guard, key, now), NEW t \in Nat, Credited(s, t)
        PROVE  now > t + 2 * BUCKET_TTL /\ s.ts > t
    <2>1. ~(now - t <= 2 * BUCKET_TTL)
      <3> SUFFICES ASSUME now - t <= 2 * BUCKET_TTL PROVE IsDuplicate(guard, key, now)
        BY <1>6
      <3>1. Holds(guard, key, t)
        BY <1>2, <1>6 DEF Inv, Memory
      <3> HIDE DEF key, s
      <3>2. Holds(MaybeRotate(guard, now), key, t)
        BY <1>5, <3>1, RotateKeeps
      <3> QED  BY <1>5, <3>2, RotateShape, HeldIsKnown DEF IsDuplicate
    <2> HIDE DEF s
    <2> QED  BY <1>3, <1>5, <2>1, GuardAssumption
  <1>7. /\ guard' \in Guards
        /\ \A ts \in Nat : \A k : Holds(guard, k, ts) /\ now - ts <= 2 * BUCKET_TTL
                                         => Holds(guard', k, ts)
        /\ ~IsDuplicate(guard, key, now) => Holds(guard', key, now)
    BY <1>1, <1>3, <1>4, <1>5, AskedKeeps
  <1>8. \A k \in Handlers \ {h} : handler'[k] = handler[k]
    BY <1>1 DEF Inv, ShareShapes
  <1>9. CASE refused
    <2>1. handler'[h] = Idle /\ handler' \in [Handlers -> Requests]
      BY <1>1, <1>9 DEF Inv, ShareShapes, Requests
    <2>2. \A k \in Handlers : Validated(k)' => Validated(k) /\ handler'[k] = handler[k]
      BY <1>8, <2>1 DEF Validated, Idle
    <2>3. Memory'
      BY <1>1, <1>7, <2>2 DEF Inv, Memory, Credited, ShareRecords
    <2>4. Once'
      BY <1>1, <2>2 DEF Inv, Once
    <2>5. Young'
      BY <1>1, <1>8, <2>1 DEF Inv, Young, Idle
    <2> QED  BY <1>1, <1>7, <2>1, <2>3, <2>4, <2>5 DEF Inv, ShareShapes
  <1>10. CASE ~refused
    <2>1. /\ ~IsDuplicate(guard, key, now)
          /\ handler'[h] = [pc |-> "vardiff", share |-> s, at |-> now]
      BY <1>1, <1>10 DEF Inv, ShareShapes
    <2> HIDE DEF s
    <2>2. handler' \in [Handlers -> Requests]
      <3>1. [pc |-> "vardiff", share |-> s, at |-> now] \in Requests
        BY <1>2, <1>5 DEF Requests
      <3> QED  BY <1>1, <1>10, <3>1 DEF Inv, ShareShapes
    <2>3. /\ handler'[h].share = s /\ handler'[h].at = now /\ handler'[h].pc # "dedup"
          /\ Validated(h)'
          /\ \A k \in Handlers \ {h} : Validated(k)' => Validated(k) /\ handler'[k] = handler[k]
      BY <1>8, <2>1 DEF Validated
    <2>4. ASSUME NEW r \in ShareRecords, NEW t \in Nat, Credited(r, t)'
          PROVE  Credited(r, t) \/ (r = s /\ t = now)
      <3>1. CASE \E c \in counted' : c.share = r /\ c.at = t
        BY <1>1, <3>1 DEF Credited
      <3>2. ASSUME NEW k \in Handlers, Validated(k)', handler'[k].share = r, handler'[k].at = t
            PROVE  Credited(r, t) \/ (r = s /\ t = now)
        BY <2>3, <3>2 DEF Credited
      <3> QED  BY <2>4, <3>1, <3>2 DEF Credited
    <2>5. Memory'
      BY <1>1, <1>5, <1>7, <2>1, <2>4 DEF Inv, Memory, ShareRecords
    <2>6. Once'
      <3>1. ASSUME NEW c \in counted, c.share = s PROVE Apart(s, c.at, now)
        <4>1. c.at \in Nat /\ Credited(s, c.at)
          BY <3>1 DEF Inv, ShareShapes, Credited
        <4> QED  BY <1>6, <2>1, <4>1 DEF Apart
      <3>2. ASSUME NEW k \in Handlers, Validated(k), handler[k].share = s
            PROVE  Apart(s, handler[k].at, now) /\ Apart(s, now, handler[k].at)
        <4>1. handler[k].at \in Nat /\ Credited(s, handler[k].at)
          BY <3>2 DEF Inv, ShareShapes, Requests, Idle, Validated, Credited
        <4> QED  BY <1>6, <2>1, <4>1 DEF Apart
      <3> QED  BY <1>1, <2>3, <3>1, <3>2 DEF Inv, Once
    <2>7. Young'
      BY <1>1, <1>8, <2>3 DEF Inv, Young
    <2> QED  BY <1>1, <1>7, <2>2, <2>5, <2>6, <2>7 DEF Inv, ShareShapes
  <1> QED  BY <1>9, <1>10

\* The registry's answer changes nothing about the share.
LEMMA AdjustKeeps == ASSUME Inv, NEW h \in Handlers, AdjustVarDiff(h) PROVE Inv'
  <1> DEFINE counting == [handler[h] EXCEPT !.pc = "count"]
  <1>1. /\ UNCHANGED <<guard, counted, now, template>> /\ handler[h].pc = "vardiff"
        /\ \/ handler' = [handler EXCEPT ![h] = Idle]
           \/ handler' = [handler EXCEPT ![h] = counting]
    BY DEF AdjustVarDiff
  <1>2. /\ handler[h].share \in ShareRecords /\ counting \in Requests /\ Idle \in Requests
        /\ counting.share = handler[h].share /\ counting.at = handler[h].at
        /\ counting.pc = "count"
    BY <1>1 DEF Inv, ShareShapes, Requests, Idle
  <1>3. /\ handler' \in [Handlers -> Requests]
        /\ handler'[h] = Idle \/ handler'[h] = counting
        /\ \A k \in Handlers \ {h} : handler'[k] = handler[k]
    BY <1>1, <1>2 DEF Inv, ShareShapes
  <1>4. \A k \in Handlers :
            \/ handler'[k] = handler[k]
            \/ handler'[k] = Idle
            \/ /\ Validated(k) /\ Validated(k)'
               /\ handler'[k].share = handler[k].share /\ handler'[k].at = handler[k].at
    BY <1>1, <1>2, <1>3 DEF Validated
  <1>5. template.index' \in Nat
    BY <1>1 DEF Inv, ShareShapes
  <1> QED  BY <1>1, <1>3, <1>4, <1>5, Undisturbed

\* A counted share stays credited, as of the time at which it passed.
LEMMA CountKeeps == ASSUME Inv, NEW h \in Handlers, CountShare(h) PROVE Inv'
  <1> DEFINE s == [share |-> handler[h].share, at |-> handler[h].at]
  <1>1. /\ UNCHANGED <<guard, now, template>> /\ handler[h].pc = "count"
        /\ counted' = counted \cup {s} /\ handler' = [handler EXCEPT ![h] = Idle]
    BY DEF CountShare
  <1>2. s \in [share : ShareRecords, at : Nat] /\ Validated(h)
    BY <1>1 DEF Inv, ShareShapes, Requests, Idle, Validated
  <1>3. /\ handler' \in [Handlers -> Requests] /\ handler'[h] = Idle
        /\ \A k \in Handlers \ {h} : handler'[k] = handler[k]
    BY <1>1 DEF Inv, ShareShapes, Requests
  <1>4. \A k \in Handlers : Validated(k)' => k # h /\ Validated(k) /\ handler'[k] = handler[k]
    BY <1>3 DEF Validated, Idle
  <1>5. Memory'
    BY <1>1, <1>2, <1>4 DEF Inv, Memory, Credited
  <1>6. Once'
    BY <1>1, <1>2, <1>4 DEF Inv, Once, Apart
  <1>7. Young'
    BY <1>1, <1>3 DEF Inv, Young, Idle
  <1> QED  BY <1>1, <1>2, <1>3, <1>5, <1>6, <1>7 DEF Inv, ShareShapes

\* Every step of the pool keeps the invariant.
LEMMA InvNext == Inv /\ [SharesNext]_shareVars => Inv'
  <1> SUFFICES ASSUME Inv, [SharesNext]_shareVars PROVE Inv'
    OBVIOUS
  <1>1. ASSUME UNCHANGED <<guard, counted, now, handler>>, template.index' \in Nat PROVE Inv'
    BY <1>1, Undisturbed DEF Inv, ShareShapes
  <1>2. ASSUME NEW d \in Difficulties, NewTemplate(d) PROVE Inv'
    BY <1>1, <1>2 DEF NewTemplate, Inv, ShareShapes
  <1>3. ASSUME SetBaseDifficulty PROVE Inv'
    BY <1>1, <1>3 DEF SetBaseDifficulty, Inv, ShareShapes
  <1>4. ASSUME NEW w \in Workers, GetWork(w) PROVE Inv'
    BY <1>1, <1>4 DEF GetWork, Inv, ShareShapes
  <1>5. ASSUME UNCHANGED shareVars PROVE Inv'
    BY <1>1, <1>5 DEF shareVars, Inv, ShareShapes
  <1> QED
    BY <1>2, <1>3, <1>4, <1>5, BeginKeeps, CheckKeeps, AdjustKeeps, CountKeeps, TickKeeps, Zenon
       DEF SharesNext

\* CreditedOnceUnlessAhead for every instance: if a request reaches the guard
\* within MAX_DELAY of its timestamp check, and a timestamp that is not ahead is
\* out of date within two bucket lifetimes (TS_WINDOW + MAX_DELAY), submit_share
\* credits a share twice only if its timestamp was ahead of the clock the first
\* time, and never within two bucket lifetimes.
THEOREM SharesCreditedOnceUnlessAhead == SharesSpec => []CreditedOnceUnlessAhead
  <1>1. Inv => CreditedOnceUnlessAhead
    BY OnceIsProperty DEF Inv
  <1> QED  BY <1>1, InvInit, InvNext, PTL DEF SharesSpec

=============================================================================
