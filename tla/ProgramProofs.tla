---------------------------- MODULE ProgramProofs ----------------------------
(***************************************************************************)
(* Proofs about the programs that share nothing: the BMP280 driver, the    *)
(* diag command of U-Boot, the telemetry bridge, and the statistics of the *)
(* two pipelines, LatencyTracker and BenchmarkTrace, which rest on the     *)
(* same lemmas about a ring.  Each part states the inductive invariant of  *)
(* its program, shows that every step keeps it, and ends in the property   *)
(* that its run checks.                                                    *)
(***************************************************************************)
EXTENDS Bmp280, UbootDiag, CanBridge, LatencyTracker, BenchmarkTrace, Integers,
        FiniteSetTheorems, TLAPS

-------------------------------------------------------------------------------
(* Bmp280: one conversion, no older than the call *)

\* What the data registers may show; that it has 20 bits is not needed.
Sample == [t : Nat, p : Nat]

\* What the show functions may have in their locals.
Temperatures == {0} \cup {Compensated(Trimming, c)[1] : c \in Sample}
Pressures == {0} \cup {Compensated(Trimming, c)[2] : c \in Sample}

Call == [pc : {"idle", "lock", "read", "compensate", "emit"}, since : Nat, raw : Sample,
         temp_c100 : Temperatures, press_pa : Pressures]

BmpTyped ==
  /\ history \in Seq(Sample)
  /\ history # <<>>
  /\ reader \in [Readers -> Call]

\* While a call is inside, the device is bound and its trimming words are read.
Bound ==
  /\ bound # "unbound" => calib = Trimming
  /\ \A r \in Readers : reader[r].pc # "idle" => bound # "unbound"

\* A call began at a conversion that is still in the history, and its raw words
\* are those of a conversion since then.
Fresh(r) ==
  /\ reader[r].pc # "idle" => reader[r].since \in 1 .. Len(history)
  /\ reader[r].pc = "compensate" =>
       \E k \in reader[r].since .. Len(history) : reader[r].raw = history[k]
  /\ reader[r].pc = "emit" =>
       \E k \in reader[r].since .. Len(history) :
         <<reader[r].temp_c100, reader[r].press_pa>> = Compensated(Trimming, history[k])

BmpInv == BmpTyped /\ Bound /\ \A r \in Readers : Fresh(r)

\* The six bytes of the burst are put together to the words the sensor measured.
LEMMA WordOfBytes ==
  ASSUME NEW v \in Nat
  PROVE  (v \div 4096) * 4096 + ((v \div 16) % 256) * 16 + ((v % 16) * 16) \div 16 = v
BY SMT

\* bmp280_read_raw() returns the words the sensor measured, temperature and pressure
\* each from its own registers.
LEMMA RawOfRegisters ==
  ASSUME NEW c \in Sample
  PROVE  Raw(Registers(c)) = c
<1> DEFINE word(v) == <<v \div 4096, (v \div 16) % 256, (v % 16) * 16>>
           six == Registers(c)
<1>1. /\ six[1] = c.p \div 4096 /\ six[2] = (c.p \div 16) % 256 /\ six[3] = (c.p % 16) * 16
      /\ six[4] = c.t \div 4096 /\ six[5] = (c.t \div 16) % 256 /\ six[6] = (c.t % 16) * 16
  BY SMT DEF Registers, Sample
<1>2. Word(six, 1) = c.p /\ Word(six, 4) = c.t
  <2> HIDE DEF six
  <2>1. c.p \in Nat /\ c.t \in Nat
    BY SMT DEF Sample
  <2>2. ASSUME NEW v \in Nat, NEW n \in {1, 4},
               six[n] = v \div 4096, six[n + 1] = (v \div 16) % 256, six[n + 2] = (v % 16) * 16
        PROVE  Word(six, n) = v
    <3>1. Word(six, n) = (v \div 4096) * 4096 + ((v \div 16) % 256) * 16 + ((v % 16) * 16) \div 16
      BY <2>2 DEF Word
    <3> QED
      BY <3>1, WordOfBytes
  <2>3. Word(six, 1) = c.p
    BY <1>1, <2>1, <2>2, SMT
  <2>4. Word(six, 4) = c.t
    BY <1>1, <2>1, <2>2, SMT
  <2> QED
    BY <2>3, <2>4
<1> QED
  BY <1>2, SMT DEF Raw, Sample

\* The driver's variables after its initial step.
LEMMA BmpInitial == BmpInit => BmpInv
<1> SUFFICES ASSUME BmpInit PROVE BmpInv
  OBVIOUS
<1>1. ResetWords \in Sample
  BY SMT DEF ResetWords, Sample
<1>2. Idle \in Call
  BY <1>1 DEF Idle, Call, Temperatures, Pressures
<1>3. BmpTyped
  BY <1>1, <1>2 DEF BmpInit, BmpTyped
<1>4. \A r \in Readers : reader[r].pc = "idle"
  BY DEF BmpInit, Idle
<1> QED
  BY <1>3, <1>4 DEF BmpInit, BmpInv, Bound, Fresh

\* Every step of the driver core, the sensor and the readers keeps the invariant.
LEMMA BmpStep == BmpInv /\ [BmpNext]_bmpVars => BmpInv'
<1> SUFFICES ASSUME BmpInv, [BmpNext]_bmpVars PROVE BmpInv'
  OBVIOUS
<1> USE DEF BmpInv
<1>0. ResetWords \in Sample /\ <<ResetWords>> \in Seq(Sample) /\ <<ResetWords>> # <<>>
  <2>1. ResetWords \in Sample
    BY SMT DEF ResetWords, Sample
  <2> QED
    BY <2>1
<1>1. Idle \in Call /\ Idle.pc = "idle"
  BY <1>0 DEF Idle, Call, Temperatures, Pressures
<1>2. Len(history) \in Nat \ {0} /\ history[Len(history)] \in Sample
  <2>1. PICK n \in Nat : n = Len(history)
    BY DEF BmpTyped
  <2>2. n # 0
    BY <2>1 DEF BmpTyped
  <2> QED
    BY <2>1, <2>2 DEF BmpTyped
<1>3. CASE bmp280_probe \/ ProbeFails
  <2>1. \A r \in Readers : reader[r].pc = "idle"
    BY <1>3 DEF bmp280_probe, ProbeFails, Bound
  <2>2. reader' = reader /\ (bound' # "unbound" => calib' = Trimming)
    BY <1>3 DEF bmp280_probe, ProbeFails
  <2>3. history' \in {history, <<ResetWords>>}
    BY <1>3 DEF bmp280_probe, ProbeFails
  <2>4. BmpTyped'
    BY <1>0, <2>2, <2>3 DEF BmpTyped
  <2> QED
    BY <2>1, <2>2, <2>4 DEF Bound, Fresh
<1>4. CASE RemoveGroups \/ bmp280_remove
  <2>1. reader' = reader /\ history' = history
    BY <1>4 DEF RemoveGroups, bmp280_remove
  <2>2. Bound'
    BY <1>4, <2>1 DEF RemoveGroups, bmp280_remove, Bound
  <2> QED
    BY <2>1, <2>2 DEF BmpTyped, Fresh
<1>5. CASE Convert
  <2>1. PICK c \in Conversions : history' = Append(history, c)
    BY <1>5 DEF Convert
  <2>2. c \in Sample
    <3> DEFINE twenty == 0 .. 2^20 - 1
    <3>1. twenty \subseteq Nat
      <4>1. \A b \in Int : (0 .. b) \subseteq Nat
        OBVIOUS
      <4>2. 2^20 - 1 \in Int
        BY SMT
      <4> QED
        BY <4>1, <4>2
    <3> HIDE DEF twenty
    <3>2. c \in [t : twenty, p : twenty]
      BY ConversionsAssumption DEF twenty
    <3> QED
      BY <3>1, <3>2 DEF Sample
  <2>3. UNCHANGED <<reader, bound, calib>>
    BY <1>5 DEF Convert
  <2>4. BmpTyped'
    BY <2>1, <2>2, <2>3 DEF BmpTyped
  <2>5. PICK n \in Nat : n = Len(history)
    BY <1>2
  <2>6. Len(history') = n + 1 /\ \A k \in 1 .. n : history'[k] = history[k]
    BY <2>1, <2>2, <2>5 DEF BmpTyped
  <2>7. ASSUME NEW r \in Readers PROVE Fresh(r)'
    <3>1. Fresh(r) /\ reader'[r] = reader[r]
      BY <2>3
    <3> QED
      BY <2>5, <2>6, <3>1 DEF Fresh
  <2> QED
    BY <2>3, <2>4, <2>7 DEF Bound
<1>6. ASSUME NEW r \in Readers, Show(r) \/ ReaderStep(r) PROVE BmpInv'
  <2> DEFINE call == reader[r]
  <2>0. /\ UNCHANGED <<bound, calib, history>>
        /\ \A q \in Readers : q # r => reader'[q] = reader[q]
    BY <1>6 DEF Show, ReaderStep, MutexLock, ReadRaw, ReadRawFails, Compensate, Emit, BmpTyped
  <2>1. call \in Call /\ Fresh(r) /\ (call.pc # "idle" => bound # "unbound")
    BY DEF BmpTyped, Bound
  <2>2. /\ reader' \in [Readers -> Call]
        /\ reader'[r].pc # "idle" => bound # "unbound"
        /\ Fresh(r)'
    <3>1. CASE Show(r)
      <4>1. /\ reader' = [reader EXCEPT ![r] = reader'[r]]
            /\ reader'[r] = [Idle EXCEPT !.pc = "lock", !.since = Len(history)]
        BY <3>1 DEF Show, BmpTyped
      <4>2. reader'[r] \in Call /\ reader'[r].pc = "lock" /\ reader'[r].since = Len(history)
        BY <1>1, <1>2, <4>1 DEF Call
      <4> QED
        BY <1>2, <2>0, <3>1, <4>1, <4>2 DEF Show, BmpTyped, Fresh
    <3>2. CASE MutexLock(r)
      <4>1. reader' = [reader EXCEPT ![r] = reader'[r]] /\ reader'[r] = [call EXCEPT !.pc = "read"]
        BY <3>2 DEF MutexLock, BmpTyped
      <4>2. reader'[r] \in Call /\ reader'[r].pc = "read" /\ reader'[r].since = call.since
        BY <2>1, <4>1 DEF Call
      <4> QED
        BY <2>0, <2>1, <3>2, <4>1, <4>2 DEF MutexLock, BmpTyped, Fresh
    <3>3. CASE ReadRaw(r)
      <4>1. /\ reader' = [reader EXCEPT ![r] = reader'[r]]
            /\ reader'[r] = [call EXCEPT !.pc = "compensate", !.raw = history[Len(history)]]
        BY <1>2, <3>3, RawOfRegisters DEF ReadRaw, BmpTyped
      <4>2. /\ reader'[r] \in Call /\ reader'[r].pc = "compensate"
            /\ reader'[r].since = call.since /\ reader'[r].raw = history[Len(history)]
        BY <1>2, <2>1, <4>1 DEF Call
      <4> QED
        BY <1>2, <2>0, <2>1, <3>3, <4>1, <4>2 DEF ReadRaw, BmpTyped, Fresh
    <3>4. CASE ReadRawFails(r) \/ Emit(r)
      <4>1. reader' = [reader EXCEPT ![r] = Idle] /\ reader'[r] = Idle
        BY <3>4 DEF ReadRawFails, Emit, BmpTyped
      <4> QED
        BY <1>1, <4>1 DEF BmpTyped, Fresh
    <3>5. CASE Compensate(r)
      <4> DEFINE tp == Compensated(calib, call.raw)
      <4>1. calib = Trimming /\ call.raw \in Sample
        BY <2>1, <3>5 DEF Compensate, Bound, Call
      <4>2. tp[1] \in Temperatures /\ tp[2] \in Pressures /\ <<tp[1], tp[2]>> = tp
        BY <4>1 DEF Temperatures, Pressures, Compensated
      <4>3. /\ reader' = [reader EXCEPT ![r] = reader'[r]]
            /\ reader'[r] = [call EXCEPT !.pc = "emit", !.temp_c100 = tp[1], !.press_pa = tp[2]]
        BY <3>5 DEF Compensate, BmpTyped
      <4> HIDE DEF tp
      <4>4. /\ reader'[r] \in Call /\ reader'[r].pc = "emit" /\ reader'[r].since = call.since
            /\ reader'[r].temp_c100 = tp[1] /\ reader'[r].press_pa = tp[2]
        BY <2>1, <4>2, <4>3 DEF Call
      <4>5. PICK k \in call.since .. Len(history) : call.raw = history[k]
        BY <2>1, <3>5 DEF Compensate, Fresh
      <4>6. tp = Compensated(Trimming, history[k])
        BY <4>1, <4>5 DEF tp
      <4> QED
        BY <2>0, <2>1, <3>5, <4>2, <4>3, <4>4, <4>5, <4>6 DEF Compensate, BmpTyped, Fresh
    <3> QED
      BY <1>6, <3>1, <3>2, <3>3, <3>4, <3>5 DEF ReaderStep
  <2>3. ASSUME NEW q \in Readers PROVE Fresh(q)' /\ (reader'[q].pc # "idle" => bound' # "unbound")
    BY <2>0, <2>2 DEF Fresh, Bound
  <2> QED
    BY <2>0, <2>2, <2>3 DEF BmpTyped, Bound
<1>7. CASE UNCHANGED bmpVars
  BY <1>7 DEF bmpVars, BmpTyped, Bound, Fresh
<1> QED
  BY <1>3, <1>4, <1>5, <1>6, <1>7 DEF BmpNext

\* What a reader of a sysfs attribute prints is the compensation, with the trimming
\* words of the sensor, of one conversion no older than the call, for any number of
\* readers, conversions and bindings and whatever the sensor measures.
THEOREM ReadsOneConversionHolds == BmpSpec => []ReadsOneConversion
<1>1. BmpInv => ReadsOneConversion
  BY DEF BmpInv, Fresh, ReadsOneConversion
<1> QED
  BY BmpInitial, BmpStep, <1>1, PTL DEF BmpSpec

-------------------------------------------------------------------------------
(* UbootDiag: the memory walk is right, and the LED is lit at the handoff *)

DiagTyped ==
  /\ board \in [led : Pins \cup {"invalid"}, wiring : [Addresses -> Addresses],
                stuck : SUBSET Addresses]
  /\ level \in [Pins -> {0, 1}]
  /\ mem \in [Addresses -> Nat] /\ before \in [Addresses -> Nat] /\ saved \in [Addresses -> Nat]
  /\ i \in Addresses /\ errors \in Nat

Cell(a) == board.wiring[a]

\* A stuck cell keeps what it held, which is no pattern.
StuckKeep == \A c \in board.stuck : mem[c] = c

Walking == stage \in {"write", "check", "report"}

\* A word whose cell works reads as the pattern of a word at or behind it, up to n.
Shows(a, n) == Cell(a) \notin board.stuck => \E b \in a .. n : mem[Cell(a)] = Pattern(b)

\* What the first loop has left, until the second loop restores the cell.
Marked ==
  /\ stage = "write" => \A a \in 1 .. i - 1 : Shows(a, i - 1)
  /\ stage = "check" =>
       \A a \in Addresses : (\A e \in 1 .. i - 1 : Cell(e) # Cell(a)) => Shows(a, Words)

\* No word but this one reaches its cell, and the cell works.
Alone(a) == Cell(a) \notin board.stuck /\ \A b \in Addresses : Cell(b) = Cell(a) => b = a

\* As long as no error is counted, the words checked so far are alone.
Checked ==
  /\ stage = "check" /\ errors = 0 => \A a \in 1 .. i - 1 : Alone(a)
  /\ stage = "report" /\ errors = 0 => \A a \in Addresses : Alone(a)

\* The progress of both loops over sound memory.
Restoring ==
  Sound =>
    /\ Walking => errors = 0
    /\ stage = "write" =>
         \A a \in Addresses :
           /\ a < i => saved[a] = before[Cell(a)] /\ mem[Cell(a)] = Pattern(a)
           /\ a >= i => mem[Cell(a)] = before[Cell(a)]
    /\ stage = "check" =>
         \A a \in Addresses :
           /\ saved[a] = before[Cell(a)]
           /\ a < i => mem[Cell(a)] = before[Cell(a)]
           /\ a >= i => mem[Cell(a)] = Pattern(a)
    /\ stage = "report" => \A a \in Addresses : mem[Cell(a)] = before[Cell(a)]

WalkInv ==
  /\ StuckKeep
  /\ Walking => verdict = "none"
  /\ Marked /\ Checked /\ Restoring
  /\ WalkHonest

DiagInv == DiagTyped /\ WalkInv

\* As many cells as words: a wiring under which no two words share a cell reaches
\* every cell.
LEMMA WiringReachesAll ==
  ASSUME NEW w \in [Addresses -> Addresses],
         \A a, b \in Addresses : w[a] = w[b] => a = b,
         NEW c \in Addresses
  PROVE  \E a \in Addresses : w[a] = c
<1> SUFFICES ASSUME \A a \in Addresses : w[a] # c PROVE FALSE
  OBVIOUS
<1>1. IsFiniteSet(Addresses) /\ Cardinality(Addresses) \in Nat
  BY WordsAssumption, FS_Interval, FS_CardinalityType DEF Addresses
<1>2. /\ IsFiniteSet(Addresses \ {c})
      /\ Cardinality(Addresses \ {c}) = Cardinality(Addresses) - 1
  BY <1>1, FS_RemoveElement
<1>3. w \in [Addresses -> Addresses \ {c}]
  OBVIOUS
<1>4. Cardinality(Addresses \ {c}) < Cardinality(Addresses)
  BY <1>1, <1>2
<1>5. \E a, b \in Addresses : a # b /\ w[a] = w[b]
  BY <1>1, <1>2, <1>3, <1>4, FS_PigeonHole
<1> QED
  BY <1>5

\* The walk has not begun and no pin is driven.
LEMMA DiagInitial == DiagInit => DiagInv
<1> SUFFICES ASSUME DiagInit PROVE DiagInv
  OBVIOUS
<1>1. 1 \in Addresses /\ Addresses \subseteq Nat
  BY WordsAssumption DEF Addresses
<1>2. board \in [led : Pins \cup {"invalid"}, wiring : [Addresses -> Addresses],
                 stuck : SUBSET Addresses]
  BY DEF DiagInit
<1>3. DiagTyped
  BY <1>1, <1>2 DEF DiagInit, DiagTyped
<1>4. WalkInv
  BY <1>2 DEF DiagInit, WalkInv, StuckKeep, Walking, Marked, Checked, Restoring, WalkHonest
<1> QED
  BY <1>3, <1>4 DEF DiagInv

\* Every step leaves the pins at a level; led_set() drives one pin or none.
LEMMA LevelStep == DiagInv /\ [DiagNext]_diagVars => level' \in [Pins -> {0, 1}]
<1> SUFFICES ASSUME DiagInv, [DiagNext]_diagVars PROVE level' \in [Pins -> {0, 1}]
  OBVIOUS
<1>1. level \in [Pins -> {0, 1}]
  BY DEF DiagInv, DiagTyped
<1>2. ASSUME NEW pin, NEW on \in {0, 1}, LedSet(pin, on)
      PROVE  level' \in [Pins -> {0, 1}]
  BY <1>1, <1>2 DEF LedSet
<1>3. CASE custom_status_led_on \/ Preboot \/ DiagLedOn \/ PromptLed
  BY <1>2, <1>3 DEF custom_status_led_on, Preboot, Blink, DiagLedOn, PromptLed
<1>4. CASE UNCHANGED level
  BY <1>1, <1>4
<1> QED
  BY <1>3, <1>4 DEF DiagNext, DiagStep, diagVars, DiagInfo, MmcBoot, Claim, PromptBoot, PromptMem,
                    WalkWrite, WalkCheck, WalkReport

\* The addresses are the numbers from 1 to Words.
LEMMA AddressesAre ==
  /\ Words \in Nat
  /\ \A a \in Addresses : a \in Nat /\ 1 <= a /\ a <= Words
  /\ \A a \in Nat : 1 <= a /\ a <= Words => a \in Addresses
BY WordsAssumption DEF Addresses

\* The commands outside the walk leave its variables alone.
LEMMA QuietKeeps ==
  ASSUME DiagInv, board' = board, Untouched, ~Walking, ~Walking'
  PROVE  WalkInv'
<1>1. stage \notin {"write", "check", "report"} /\ stage' \notin {"write", "check", "report"}
  BY DEF Walking
<1>2. StuckKeep' /\ WalkHonest'
  BY DEF DiagInv, WalkInv, StuckKeep, WalkHonest, Untouched, Sound
<1> QED
  BY <1>1, <1>2 DEF WalkInv, Walking, Marked, Checked, Restoring

\* The first loop: the words up to i show their patterns or those of later words.
LEMMA WriteKeeps ==
  ASSUME DiagInv, board' = board, WalkWrite
  PROVE  WalkInv' /\ mem' \in [Addresses -> Nat] /\ saved' \in [Addresses -> Nat]
<1>0. /\ Words \in Nat \ {0} /\ Addresses = 1 .. Words /\ stage = "write"
      /\ board.wiring \in [Addresses -> Addresses] /\ board.stuck \subseteq Addresses
      /\ mem \in [Addresses -> Nat] /\ saved \in [Addresses -> Nat]
  BY WordsAssumption DEF DiagInv, DiagTyped, Addresses, WalkWrite
<1>1. \A a \in Addresses : Cell(a) \in Addresses /\ Pattern(a) \in Nat
  BY <1>0 DEF Cell, Pattern
<1> PICK n \in Addresses : n = i
  BY DEF DiagInv, DiagTyped
<1>n. /\ Words \in Nat /\ n \in Nat /\ 1 <= n /\ n <= Words
      /\ \A a \in Addresses : a \in Nat /\ 1 <= a /\ a <= Words
      /\ \A a \in Nat : 1 <= a /\ a <= Words => a \in Addresses
  BY AddressesAre
<1> DEFINE c == Cell(n)
<1>2. /\ saved' = [saved EXCEPT ![n] = mem[c]]
      /\ c \in board.stuck => mem' = mem
      /\ c \notin board.stuck => mem' = [mem EXCEPT ![c] = Pattern(n)]
  BY DEF WalkWrite, ReadBack, Stored, Cell
<1>3. /\ UNCHANGED <<before, errors, verdict>>
      /\ \A a : Cell(a)' = Cell(a)
      /\ Sound' = Sound
  BY DEF WalkWrite, Cell, Sound
<1>4. \/ n = Words /\ stage' = "check" /\ i' = 1
      \/ n < Words /\ stage' = "write" /\ i' = n + 1
  <2>1. (n = Words /\ stage' = "check" /\ i' = 1) \/ (n # Words /\ stage' = "write" /\ i' = n + 1)
    BY <1>0 DEF WalkWrite, LoopEnds
  <2> QED
    BY <2>1, <1>n
<1>5. c \in Addresses
  BY <1>1
<1> HIDE DEF c
<1>6. mem' \in [Addresses -> Nat] /\ saved' \in [Addresses -> Nat]
  <2>1. mem[c] \in Nat /\ Pattern(n) \in Nat
    BY <1>0, <1>1, <1>5
  <2> HIDE DEF c
  <2>2. mem \in [Addresses -> Nat] /\ saved \in [Addresses -> Nat]
    BY <1>0
  <2> QED
    BY <1>2, <1>5, <2>1, <2>2
<1>7. /\ StuckKeep'
      /\ verdict' = "none" /\ WalkHonest'
  <2>1. StuckKeep'
    BY <1>0, <1>2, <1>5 DEF DiagInv, WalkInv, StuckKeep
  <2> QED
    BY <2>1, <1>0, <1>3 DEF DiagInv, WalkInv, Walking, WalkHonest
<1>8. \A a \in 1 .. n : Shows(a, n)'
  <2> SUFFICES ASSUME NEW a \in 1 .. n, Cell(a) \notin board.stuck
               PROVE  \E b \in a .. n : mem'[Cell(a)] = Pattern(b)
    BY <1>3 DEF Shows, Pattern
  <2>1. a \in Addresses /\ Cell(a) \in Addresses /\ n \in a .. n /\ a \in Nat
    <3>1. a \in Nat /\ 1 <= a /\ a <= Words /\ n \in a .. n
      BY <1>n
    <3> QED
      BY <1>1, <1>n, <3>1
  <2>2. CASE Cell(a) = c
    BY <1>0, <1>2, <2>1, <2>2
  <2>3. CASE Cell(a) # c
    <3>1. a \in 1 .. n - 1
      BY <1>n, <2>1, <2>3 DEF c
    <3>2. PICK b \in a .. n - 1 : mem[Cell(a)] = Pattern(b)
      BY <1>0, <3>1 DEF DiagInv, WalkInv, Marked, Shows
    <3>3. b \in a .. n
      BY <1>n, <2>1
    <3>4. mem'[Cell(a)] = mem[Cell(a)]
      BY <1>0, <1>2, <2>1, <2>3
    <3> QED
      BY <3>2, <3>3, <3>4
  <2> QED
    BY <2>2, <2>3
<1>9. Marked'
  <2>1. CASE n = Words /\ stage' = "check" /\ i' = 1
    BY <1>0, <1>8, <2>1 DEF Marked
  <2>2. CASE n < Words /\ stage' = "write" /\ i' = n + 1
    <3>1. i' - 1 = n
      BY <1>0, <2>2
    <3> QED
      BY <1>8, <2>2, <3>1 DEF Marked
  <2> QED
    BY <1>4, <2>1, <2>2
<1>10. Checked'
  <2>1. i' = 1 \/ stage' = "write"
    BY <1>4
  <2> QED
    BY <1>4, <2>1 DEF Checked
<1>11. Restoring'
  <2> SUFFICES ASSUME Sound PROVE Restoring'
    BY <1>3 DEF Restoring
  <2>1. errors' = 0 /\ board.stuck = {} /\ \A a, b \in Addresses : Cell(a) = Cell(b) => a = b
    BY <1>0, <1>3 DEF DiagInv, WalkInv, Restoring, Walking, Sound, Cell
  <2>2. ASSUME NEW a \in Addresses
        PROVE  /\ a <= n => saved'[a] = before[Cell(a)] /\ mem'[Cell(a)] = Pattern(a)
               /\ a > n => mem'[Cell(a)] = before[Cell(a)]
    <3>1. /\ a < n => saved[a] = before[Cell(a)] /\ mem[Cell(a)] = Pattern(a)
          /\ a >= n => mem[Cell(a)] = before[Cell(a)]
      BY <1>0 DEF DiagInv, WalkInv, Restoring
    <3>2. CASE a = n
      BY <1>0, <1>2, <1>5, <2>1, <3>1, <3>2 DEF c
    <3>3. CASE a # n
      <4>1. Cell(a) # c /\ Cell(a) \in Addresses
        BY <1>1, <2>1, <3>3 DEF c
      <4>2. mem'[Cell(a)] = mem[Cell(a)] /\ saved'[a] = saved[a]
        BY <1>0, <1>2, <1>5, <3>3, <4>1
      <4>3. (a <= n => a < n) /\ (a > n => a >= n)
        BY <1>n, <3>3
      <4> QED
        BY <3>1, <4>2, <4>3
    <3> QED
      BY <3>2, <3>3
  <2>3. CASE n = Words /\ stage' = "check" /\ i' = 1
    <3>1. ASSUME NEW a \in Addresses PROVE a <= n /\ a >= i' /\ ~(a < i')
      BY <1>0, <2>3
    <3> QED
      BY <1>3, <2>1, <2>2, <2>3, <3>1 DEF Restoring, Pattern
  <2>4. CASE n < Words /\ stage' = "write" /\ i' = n + 1
    <3>1. ASSUME NEW a \in Addresses PROVE (a < i' => a <= n) /\ (a >= i' => a > n)
      BY <1>n, <2>4
    <3> QED
      BY <1>3, <2>1, <2>2, <2>4, <3>1 DEF Restoring, Pattern
  <2> QED
    BY <1>4, <2>3, <2>4
<1> QED
  BY <1>6, <1>7, <1>9, <1>10, <1>11 DEF WalkInv

\* The second loop: a word that reads as its own pattern is alone on its cell.
LEMMA CheckKeeps ==
  ASSUME DiagInv, board' = board, WalkCheck
  PROVE  WalkInv' /\ mem' \in [Addresses -> Nat] /\ errors' \in Nat
<1>0. /\ Addresses = 1 .. Words /\ stage = "check" /\ errors \in Nat
      /\ board.wiring \in [Addresses -> Addresses] /\ board.stuck \subseteq Addresses
      /\ mem \in [Addresses -> Nat] /\ saved \in [Addresses -> Nat]
  BY DEF DiagInv, DiagTyped, Addresses, WalkCheck
<1>1. \A a \in Addresses : Cell(a) \in Addresses
  BY <1>0 DEF Cell
<1> PICK n \in Addresses : n = i
  BY DEF DiagInv, DiagTyped
<1>n. n \in Nat /\ 1 <= n /\ n <= Words
  BY AddressesAre
<1> DEFINE c == Cell(n)
<1>2. /\ errors' = IF mem[c] # Pattern(n) THEN errors + 1 ELSE errors
      /\ c \in board.stuck => mem' = mem
      /\ c \notin board.stuck => mem' = [mem EXCEPT ![c] = saved[n]]
  BY DEF WalkCheck, ReadBack, Stored, Cell
<1>3. /\ UNCHANGED <<before, saved, verdict>>
      /\ \A a : Cell(a)' = Cell(a)
      /\ Sound' = Sound
  BY DEF WalkCheck, Cell, Sound
<1>4. \/ n = Words /\ stage' = "report" /\ i' = 1
      \/ n < Words /\ stage' = "check" /\ i' = n + 1
  <2>1. (n = Words /\ stage' = "report" /\ i' = 1) \/ (n # Words /\ stage' = "check" /\ i' = n + 1)
    BY <1>0 DEF WalkCheck, LoopEnds
  <2> QED
    BY <2>1, <1>n, AddressesAre
<1>5. c \in Addresses
  BY <1>1
<1> HIDE DEF c
<1>6. mem' \in [Addresses -> Nat] /\ errors' \in Nat
  <2>1. mem \in [Addresses -> Nat] /\ saved[n] \in Nat
    BY <1>0
  <2> QED
    BY <1>0, <1>2, <1>5, <2>1
<1>7. /\ StuckKeep'
      /\ verdict' = "none" /\ WalkHonest'
  <2>1. StuckKeep'
    BY <1>0, <1>2, <1>5 DEF DiagInv, WalkInv, StuckKeep
  <2> QED
    BY <2>1, <1>0, <1>3 DEF DiagInv, WalkInv, Walking, WalkHonest
<1>8. Marked'
  <2> SUFFICES ASSUME stage' = "check", NEW a \in Addresses,
                      \A e \in 1 .. i' - 1 : Cell(e) # Cell(a)
               PROVE  Shows(a, Words)'
    BY <1>3, <1>4 DEF Marked
  <2>1. i' - 1 = n /\ n \in 1 .. n /\ \A e \in 1 .. n - 1 : e \in 1 .. n
    BY <1>4, <1>n
  <2>2. Cell(a) # c /\ \A e \in 1 .. n - 1 : Cell(e) # Cell(a)
    BY <2>1 DEF c
  <2>3. Shows(a, Words)
    BY <1>0, <2>2 DEF DiagInv, WalkInv, Marked
  <2>4. mem'[Cell(a)] = mem[Cell(a)]
    BY <1>0, <1>1, <1>2, <1>5, <2>2
  <2> QED
    BY <1>3, <2>3, <2>4 DEF Shows, Pattern
<1>9. Checked'
  <2>1. ASSUME errors' = 0, NEW a \in Addresses, a <= n PROVE Alone(a)
    <3>1. errors = 0 /\ mem[c] = Pattern(n)
      BY <1>0, <1>2, <2>1
    <3>2. \A e \in 1 .. n - 1 : Alone(e)
      BY <1>0, <3>1 DEF DiagInv, WalkInv, Checked
    <3>3. CASE a < n
      <4>1. a \in 1 .. n - 1
        BY <1>n, <3>3, AddressesAre
      <4> QED
        BY <3>2, <4>1
    <3>4. CASE a = n
      <4>1. c \notin board.stuck
        <5>1. c \in Nat /\ c <= Words /\ Words \in Nat
          BY <1>5, AddressesAre
        <5>2. c # Words + n
          BY <1>n, <5>1
        <5> QED
          BY <3>1, <5>2 DEF DiagInv, WalkInv, StuckKeep, Pattern
      <4>2. ASSUME NEW b \in Addresses, Cell(b) = c, b # n PROVE FALSE
        <5>1. b \in Nat /\ 1 <= b /\ b <= Words /\ Words \in Nat
          BY AddressesAre
        <5>2. ~(b < n)
          <6> SUFFICES ASSUME b < n PROVE FALSE
            OBVIOUS
          <6>1. b \in 1 .. n - 1
            BY <1>n, <5>1
          <6> QED
            BY <3>2, <4>2, <6>1 DEF Alone, c
        <5>3. \A e \in 1 .. n - 1 : Cell(e) # Cell(b)
          <6> SUFFICES ASSUME NEW e \in 1 .. n - 1, Cell(e) = Cell(b) PROVE FALSE
            OBVIOUS
          <6>1. e \in Nat /\ e < n
            BY <1>n
          <6>2. e = b
            BY <3>2 DEF Alone
          <6> QED
            BY <5>2, <6>1, <6>2
        <5>4. PICK d \in b .. Words : mem[c] = Pattern(d)
          BY <1>0, <4>1, <4>2, <5>3 DEF DiagInv, WalkInv, Marked, Shows
        <5>5. d = n
          <6>1. d \in Nat /\ Words + d = Words + n
            BY <3>1, <5>1, <5>4 DEF Pattern
          <6> QED
            BY <1>n, <5>1, <6>1
        <5>6. b <= n
          BY <5>1, <5>5
        <5> QED
          BY <1>n, <4>2, <5>1, <5>2, <5>6
      <4> QED
        BY <3>4, <4>1, <4>2 DEF Alone, c
    <3> QED
      BY <1>n, <2>1, <3>3, <3>4, AddressesAre
  <2>2. \A a : Alone(a)' <=> Alone(a)
    BY <1>3 DEF Alone
  <2>3. CASE n = Words /\ stage' = "report" /\ i' = 1
    <3>1. \A a \in Addresses : a <= n
      BY <2>3, AddressesAre
    <3> QED
      BY <2>1, <2>2, <2>3, <3>1 DEF Checked
  <2>4. CASE n < Words /\ stage' = "check" /\ i' = n + 1
    <3>1. ASSUME NEW a \in 1 .. i' - 1 PROVE a \in Addresses /\ a <= n
      <4>1. a \in Nat /\ 1 <= a /\ a <= n /\ a <= Words
        BY <1>n, <2>4, AddressesAre
      <4> QED
        BY <4>1, AddressesAre
    <3> QED
      BY <2>1, <2>2, <2>4, <3>1 DEF Checked
  <2> QED
    BY <1>4, <2>3, <2>4
<1>10. Restoring'
  <2> SUFFICES ASSUME Sound PROVE Restoring'
    BY <1>3 DEF Restoring
  <2>1. /\ errors = 0 /\ board.stuck = {}
        /\ \A a, b \in Addresses : Cell(a) = Cell(b) => a = b
    BY <1>0 DEF DiagInv, WalkInv, Restoring, Walking, Sound, Cell
  <2>2. /\ \A a \in Addresses : saved[a] = before[Cell(a)]
        /\ \A a \in Addresses : a < n => mem[Cell(a)] = before[Cell(a)]
        /\ \A a \in Addresses : a >= n => mem[Cell(a)] = Pattern(a)
    BY <1>0 DEF DiagInv, WalkInv, Restoring
  <2>3. errors' = 0
    <3>1. n >= n
      BY <1>n
    <3> QED
      BY <1>2, <2>1, <2>2, <3>1 DEF c
  <2>4. ASSUME NEW a \in Addresses
        PROVE  /\ a <= n => mem'[Cell(a)] = before[Cell(a)]
               /\ a > n => mem'[Cell(a)] = Pattern(a)
    <3>1. CASE a = n
      <4>1. ~(a > n)
        BY <1>n, <3>1
      <4>2. mem' = [mem EXCEPT ![c] = saved[n]] /\ Cell(a) = c
        BY <1>2, <2>1, <3>1 DEF c
      <4>3. mem'[Cell(a)] = saved[n]
        BY <1>0, <1>5, <4>2
      <4> QED
        BY <2>2, <3>1, <4>1, <4>3
    <3>2. CASE a # n
      <4>1. Cell(a) # c /\ Cell(a) \in Addresses
        BY <1>1, <2>1, <3>2 DEF c
      <4>2. mem'[Cell(a)] = mem[Cell(a)]
        BY <1>0, <1>2, <1>5, <4>1
      <4>3. (a <= n => a < n) /\ (a > n => a >= n)
        BY <1>n, <3>2, AddressesAre
      <4> QED
        BY <2>2, <4>2, <4>3
    <3> QED
      BY <3>1, <3>2
  <2>5. CASE n = Words /\ stage' = "report" /\ i' = 1
    <3>1. \A a \in Addresses : a <= n
      BY <2>5, AddressesAre
    <3> QED
      BY <1>3, <2>3, <2>4, <2>5, <3>1 DEF Restoring
  <2>6. CASE n < Words /\ stage' = "check" /\ i' = n + 1
    <3>1. ASSUME NEW a \in Addresses PROVE (a < i' => a <= n) /\ (a >= i' => a > n)
      BY <1>n, <2>6, AddressesAre
    <3> QED
      BY <1>3, <2>2, <2>3, <2>4, <2>6, <3>1 DEF Restoring, Pattern
  <2> QED
    BY <1>4, <2>5, <2>6
<1> QED
  BY <1>6, <1>7, <1>8, <1>9, <1>10 DEF WalkInv

\* The verdict: all words alone is sound memory, and sound memory is as it was.
LEMMA ReportKeeps ==
  ASSUME DiagInv, board' = board, WalkReport
  PROVE  WalkInv'
<1>0. /\ stage = "report" /\ stage' = "prompt" /\ UNCHANGED <<mem, before, errors>>
      /\ verdict' = IF errors = 0 THEN "ok" ELSE "FAILED"
  BY DEF WalkReport, Onward
<1>1. /\ board.wiring \in [Addresses -> Addresses] /\ board.stuck \subseteq Addresses
      /\ mem \in [Addresses -> Nat] /\ before \in [Addresses -> Nat]
  BY DEF DiagInv, DiagTyped
<1>2. errors = 0 => Sound
  <2> SUFFICES ASSUME errors = 0 PROVE Sound
    OBVIOUS
  <2>1. \A a \in Addresses : Alone(a)
    BY <1>0 DEF DiagInv, WalkInv, Checked
  <2>2. \A a, b \in Addresses : board.wiring[a] = board.wiring[b] => a = b
    BY <2>1 DEF Alone, Cell
  <2>3. ASSUME NEW c \in board.stuck PROVE FALSE
    <3>1. PICK a \in Addresses : board.wiring[a] = c
      BY <1>1, <2>2, WiringReachesAll
    <3> QED
      BY <2>1, <3>1 DEF Alone, Cell
  <2> QED
    BY <2>2, <2>3 DEF Sound
<1>3. Sound => errors = 0 /\ mem = before
  <2> SUFFICES ASSUME Sound PROVE errors = 0 /\ mem = before
    OBVIOUS
  <2>1. errors = 0 /\ \A a \in Addresses : mem[Cell(a)] = before[Cell(a)]
    BY <1>0 DEF DiagInv, WalkInv, Restoring, Walking
  <2>2. ASSUME NEW c \in Addresses PROVE mem[c] = before[c]
    <3>1. PICK a \in Addresses : board.wiring[a] = c
      BY <1>1, WiringReachesAll DEF Sound
    <3> QED
      BY <2>1, <3>1 DEF Cell
  <2> QED
    BY <1>1, <2>1, <2>2
<1>4. WalkHonest'
  <2>1. Sound' = Sound
    BY DEF Sound
  <2> QED
    BY <1>0, <1>2, <1>3, <2>1 DEF WalkHonest
<1>5. StuckKeep'
  BY <1>0 DEF DiagInv, WalkInv, StuckKeep
<1> QED
  BY <1>0, <1>4, <1>5 DEF WalkInv, Walking, Marked, Checked, Restoring

\* Every step of the boot and of the prompt keeps the invariant.
LEMMA DiagStepKeeps == DiagInv /\ [DiagNext]_diagVars => DiagInv'
<1> SUFFICES ASSUME DiagInv, [DiagNext]_diagVars PROVE DiagInv'
  OBVIOUS
<1>0. board' = board /\ DiagTyped
  BY DEF DiagNext, diagVars, DiagInv
<1>1. level' \in [Pins -> {0, 1}]
  BY LevelStep
<1> SUFFICES /\ WalkInv' /\ i' \in Addresses /\ errors' \in Nat
             /\ mem' \in [Addresses -> Nat] /\ before' \in [Addresses -> Nat]
             /\ saved' \in [Addresses -> Nat]
  BY <1>0, <1>1 DEF DiagInv, DiagTyped
<1>2. ASSUME Untouched, ~Walking, ~Walking'
      PROVE  /\ WalkInv' /\ i' \in Addresses /\ errors' \in Nat
             /\ mem' \in [Addresses -> Nat] /\ before' \in [Addresses -> Nat]
             /\ saved' \in [Addresses -> Nat]
  BY <1>0, <1>2, QuietKeeps DEF Untouched, DiagTyped
<1>3. CASE custom_status_led_on \/ Preboot \/ DiagLedOn \/ DiagInfo
  <2>1. Untouched /\ ~Walking /\ ~Walking'
    BY <1>3 DEF custom_status_led_on, Preboot, DiagLedOn, DiagInfo, Onward, Walking
  <2> QED
    BY <1>2, <2>1
<1>4. CASE MmcBoot \/ Claim \/ PromptLed \/ PromptBoot
  <2>1. Untouched /\ ~Walking /\ ~Walking'
    BY <1>4 DEF MmcBoot, Claim, PromptLed, PromptBoot, Onward, Walking
  <2> QED
    BY <1>2, <2>1
<1>5. CASE PromptMem
  <2>1. /\ stage' = "write" /\ i' = 1 /\ errors' = 0 /\ before' = mem /\ verdict' = "none"
        /\ UNCHANGED <<mem, saved>>
    BY <1>5 DEF PromptMem, Onward
  <2>2. i' \in Addresses
    BY <2>1, WordsAssumption DEF Addresses
  <2>3. StuckKeep' /\ WalkHonest'
    BY <1>0, <2>1 DEF DiagInv, WalkInv, StuckKeep, WalkHonest
  <2>4. Marked' /\ Checked'
    BY <2>1 DEF Marked, Checked
  <2>5. Restoring'
    <3>1. \A a \in Addresses : ~(a < 1)
      BY AddressesAre
    <3> QED
      BY <2>1, <3>1 DEF Restoring
  <2> QED
    BY <1>0, <2>1, <2>2, <2>3, <2>4, <2>5 DEF WalkInv, DiagTyped
<1>6. CASE WalkWrite
  <2>1. i' \in Addresses
    <3>1. i' = 1 \/ (i # Words /\ i' = i + 1)
      BY <1>6 DEF WalkWrite, LoopEnds
    <3>2. PICK n \in Addresses : n = i
      BY <1>0 DEF DiagTyped
    <3>3. n \in Nat /\ 1 <= n /\ n <= Words /\ Words \in Nat
      BY AddressesAre
    <3>4. i' \in Nat /\ 1 <= i' /\ i' <= Words
      BY <3>1, <3>2, <3>3
    <3> QED
      BY <3>4, AddressesAre
  <2> QED
    BY <1>0, <1>6, <2>1, WriteKeeps DEF WalkWrite, DiagTyped
<1>7. CASE WalkCheck
  <2>1. i' \in Addresses
    <3>1. i' = 1 \/ (i # Words /\ i' = i + 1)
      BY <1>7 DEF WalkCheck, LoopEnds
    <3>2. PICK n \in Addresses : n = i
      BY <1>0 DEF DiagTyped
    <3>3. n \in Nat /\ 1 <= n /\ n <= Words /\ Words \in Nat
      BY AddressesAre
    <3>4. i' \in Nat /\ 1 <= i' /\ i' <= Words
      BY <3>1, <3>2, <3>3
    <3> QED
      BY <3>4, AddressesAre
  <2> QED
    BY <1>0, <1>7, <2>1, CheckKeeps DEF WalkCheck, DiagTyped
<1>8. CASE WalkReport
  BY <1>0, <1>8, ReportKeeps DEF WalkReport, DiagTyped
<1>9. CASE UNCHANGED diagVars
  <2>1. UNCHANGED <<board, stage, mem, before, saved, i, errors, verdict>>
    BY <1>9 DEF diagVars
  <2>2. StuckKeep' /\ WalkHonest' /\ Marked' /\ Checked' /\ (Walking' => verdict' = "none")
    BY <2>1 DEF DiagInv, WalkInv, StuckKeep, WalkHonest, Sound, Marked, Checked, Shows, Alone,
                Cell, Pattern, Walking
  <2>3. Restoring'
    BY <2>1 DEF DiagInv, WalkInv, Restoring, Sound, Cell, Pattern, Walking
  <2> QED
    BY <1>0, <2>1, <2>2, <2>3 DEF WalkInv, DiagTyped
<1> QED
  BY <1>3, <1>4, <1>5, <1>6, <1>7, <1>8, <1>9 DEF DiagNext, DiagStep

\* do_diag_mem() passes only memory without shorted address lines and stuck cells, and
\* passes and restores all such memory, for every number of words, every wiring and
\* every stuck cell, however often it is called.
THEOREM WalkHonestHolds == DiagSpec => []WalkHonest
<1>1. DiagInv => WalkHonest
  BY DEF DiagInv, WalkInv
<1> QED
  BY DiagInitial, DiagStepKeeps, <1>1, PTL DEF DiagSpec

-------------------------------------------------------------------------------
(* Numbers, positions and ranks *)

\* Numbers are well-founded.
LEMMA LeastNumber ==
  ASSUME NEW T, T \subseteq Nat, T # {}
  PROVE  \E x \in T : \A y \in T : x <= y
<1>1. IsWellFoundedOn(OpToRel(<, Nat), Nat)
  BY NatLessThanWellFounded
<1>2. PICK x \in T : \A y \in T : ~(<<y, x>> \in OpToRel(<, Nat))
  BY <1>1, WFMin
<1>3. \A y \in T : x <= y
  <2> SUFFICES ASSUME NEW y \in T PROVE x <= y
    OBVIOUS
  <2>1. ~(<<y, x>> \in OpToRel(<, Nat)) /\ x \in Nat /\ y \in Nat
    BY <1>2
  <2>2. <<y, x>> \in OpToRel(<, Nat) <=> y < x
    BY <2>1 DEF OpToRel
  <2>3. ~(y < x)
    BY <2>1, <2>2, Zenon
  <2>4. x \in Nat /\ y \in Nat
    BY <1>2, Zenon
  <2> QED BY <2>3, <2>4
<1> QED BY <1>3

\* Induction, with a set of numbers for the predicate.
LEMMA Induction ==
  ASSUME NEW T, 0 \in T, \A n \in Nat : n \in T => n + 1 \in T
  PROVE  Nat \subseteq T
<1> SUFFICES ASSUME Nat \ T # {} PROVE FALSE
  OBVIOUS
<1>1. PICK x \in Nat \ T : \A y \in Nat \ T : x <= y
  BY LeastNumber
<1>2. x - 1 \in Nat /\ (x - 1) + 1 = x /\ ~(x <= x - 1)
  BY <1>1
<1> QED BY <1>1, <1>2

\* A set of positions and the other positions.
LEMMA Positions ==
  ASSUME NEW n \in Nat, NEW A, A \subseteq 1 .. n
  PROVE  /\ IsFiniteSet(A) /\ Cardinality(A) \in 0 .. n
         /\ Cardinality(A) + Cardinality((1 .. n) \ A) = n
<1> DEFINE B == (1 .. n) \ A
<1>1. IsFiniteSet(1 .. n) /\ Cardinality(1 .. n) = n
  BY FS_Interval
<1>2. IsFiniteSet(A) /\ IsFiniteSet(B)
  <2>1. A \in SUBSET (1 .. n) /\ B \in SUBSET (1 .. n)
    OBVIOUS
  <2> HIDE DEF B
  <2> QED
    BY <1>1, <2>1, FS_Subset
<1>3. A \cup B = 1 .. n /\ A \cap B = {}
  OBVIOUS
<1>4. Cardinality(A \cup B) = Cardinality(A) + Cardinality(B) - Cardinality(A \cap B)
  <2> HIDE DEF B
  <2> QED
    BY <1>2, FS_Union
<1>5. Cardinality(A) \in Nat /\ Cardinality(B) \in Nat
  <2> HIDE DEF B
  <2> QED
    BY <1>2, FS_CardinalityType
<1>6. Cardinality(A \cap B) = 0
  BY <1>3, FS_EmptySet
<1>7. n = Cardinality(A) + Cardinality(B)
  <2> HIDE DEF B
  <2>1. n = Cardinality(A) + Cardinality(B) - 0
    BY <1>1, <1>3, <1>4, <1>6, Zenon
  <2> QED
    BY <1>5, <2>1
<1> HIDE DEF B
<1>8. Cardinality(A) \in 0 .. n
  BY <1>5, <1>7
<1> QED
  BY <1>2, <1>5, <1>7, <1>8 DEF B

\* A sequence of numbers has a bound.
LEMMA BoundOf ==
  ASSUME NEW s \in Seq(Nat)
  PROVE  \E b \in Nat : \A j \in 1 .. Len(s) : s[j] <= b
<1> DEFINE T == {n \in Nat : \E b \in Nat : \A j \in 1 .. Len(s) : j <= n => s[j] <= b}
<1>1. 0 \in T
  OBVIOUS
<1>2. ASSUME NEW n \in Nat, n \in T PROVE n + 1 \in T
  <2>1. PICK b \in Nat : \A j \in 1 .. Len(s) : j <= n => s[j] <= b
    BY <1>2
  <2>2. CASE n + 1 \in 1 .. Len(s)
    <3>1. PICK c \in Nat : c = s[n + 1]
      BY <2>2
    <3>2. \A j \in 1 .. Len(s) : j <= n + 1 => s[j] <= b + c
      <4> SUFFICES ASSUME NEW j \in 1 .. Len(s), j <= n + 1 PROVE s[j] <= b + c
        OBVIOUS
      <4>1. s[j] \in Nat
        OBVIOUS
      <4>2. CASE j <= n
        BY <2>1, <4>1, <4>2
      <4>3. CASE j = n + 1
        BY <3>1, <4>3
      <4> QED
        BY <4>2, <4>3
    <3>3. n + 1 \in Nat /\ b + c \in Nat
      OBVIOUS
    <3> QED
      BY <3>2, <3>3, Zenon
  <2>3. CASE n + 1 \notin 1 .. Len(s)
    <3>1. \A j \in 1 .. Len(s) : j <= n + 1 => j <= n
      BY <2>3
    <3>2. n + 1 \in Nat
      OBVIOUS
    <3> QED
      BY <2>1, <3>1, <3>2, Zenon
  <2> QED
    BY <2>2, <2>3
<1>3. Nat \subseteq T
  <2> HIDE DEF T
  <2> QED
    BY <1>1, <1>2, Induction
<1>4. PICK n \in Nat : n = Len(s)
  OBVIOUS
<1>5. n \in T
  BY <1>3
<1> QED
  BY <1>4, <1>5

\* Position k of a sorted sequence has one of its values, at most Len(s) - k values are
\* above it, and more than that are not below it.
LEMMA SortedRank ==
  ASSUME NEW s \in Seq(Nat), NEW k \in 1 .. Len(s)
  PROVE  LET v == Sorted(s)[k]
         IN  /\ v \in Nat
             /\ Cardinality({j \in 1 .. Len(s) : s[j] > v}) <= Len(s) - k
             /\ Cardinality({j \in 1 .. Len(s) : s[j] >= v}) > Len(s) - k
<1>0. PICK n \in Nat : n = Len(s)
  OBVIOUS
<1>1. k \in 1 .. n
  BY <1>0
<1> DEFINE Least == {v \in Nat : k <= Cardinality(UpTo(s, v))}
           Rank(v) == Cardinality(Below(s, v)) < k /\ k <= Cardinality(UpTo(s, v))
           Present == {s[j] : j \in 1 .. Len(s)}
<1>2. Least # {}
  <2>1. PICK b \in Nat : \A j \in 1 .. Len(s) : s[j] <= b
    BY BoundOf
  <2>2. UpTo(s, b) = 1 .. n
    BY <1>0, <2>1 DEF UpTo
  <2>3. Cardinality(UpTo(s, b)) = n
    BY <2>2, FS_Interval
  <2> QED
    BY <1>1, <2>3
<1>3. PICK v \in Least : \A u \in Least : v <= u
  <2> HIDE DEF Least
  <2>1. Least \subseteq Nat
    BY DEF Least
  <2> QED
    BY <1>2, <2>1, LeastNumber
<1>4. \A u \in Nat : Cardinality(Below(s, u)) \in Nat /\ Cardinality(UpTo(s, u)) \in Nat
  <2>1. \A u \in Nat : Below(s, u) \subseteq 1 .. n /\ UpTo(s, u) \subseteq 1 .. n
    BY <1>0 DEF Below, UpTo
  <2>2. \A u \in Nat : Cardinality(Below(s, u)) \in 0 .. n /\ Cardinality(UpTo(s, u)) \in 0 .. n
    BY <2>1, Positions
  <2>3. 0 .. n \subseteq Nat
    OBVIOUS
  <2> QED
    BY <2>2, <2>3, Zenon
<1>5. Cardinality(Below(s, v)) < k
  <2>1. CASE v = 0
    <3>1. Below(s, v) = {}
      BY <2>1 DEF Below
    <3> QED
      BY <1>1, <3>1, FS_EmptySet
  <2>2. CASE v # 0
    <3>1. v - 1 \in Nat /\ ~(v <= v - 1)
      BY <2>2
    <3>2. ~(k <= Cardinality(UpTo(s, v - 1)))
      BY <1>3, <3>1
    <3>3. Below(s, v) = UpTo(s, v - 1)
      BY <3>1 DEF Below, UpTo
    <3> QED
      BY <1>1, <1>4, <3>1, <3>2, <3>3
  <2> QED
    BY <2>1, <2>2
<1>6. Rank(v) /\ v \in Nat
  BY <1>5
<1>7. v \in Present
  <2> SUFFICES ASSUME v \notin Present PROVE FALSE
    OBVIOUS
  <2>1. \A j \in 1 .. Len(s) : s[j] # v
    OBVIOUS
  <2>2. \A j \in 1 .. Len(s) : s[j] < v <=> s[j] <= v
    BY <1>6, <2>1
  <2>3. Below(s, v) = UpTo(s, v)
    BY <2>2 DEF Below, UpTo
  <2>4. Cardinality(Below(s, v)) = Cardinality(UpTo(s, v))
    BY <2>3, Zenon
  <2>5. PICK c \in Nat : c = Cardinality(UpTo(s, v))
    BY <1>4, <1>6
  <2> QED
    BY <1>1, <1>6, <2>4, <2>5
<1> DEFINE w == Sorted(s)[k]
<1>8. w = CHOOSE u \in Present : Rank(u)
  BY DEF Sorted
<1>9. w \in Present /\ Rank(w)
  <2> HIDE DEF Present, Rank, w
  <2> QED
    BY <1>6, <1>7, <1>8
<1>10. w \in Nat
  BY <1>9
<1> HIDE DEF w
<1>11. (1 .. n) \ UpTo(s, w) = {j \in 1 .. Len(s) : s[j] > w}
  BY <1>0, <1>10 DEF UpTo
<1>12. (1 .. n) \ Below(s, w) = {j \in 1 .. Len(s) : s[j] >= w}
  BY <1>0, <1>10 DEF Below
<1>13. UpTo(s, w) \subseteq 1 .. n /\ Below(s, w) \subseteq 1 .. n
  BY <1>0 DEF UpTo, Below
<1> DEFINE above == {j \in 1 .. Len(s) : s[j] > w}
           within == {j \in 1 .. Len(s) : s[j] >= w}
<1>14. Cardinality(UpTo(s, w)) + Cardinality(above) = n
  BY <1>11, <1>13, Positions
<1>15. Cardinality(Below(s, w)) + Cardinality(within) = n
  BY <1>12, <1>13, Positions
<1>16. Cardinality(above) \in Nat /\ Cardinality(within) \in Nat
  <2>1. above \subseteq 1 .. n /\ within \subseteq 1 .. n
    BY <1>0
  <2> HIDE DEF above, within
  <2>2. Cardinality(above) \in 0 .. n /\ Cardinality(within) \in 0 .. n
    BY <2>1, Positions
  <2> QED
    BY <2>2
<1>17. Cardinality(above) <= n - k /\ Cardinality(within) > n - k
  <2> HIDE DEF above, within
  <2>1. Cardinality(UpTo(s, w)) \in Nat /\ Cardinality(Below(s, w)) \in Nat
    BY <1>4, <1>10
  <2>2. Cardinality(Below(s, w)) < k /\ k <= Cardinality(UpTo(s, w))
    BY <1>9
  <2> QED
    BY <1>1, <1>14, <1>15, <1>16, <2>1, <2>2
<1> QED
  BY <1>0, <1>10, <1>17 DEF w

\* Multiples of the window one turn apart.
LEMMA NextTurn ==
  ASSUME NEW w \in Nat, NEW q \in Int
  PROVE  w * (q + 1) = w * q + w
BY SMT

\* A later turn is at least a window away.
LEMMA LaterTurn ==
  ASSUME NEW w \in Nat, NEW p \in Int, NEW q \in Int, p < q
  PROVE  w * p + w <= w * q
BY SMT

\* The remainder of a position, read off its decomposition.
LEMMA Remainder ==
  ASSUME NEW w \in Nat \ {0}, NEW x \in Nat, NEW q \in Int, NEW r \in 0 .. w - 1, x = w * q + r
  PROVE  x % w = r
BY SMT

\* A position belongs to one slot only.
LEMMA SlotUnique ==
  ASSUME NEW w \in Nat \ {0}, NEW p \in Int, NEW q \in Int, NEW s \in 1 .. w, NEW t \in 1 .. w,
         w * p + s = w * q + t
  PROVE  s = t
<1>0. w * p \in Int /\ w * q \in Int
  OBVIOUS
<1>1. CASE p < q
  <2>1. w * p + w <= w * q
    BY <1>1, LaterTurn
  <2> QED
    BY <1>0, <2>1
<1>2. CASE q < p
  <2>1. w * q + w <= w * p
    BY <1>2, LaterTurn
  <2> QED
    BY <1>0, <2>1
<1>3. CASE p = q
  BY <1>0, <1>3
<1> QED
  BY <1>1, <1>2, <1>3

\* Slots are numbered from 1, remainders from 0.
LEMMA SlotRemainder ==
  ASSUME NEW w \in Nat \ {0}, NEW x \in Nat, NEW q \in Int, NEW s \in 1 .. w, x = w * q + s
  PROVE  x % w = s % w
<1>1. CASE s = w
  <2>1. x = w * (q + 1) + 0 /\ q + 1 \in Int /\ 0 \in 0 .. w - 1
    BY <1>1, NextTurn
  <2>2. s = w * 1 + 0 /\ s \in Nat
    BY <1>1
  <2> QED
    BY <2>1, <2>2, Remainder
<1>2. CASE s # w
  <2>1. s \in 0 .. w - 1 /\ s \in Nat
    BY <1>2
  <2>2. s = w * 0 + s
    BY <2>1
  <2> QED
    BY <2>1, <2>2, Remainder
<1> QED
  BY <1>1, <1>2


-------------------------------------------------------------------------------
(* A ring of the latest w of the numbers in h; c is its cursor *)

\* Slot t of the ring holds the value of a position of its own among the latest w ones.
HoldsAt(w, buf, h, t) ==
  \E j \in 1 .. Len(h) :
    /\ \E p \in Int : j = w * p + t
    /\ Len(h) - j < w
    /\ buf[t] = h[j]

Ring(w, buf, h, c) ==
  /\ buf \in Seq(Nat) /\ h \in Seq(Nat)
  /\ c \in 0 .. w - 1
  /\ \E q \in Int : Len(h) = w * q + c
  /\ Len(buf) = IF Len(h) < w THEN Len(h) ELSE w
  /\ \A t \in 1 .. Len(buf) : HoldsAt(w, buf, h, t)

\* An empty ring.
LEMMA RingEmpty ==
  ASSUME NEW w \in Nat \ {0}
  PROVE  Ring(w, <<>>, <<>>, 0)
<1>1. 0 = w * 0 + 0 /\ 0 \in 0 .. w - 1 /\ 0 < w
  OBVIOUS
<1>2. Len(<<>>) = 0 /\ <<>> \in Seq(Nat)
  OBVIOUS
<1>3. \A t \in 1 .. Len(<<>>) : HoldsAt(w, <<>>, <<>>, t)
  BY <1>2
<1> QED
  BY <1>1, <1>2, <1>3 DEF Ring

\* Replacing an element of a sequence.
LEMMA Replaced ==
  ASSUME NEW A, NEW s \in Seq(A), NEW j \in 1 .. Len(s), NEW a \in A, NEW u,
         u = [s EXCEPT ![j] = a]
  PROVE  u \in Seq(A) /\ Len(u) = Len(s)
OBVIOUS

\* A value is appended while the ring is not full, and then replaces the one whose value
\* has just become too old, so every other slot's value is still among the latest.
LEMMA RingAdds ==
  ASSUME NEW w \in Nat \ {0}, NEW buf, NEW h, NEW c, Ring(w, buf, h, c), NEW v \in Nat, NEW new,
         new = IF Len(buf) < w THEN Append(buf, v) ELSE [buf EXCEPT ![c + 1] = v]
  PROVE  Ring(w, new, Append(h, v), (c + 1) % w)
<1> DEFINE later == Append(h, v)
           d == (c + 1) % w
<1> PICK n \in Nat : n = Len(h)
  BY DEF Ring
<1>1. /\ buf \in Seq(Nat) /\ h \in Seq(Nat) /\ Len(h) = n
      /\ c \in 0 .. w - 1
      /\ Len(buf) = IF n < w THEN n ELSE w
  BY DEF Ring
<1>2. PICK q \in Int : n = w * q + c
  BY DEF Ring
<1>4. /\ later \in Seq(Nat) /\ Len(later) = n + 1 /\ later[n + 1] = v
      /\ \A j \in 1 .. n : later[j] = h[j]
  BY <1>1
<1> HIDE DEF later
<1>5. d \in 0 .. w - 1 /\ \E r \in Int : n + 1 = w * r + d
  <2>1. CASE c + 1 = w
    <3>1. c + 1 = w * 1 + 0 /\ 0 \in 0 .. w - 1 /\ c + 1 \in Nat
      BY <1>1, <2>1
    <3>2. d = 0
      BY <3>1, Remainder
    <3>3. n + 1 = w * (q + 1) + 0 /\ q + 1 \in Int
      BY <1>1, <1>2, <2>1, NextTurn
    <3> QED
      BY <3>1, <3>2, <3>3
  <2>2. CASE c + 1 # w
    <3>1. c + 1 = w * 0 + (c + 1) /\ c + 1 \in 0 .. w - 1 /\ c + 1 \in Nat
      BY <1>1, <2>2
    <3>2. d = c + 1
      BY <3>1, Remainder
    <3>3. n + 1 = w * q + (c + 1)
      BY <1>1, <1>2
    <3> QED
      BY <3>1, <3>2, <3>3
  <2> QED
    BY <2>1, <2>2
<1> HIDE DEF d
<1>6. CASE n < w
  <2>1. new = Append(buf, v)
    BY <1>1, <1>6
  <2>2. /\ new \in Seq(Nat) /\ Len(new) = n + 1 /\ new[n + 1] = v
        /\ \A t \in 1 .. n : new[t] = buf[t]
    BY <1>1, <1>6, <2>1
  <2>3. ASSUME NEW t \in 1 .. n + 1 PROVE HoldsAt(w, new, later, t)
    <3>1. CASE t = n + 1
      <4>1. /\ n + 1 \in 1 .. Len(later) /\ n + 1 = w * 0 + t /\ Len(later) - (n + 1) < w
        BY <1>4, <3>1
      <4>2. new[t] = later[n + 1] /\ 0 \in Int
        BY <1>4, <2>2, <3>1
      <4> QED
        BY <4>1, <4>2, Zenon DEF HoldsAt
    <3>2. CASE t # n + 1
      <4>1. t \in 1 .. n /\ t \in 1 .. Len(buf)
        BY <1>1, <1>6, <3>2
      <4>2. PICK j \in 1 .. n : (\E p \in Int : j = w * p + t) /\ buf[t] = h[j]
        BY <4>1 DEF Ring, HoldsAt
      <4>3. j \in 1 .. n + 1 /\ (n + 1) - j < w
        BY <1>6
      <4> QED
        BY <1>4, <2>2, <4>1, <4>2, <4>3 DEF HoldsAt
    <3> QED
      BY <3>1, <3>2
  <2>4. Len(new) = IF n + 1 < w THEN n + 1 ELSE w
    BY <1>6, <2>2
  <2> QED
    BY <1>4, <1>5, <2>2, <2>3, <2>4 DEF Ring, later, d
<1>7. CASE ~(n < w)
  <2>0. PICK own \in 1 .. w : own = c + 1
    BY <1>1
  <2>1. new = [buf EXCEPT ![own] = v] /\ Len(buf) = w
    BY <1>1, <1>7, <2>0
  <2>2. own \in 1 .. w /\ n + 1 = w * q + own
    BY <1>1, <1>2, <2>0
  <2>3. /\ new \in Seq(Nat) /\ Len(new) = w /\ new[own] = v
        /\ \A t \in 1 .. w : t # own => new[t] = buf[t]
    <3>1. buf \in Seq(Nat) /\ own \in 1 .. Len(buf)
      BY <1>1, <2>1, <2>2
    <3>2. \A u : u = [buf EXCEPT ![own] = v] => u \in Seq(Nat) /\ Len(u) = Len(buf)
      BY <3>1, Replaced, SMT
    <3>3. new \in Seq(Nat) /\ Len(new) = Len(buf)
      BY <2>1, <3>2, Zenon
    <3>4. new[own] = v /\ \A t \in 1 .. Len(buf) : t # own => new[t] = buf[t]
      BY <2>1, <3>1
    <3> QED
      BY <2>1, <3>3, <3>4
  <2>4. ASSUME NEW t \in 1 .. w PROVE HoldsAt(w, new, later, t)
    <3>1. CASE t = own
      <4>1. n + 1 \in 1 .. n + 1 /\ (n + 1) - (n + 1) < w
        OBVIOUS
      <4> QED
        BY <1>4, <2>2, <2>3, <3>1, <4>1 DEF HoldsAt
    <3>2. CASE t # own
      <4>1. PICK j \in 1 .. n : (\E p \in Int : j = w * p + t) /\ n - j < w /\ buf[t] = h[j]
        BY <2>1 DEF Ring, HoldsAt
      <4>2. PICK p \in Int : j = w * p + t
        BY <4>1
      <4>3. n + 1 # j + w
        <5> SUFFICES ASSUME n + 1 = j + w PROVE FALSE
          OBVIOUS
        <5>1. w * (p + 1) + t = w * q + own /\ p + 1 \in Int
          BY <2>2, <4>2, NextTurn
        <5> QED
          BY <2>2, <3>2, <5>1, SlotUnique
      <4>4. j \in 1 .. n + 1 /\ (n + 1) - j < w
        <5>1. n - j < w
          BY <4>1
        <5> QED
          BY <4>3, <5>1
      <4> QED
        BY <1>4, <2>3, <3>2, <4>1, <4>4 DEF HoldsAt
    <3> QED
      BY <3>1, <3>2
  <2>5. Len(new) = IF n + 1 < w THEN n + 1 ELSE w
    BY <1>7, <2>3
  <2>6. \A t \in 1 .. Len(new) : HoldsAt(w, new, later, t)
    BY <2>3, <2>4
  <2>7. new \in Seq(Nat)
    BY <2>3
  <2> QED
    BY <1>4, <1>5, <2>5, <2>6, <2>7 DEF Ring, later, d
<1> QED
  BY <1>6, <1>7

\* Of the n values behind position d of s, those in V, those above v, those not below v.
Among(s, d, n, V) == {j \in 1 .. n : s[d + j] \in V}
Above(s, d, n, v) == {j \in 1 .. n : s[d + j] > v}
AtOrAbove(s, d, n, v) == {j \in 1 .. n : s[d + j] >= v}

\* The ring and the latest values have equally many values in every set V: the slots
\* are matched with the positions whose values they hold.
LEMMA RingCounts ==
  ASSUME NEW w \in Nat \ {0}, NEW buf, NEW h, NEW c, Ring(w, buf, h, c),
         NEW n \in Nat, n = Len(buf), NEW m \in Nat, m = Len(h), NEW V
  PROVE  /\ n <= m
         /\ Cardinality(Among(buf, 0, n, V)) = Cardinality(Among(h, m - n, n, V))
<1>1. n <= m /\ n <= w /\ (m < w => n = m) /\ (~(m < w) => n = w)
  BY DEF Ring
<1>2. \A t \in 1 .. n : \E k \in 1 .. n : /\ \E p \in Int : m - n + k = w * p + t
                                         /\ buf[t] = h[m - n + k]
  <2> SUFFICES ASSUME NEW t \in 1 .. n
               PROVE  \E k \in 1 .. n : /\ \E p \in Int : m - n + k = w * p + t
                                        /\ buf[t] = h[m - n + k]
    OBVIOUS
  <2>1. PICK j \in 1 .. m : (\E p \in Int : j = w * p + t) /\ m - j < w /\ buf[t] = h[j]
    BY DEF Ring, HoldsAt
  <2>2. j - (m - n) \in 1 .. n /\ m - n + (j - (m - n)) = j
    BY <1>1, <2>1
  <2> QED
    BY <2>1, <2>2
<1> DEFINE f == [t \in 1 .. n |-> CHOOSE k \in 1 .. n : /\ \E p \in Int : m - n + k = w * p + t
                                                       /\ buf[t] = h[m - n + k]]
<1>3. \A t \in 1 .. n : /\ f[t] \in 1 .. n
                       /\ \E p \in Int : m - n + f[t] = w * p + t
                       /\ buf[t] = h[m - n + f[t]]
  BY <1>2
<1> HIDE DEF f
<1>4. ASSUME NEW t \in 1 .. n, NEW u \in 1 .. n, f[t] = f[u] PROVE t = u
  <2>1. PICK p \in Int : m - n + f[t] = w * p + t
    BY <1>3
  <2>2. PICK q \in Int : m - n + f[u] = w * q + u
    BY <1>3
  <2>3. t \in 1 .. w /\ u \in 1 .. w /\ w * p + t = w * q + u
    BY <1>1, <1>4, <2>1, <2>2
  <2> QED
    BY <2>3, SlotUnique
<1> DEFINE S(U) == {t \in 1 .. n : buf[t] \in U}
           L(U) == {k \in 1 .. n : h[m - n + k] \in U}
<1>5. ASSUME NEW U PROVE Cardinality(S(U)) <= Cardinality(L(U))
  <2> DEFINE g == [t \in S(U) |-> f[t]]
  <2>1. g \in [S(U) -> L(U)]
    BY <1>3
  <2>2. \A t, u \in S(U) : g[t] = g[u] => t = u
    BY <1>4
  <2>3. g \in Injection(S(U), L(U))
    <3> HIDE DEF g
    <3> QED
      BY <2>1, <2>2 DEF Injection, IsInjective
  <2>4. IsFiniteSet(L(U))
    <3>1. L(U) \subseteq 1 .. n
      OBVIOUS
    <3> HIDE DEF L
    <3> QED
      BY <3>1, Positions
  <2> HIDE DEF S, L, g
  <2> QED
    BY <2>3, <2>4, FS_Injection
<1> DEFINE Other == {x \in {buf[t] : t \in 1 .. n} \cup {h[m - n + k] : k \in 1 .. n} : x \notin V}
<1>6. (1 .. n) \ S(V) = S(Other) /\ (1 .. n) \ L(V) = L(Other)
  OBVIOUS
<1>7. S(V) \subseteq 1 .. n /\ L(V) \subseteq 1 .. n /\ S(Other) \subseteq 1 .. n /\ L(Other) \subseteq 1 .. n
  OBVIOUS
<1> HIDE DEF S, L, Other
<1>8. /\ Cardinality(S(V)) \in 0 .. n /\ Cardinality(S(V)) + Cardinality(S(Other)) = n
      /\ Cardinality(L(V)) \in 0 .. n /\ Cardinality(L(V)) + Cardinality(L(Other)) = n
      /\ Cardinality(S(Other)) \in 0 .. n /\ Cardinality(L(Other)) \in 0 .. n
  BY <1>6, <1>7, Positions
<1>9. Cardinality(S(V)) <= Cardinality(L(V)) /\ Cardinality(S(Other)) <= Cardinality(L(Other))
  BY <1>5
<1>10. Cardinality(S(V)) = Cardinality(L(V))
  BY <1>8, <1>9
<1>11. Among(buf, 0, n, V) = S(V) /\ Among(h, m - n, n, V) = L(V)
  BY DEF Among, S, L
<1> QED
  BY <1>1, <1>10, <1>11

-------------------------------------------------------------------------------
(* Sums *)

IsSum(f, h) == f = [k \in 0 .. Len(h) |-> IF k = 0 THEN 0 ELSE f[k - 1] + h[k]]
SumsTo(h, x) == \E f : IsSum(f, h) /\ f[Len(h)] = x

\* The sum of no numbers.
LEMMA SumEmpty == SumsTo(<<>>, 0)
<1> DEFINE f == [k \in 0 .. 0 |-> 0]
<1>1. Len(<<>>) = 0 /\ \A k \in 0 .. 0 : k = 0
  OBVIOUS
<1>2. IsSum(f, <<>>)
  BY <1>1 DEF IsSum
<1> QED
  BY <1>1, <1>2 DEF SumsTo

\* One more number.
LEMMA SumAdds ==
  ASSUME NEW h \in Seq(Nat), NEW x, SumsTo(h, x), NEW v \in Nat
  PROVE  SumsTo(Append(h, v), x + v)
<1> PICK n \in Nat : n = Len(h)
  OBVIOUS
<1> DEFINE later == Append(h, v)
<1>1. /\ Len(later) = n + 1 /\ later[n + 1] = v
      /\ \A k \in 1 .. n : later[k] = h[k]
  OBVIOUS
<1> HIDE DEF later
<1>2. PICK f : IsSum(f, h) /\ f[n] = x
  BY DEF SumsTo
<1>3. f = [k \in 0 .. n |-> IF k = 0 THEN 0 ELSE f[k - 1] + h[k]]
  BY <1>2 DEF IsSum
<1> DEFINE g == [k \in 0 .. n + 1 |-> IF k = n + 1 THEN x + v ELSE f[k]]
<1>4. \A k \in 0 .. n + 1 : g[k] = IF k = 0 THEN 0 ELSE g[k - 1] + later[k]
  <2> SUFFICES ASSUME NEW k \in 0 .. n + 1
               PROVE  g[k] = IF k = 0 THEN 0 ELSE g[k - 1] + later[k]
    OBVIOUS
  <2>1. CASE k = n + 1
    <3>1. k # 0 /\ k - 1 \in 0 .. n + 1 /\ k - 1 = n /\ n # n + 1
      BY <2>1
    <3> QED
      BY <1>1, <1>2, <2>1, <3>1
  <2>2. CASE k = 0
    BY <1>3, <2>2
  <2>3. CASE k \in 1 .. n
    <3>1. k # 0 /\ k # n + 1 /\ k - 1 \in 0 .. n + 1 /\ k - 1 # n + 1 /\ k \in 0 .. n
      BY <2>3
    <3>2. f[k] = f[k - 1] + h[k]
      BY <1>3, <3>1
    <3> QED
      BY <1>1, <2>3, <3>1, <3>2
  <2> QED
    BY <2>1, <2>2, <2>3
<1>5. g = [k \in 0 .. n + 1 |-> IF k = 0 THEN 0 ELSE g[k - 1] + later[k]]
  <2>1. g = [k \in 0 .. n + 1 |-> g[k]]
    OBVIOUS
  <2> HIDE DEF g
  <2> QED
    BY <1>4, <2>1, Zenon
<1>6. g[n + 1] = x + v
  OBVIOUS
<1> HIDE DEF g
<1>7. IsSum(g, later) /\ g[Len(later)] = x + v
  BY <1>1, <1>5, <1>6 DEF IsSum
<1> QED
  BY <1>7 DEF SumsTo, later

\* The sum is unique.
LEMMA SumUnique ==
  ASSUME NEW h \in Seq(Nat), NEW f, IsSum(f, h), NEW g, IsSum(g, h)
  PROVE  f[Len(h)] = g[Len(h)]
<1> PICK n \in Nat : n = Len(h)
  OBVIOUS
<1>1. /\ f = [k \in 0 .. n |-> IF k = 0 THEN 0 ELSE f[k - 1] + h[k]]
      /\ g = [k \in 0 .. n |-> IF k = 0 THEN 0 ELSE g[k - 1] + h[k]]
  BY DEF IsSum
<1>2. \A k \in 0 .. n : f[k] = (IF k = 0 THEN 0 ELSE f[k - 1] + h[k])
                      /\ g[k] = (IF k = 0 THEN 0 ELSE g[k - 1] + h[k])
  BY <1>1
<1> DEFINE T == {k \in Nat : k <= n => f[k] = g[k]}
<1>3. 0 \in T
  BY <1>2
<1>4. ASSUME NEW k \in Nat, k \in T PROVE k + 1 \in T
  <2> SUFFICES ASSUME k + 1 <= n PROVE f[k + 1] = g[k + 1]
    OBVIOUS
  <2>1. k + 1 \in 0 .. n /\ k + 1 # 0 /\ (k + 1) - 1 = k /\ k <= n
    OBVIOUS
  <2>2. f[k] = g[k]
    BY <1>4, <2>1
  <2> QED
    BY <1>2, <2>1, <2>2
<1>5. Nat \subseteq T
  <2> HIDE DEF T
  <2> QED
    BY <1>3, <1>4, Induction
<1>6. n \in T
  BY <1>5
<1> QED
  BY <1>6

\* The latest n values of a sequence.
LEMMA LatestOf ==
  ASSUME NEW A, NEW s \in Seq(A), NEW m \in Nat, m = Len(s), NEW n \in Nat, n <= m
  PROVE  \A j \in 1 .. n : SubSeq(s, 1 + Len(s) - n, Len(s))[j] = s[m - n + j]
OBVIOUS

\* Position k of the sorted ring, as a quantile of the latest values.
LEMMA RingQuantile ==
  ASSUME NEW w \in Nat \ {0}, NEW buf, NEW h, NEW c, Ring(w, buf, h, c),
         NEW n \in Nat, n = Len(buf), NEW m \in Nat, m = Len(h), NEW k \in 1 .. n,
         NEW v, v = Sorted(buf)[k]
  PROVE  /\ Cardinality(Above(h, m - n, n, v)) \in 0 .. n - k
         /\ Cardinality(AtOrAbove(h, m - n, n, v)) \in n - k + 1 .. n
<1>0. buf \in Seq(Nat) /\ h \in Seq(Nat) /\ n <= m
  BY RingCounts DEF Ring
<1>1. v \in Nat
  BY <1>0, SortedRank
<1> DEFINE above == Above(h, m - n, n, v)
           within == AtOrAbove(h, m - n, n, v)
           slotsAbove == {j \in 1 .. n : buf[j] > v}
           slotsWithin == {j \in 1 .. n : buf[j] >= v}
           More == {x \in Nat : x > v}
           Least == {x \in Nat : x >= v}
<1>2. \A j \in 1 .. n : buf[0 + j] = buf[j] /\ buf[j] \in Nat /\ h[m - n + j] \in Nat
  BY <1>0
<1>3. /\ above = Among(h, m - n, n, More) /\ slotsAbove = Among(buf, 0, n, More)
      /\ within = Among(h, m - n, n, Least) /\ slotsWithin = Among(buf, 0, n, Least)
  BY <1>2 DEF Above, AtOrAbove, Among
<1>4. Cardinality(above) = Cardinality(slotsAbove) /\ Cardinality(within) = Cardinality(slotsWithin)
  <2> HIDE DEF above, within, slotsAbove, slotsWithin, More, Least
  <2> QED
    BY <1>3, RingCounts
<1>5. Cardinality(slotsAbove) <= n - k /\ Cardinality(slotsWithin) > n - k
  BY <1>0, SortedRank
<1>6. above \subseteq 1 .. n /\ within \subseteq 1 .. n
  BY DEF Above, AtOrAbove
<1> HIDE DEF above, within, slotsAbove, slotsWithin
<1>7. Cardinality(above) \in 0 .. n /\ Cardinality(within) \in 0 .. n
  BY <1>6, Positions
<1>8. Cardinality(above) \in 0 .. n - k /\ Cardinality(within) \in n - k + 1 .. n
  BY <1>4, <1>5, <1>7
<1> QED
  BY <1>8 DEF above, within

-------------------------------------------------------------------------------
(* LatencyTracker: the ring holds the latest samples, and a snapshot is about them *)

RingInv ==
  /\ Ring(Window, samples_, hist, cursor_)
  /\ total_ = Len(hist)

\* An empty tracker.
LEMMA RingInitial == Init => RingInv
<1> SUFFICES ASSUME Init PROVE RingInv
  OBVIOUS
<1>1. Len(hist) = 0
  BY DEF Init
<1> QED
  BY <1>1, RingEmpty, WindowAssumption DEF Init, RingInv

\* add() keeps it.
LEMMA RingStep == RingInv /\ [Next]_vars => RingInv'
<1> SUFFICES ASSUME RingInv, [Next]_vars PROVE RingInv'
  OBVIOUS
<1>1. CASE Next
  <2>1. PICK ms \in Values : Add(ms)
    BY <1>1 DEF Next
  <2>2. ms \in Nat /\ Window \in Nat \ {0} /\ hist \in Seq(Nat)
    BY <2>1, WindowAssumption DEF RingInv, Ring
  <2>3. /\ samples_' = IF Len(samples_) < Window
                         THEN Append(samples_, ms) ELSE [samples_ EXCEPT ![cursor_ + 1] = ms]
        /\ cursor_' = (cursor_ + 1) % Window /\ hist' = Append(hist, ms)
        /\ total_' = total_ + 1
    BY <2>1 DEF Add, Overwritten, Advance
  <2>4. Ring(Window, samples_', Append(hist, ms), (cursor_ + 1) % Window)
    BY <2>2, <2>3, RingAdds DEF RingInv
  <2>5. Len(Append(hist, ms)) = Len(hist) + 1
    BY <2>2
  <2> QED
    BY <2>3, <2>4, <2>5 DEF RingInv
<1>2. CASE UNCHANGED vars
  BY <1>2 DEF vars, RingInv
<1> QED
  BY <1>1, <1>2

\* The ring of latencies holds exactly the latest Window samples, for every window and
\* through any number of turns.
THEOREM RingHoldsLatestHolds == Spec => []RingHoldsLatest
<1>1. RingInv => RingHoldsLatest
  <2> SUFFICES ASSUME RingInv PROVE RingHoldsLatest
    OBVIOUS
  <2>1. Ring(Window, samples_, hist, cursor_) /\ total_ = Len(hist)
    BY DEF RingInv
  <2>2. ASSUME NEW t \in 1 .. Len(samples_)
        PROVE  \E j \in 1 .. total_ : /\ j % Window = t % Window
                                      /\ total_ - j < Window
                                      /\ samples_[t] = hist[j]
    <3>1. Window \in Nat \ {0} /\ t \in 1 .. Window
      BY <2>1, WindowAssumption DEF Ring
    <3>2. PICK j \in 1 .. total_ : /\ \E p \in Int : j = Window * p + t
                                   /\ total_ - j < Window
                                   /\ samples_[t] = hist[j]
      BY <2>1 DEF Ring, HoldsAt
    <3>3. PICK p \in Int : j = Window * p + t
      BY <3>2
    <3>4. j \in Nat
      BY <2>1 DEF Ring
    <3>5. j % Window = t % Window
      BY <3>1, <3>3, <3>4, SlotRemainder
    <3> QED
      BY <3>2, <3>5
  <2> QED
    BY <2>1, <2>2 DEF Ring, RingHoldsLatest
<1> QED
  BY RingInitial, RingStep, <1>1, PTL DEF Spec

\* A snapshot is exact whatever the window, the samples and their number: minimum,
\* maximum and 95th percentile are those of the latest Window samples.
THEOREM SnapshotExactHolds == Spec => []SnapshotExact
<1>1. RingInv => SnapshotExact
  <2> SUFFICES ASSUME RingInv, samples_ # <<>> PROVE SnapshotExact
    BY DEF SnapshotExact
  <2>1. /\ Ring(Window, samples_, hist, cursor_) /\ total_ = Len(hist)
        /\ Window \in Nat \ {0}
        /\ samples_ \in Seq(Nat) /\ hist \in Seq(Nat)
    BY WindowAssumption DEF RingInv, Ring
  <2> PICK n \in Nat : n = Len(samples_)
    BY <2>1
  <2> PICK m \in Nat : m = Len(hist)
    BY <2>1
  <2>2. n # 0 /\ n <= m
    <3>1. n # 0
      BY <2>1
    <3> QED
      BY <2>1, <3>1, RingCounts
  <2> DEFINE latest == SubSeq(hist, 1 + Len(hist) - n, Len(hist))
             above(v) == Cardinality({j \in 1 .. n : latest[j] > v})
             atOrAbove(v) == Cardinality({j \in 1 .. n : latest[j] >= v})
  <2>3. \A j \in 1 .. n : latest[j] = hist[m - n + j]
    BY <2>1, <2>2, LatestOf, Zenon
  <2>4. ASSUME NEW k \in 1 .. n, NEW v, v = Sorted(samples_)[k]
        PROVE  above(v) \in 0 .. n - k /\ atOrAbove(v) \in n - k + 1 .. n
    <3>1. /\ {j \in 1 .. n : latest[j] > v} = Above(hist, m - n, n, v)
          /\ {j \in 1 .. n : latest[j] >= v} = AtOrAbove(hist, m - n, n, v)
      <4> HIDE DEF latest
      <4> QED
        BY <2>3 DEF Above, AtOrAbove
    <3>2. /\ Cardinality(Above(hist, m - n, n, v)) \in 0 .. n - k
          /\ Cardinality(AtOrAbove(hist, m - n, n, v)) \in n - k + 1 .. n
      BY <2>1, <2>4, RingQuantile
    <3> QED
      BY <3>1, <3>2
  <2> HIDE DEF above, atOrAbove, latest
  <2>5. above(MaxMs) = 0 /\ atOrAbove(MaxMs) > 0
    <3>1. n \in 1 .. n /\ MaxMs = Sorted(samples_)[n]
      BY <2>2 DEF MaxMs
    <3>2. above(MaxMs) \in 0 .. n - n /\ atOrAbove(MaxMs) \in n - n + 1 .. n
      BY <2>4, <3>1
    <3> QED
      BY <3>2
  <2>6. atOrAbove(MinMs) = n /\ above(MinMs) < n
    <3>1. 1 \in 1 .. n /\ MinMs = Sorted(samples_)[1]
      BY <2>2 DEF MinMs
    <3>2. above(MinMs) \in 0 .. n - 1 /\ atOrAbove(MinMs) \in n - 1 + 1 .. n
      BY <2>4, <3>1
    <3> QED
      BY <3>2
  <2>7. 20 * above(P95Ms) <= n /\ 20 * atOrAbove(P95Ms) >= n
    <3>1. PICK k \in 1 .. n : k = P95Index(n) + 1
      BY <2>2 DEF P95Index
    <3>2. 20 * (n - k) <= n /\ 20 * (n - k + 1) >= n
      BY <2>2, <3>1 DEF P95Index
    <3>3. above(P95Ms) \in 0 .. n - k /\ atOrAbove(P95Ms) \in n - k + 1 .. n
      BY <2>4, <3>1 DEF P95Ms
    <3> QED
      BY <3>2, <3>3
  <2> QED
    BY <2>5, <2>6, <2>7 DEF SnapshotExact, above, atOrAbove, latest
<1> QED
  BY RingInitial, RingStep, <1>1, PTL DEF Spec


-------------------------------------------------------------------------------
(* BenchmarkTrace: the summary is about the same frames for every stage *)

\* The times of a stage, of all frames.
Times(st) == [k \in 1 .. Len(frames) |-> frames[k][st]]

BenchInv ==
  /\ frames \in Seq([Stages -> Nat])
  /\ \A st \in Stages :
       /\ Ring(BenchWindow, rings[st].buf, Times(st), rings[st].cursor)
       /\ rings[st].n = Len(frames)
       /\ SumsTo(Times(st), rings[st].sum)

\* A slot that is written, as an appended or a replaced element.
LEMMA SlotWritten ==
  ASSUME NEW s \in Seq(Nat), NEW t \in 1 .. Len(s) + 1, NEW v \in Nat, NEW f,
         f = [j \in DOMAIN s \cup {t} |-> IF j = t THEN v ELSE s[j]]
  PROVE  f = IF t = Len(s) + 1 THEN Append(s, v) ELSE [s EXCEPT ![t] = v]
<1> PICK n \in Nat : n = Len(s)
  OBVIOUS
<1>1. DOMAIN s = 1 .. n
  OBVIOUS
<1>2. CASE t = n + 1
  <2> DEFINE a == Append(s, v)
  <2>1. 1 .. n + 1 = (1 .. n) \cup {n + 1}
    OBVIOUS
  <2>2. a = [j \in 1 .. n + 1 |-> a[j]]
    <3>1. a \in Seq(Nat) /\ Len(a) = n + 1
      OBVIOUS
    <3> HIDE DEF a
    <3> QED
      BY <3>1
  <2>3. f = [j \in 1 .. n + 1 |-> f[j]]
    BY <1>1, <1>2, <2>1
  <2>4. \A j \in 1 .. n + 1 : f[j] = a[j]
    BY <1>1, <1>2
  <2> HIDE DEF a
  <2>5. f = a
    BY <2>2, <2>3, <2>4
  <2> QED
    BY <1>2, <2>5 DEF a
<1>3. CASE t # n + 1
  <2>1. t \in 1 .. n /\ DOMAIN s \cup {t} = DOMAIN s
    BY <1>1, <1>3
  <2>2. f = [s EXCEPT ![t] = v]
    BY <2>1
  <2> QED
    BY <1>3, <2>2
<1> QED
  BY <1>2, <1>3

\* RollingStats::add().
LEMMA RollingAdds ==
  ASSUME NEW r, NEW h, Ring(BenchWindow, r.buf, h, r.cursor), SumsTo(h, r.sum), r.n = Len(h),
         NEW v \in Nat, NEW new, new = RollingAdd(r, v)
  PROVE  /\ Ring(BenchWindow, new.buf, Append(h, v), new.cursor)
         /\ SumsTo(Append(h, v), new.sum) /\ new.n = Len(h) + 1
<1>1. /\ BenchWindow \in Nat \ {0} /\ r.buf \in Seq(Nat) /\ h \in Seq(Nat)
      /\ r.cursor \in 0 .. BenchWindow - 1
      /\ Len(r.buf) = IF Len(h) < BenchWindow THEN Len(h) ELSE BenchWindow
  BY BenchAssumption DEF Ring
<1>2. /\ new.cursor = (r.cursor + 1) % BenchWindow
      /\ new.n = Len(h) + 1 /\ new.sum = r.sum + v
      /\ new.buf = [j \in DOMAIN r.buf \cup {Slot(r)} |-> IF j = Slot(r) THEN v ELSE r.buf[j]]
  BY DEF RollingAdd
<1> PICK n \in Nat : n = Len(r.buf)
  BY <1>1
<1>3. new.buf = IF n < BenchWindow THEN Append(r.buf, v) ELSE [r.buf EXCEPT ![r.cursor + 1] = v]
  <2>1. n <= BenchWindow
    BY <1>1
  <2>2. Slot(r) \in 1 .. n + 1 /\ (n < BenchWindow <=> Slot(r) = n + 1)
    <3>1. CASE n < BenchWindow
      BY <3>1 DEF Slot
    <3>2. CASE ~(n < BenchWindow)
      <4>1. Slot(r) = r.cursor + 1 /\ n = BenchWindow
        BY <1>1, <2>1, <3>2 DEF Slot
      <4>2. PICK c \in 0 .. BenchWindow - 1 : c = r.cursor
        BY <1>1
      <4>3. Slot(r) = c + 1
        BY <4>1, <4>2
      <4>4. n \in Nat /\ n = BenchWindow
        BY <4>1
      <4>5. c + 1 \in 1 .. n + 1 /\ c + 1 # n + 1
        BY <4>2, <4>4
      <4> QED
        BY <3>2, <4>3, <4>5
    <3> QED
      BY <3>1, <3>2
  <2>3. new.buf = IF Slot(r) = n + 1 THEN Append(r.buf, v) ELSE [r.buf EXCEPT ![Slot(r)] = v]
    <3>1. PICK b \in Seq(Nat) : b = r.buf
      BY <1>1
    <3>2. PICK t \in 1 .. n + 1 : t = Slot(r)
      BY <2>2
    <3>3. PICK f : f = new.buf
      OBVIOUS
    <3>4. f = [j \in DOMAIN b \cup {t} |-> IF j = t THEN v ELSE b[j]]
      BY <1>2, <3>1, <3>2, <3>3, Zenon
    <3>5. t \in 1 .. Len(b) + 1
      BY <3>1, <3>2
    <3>6. f = IF t = Len(b) + 1 THEN Append(b, v) ELSE [b EXCEPT ![t] = v]
      BY <3>4, <3>5, SlotWritten
    <3> QED
      BY <3>1, <3>2, <3>3, <3>6
  <2>4. CASE n < BenchWindow
    BY <2>2, <2>3, <2>4
  <2>5. CASE ~(n < BenchWindow)
    <3>1. Slot(r) = r.cursor + 1
      BY <2>5 DEF Slot
    <3> QED
      BY <2>2, <2>3, <2>5, <3>1
  <2> QED
    BY <2>4, <2>5
<1>4. Ring(BenchWindow, new.buf, Append(h, v), (r.cursor + 1) % BenchWindow)
  BY <1>1, <1>3, RingAdds
<1>5. SumsTo(Append(h, v), r.sum + v)
  BY <1>1, SumAdds
<1> QED
  BY <1>2, <1>4, <1>5

\* Before the first frame.
LEMMA BenchInitial == BenchInit => BenchInv
<1> SUFFICES ASSUME BenchInit PROVE BenchInv
  OBVIOUS
<1>1. frames = <<>> /\ <<>> \in Seq([Stages -> Nat]) /\ Len(frames) = 0
  BY DEF BenchInit
<1>2. ASSUME NEW st \in Stages
      PROVE  /\ Ring(BenchWindow, rings[st].buf, Times(st), rings[st].cursor)
             /\ rings[st].n = Len(frames)
             /\ SumsTo(Times(st), rings[st].sum)
  <2>1. Times(st) = <<>>
    BY <1>1 DEF Times
  <2>2. rings[st].buf = <<>> /\ rings[st].cursor = 0 /\ rings[st].n = 0 /\ rings[st].sum = 0
    BY DEF BenchInit, EmptyRing
  <2> QED
    BY <1>1, <2>1, <2>2, RingEmpty, SumEmpty, BenchAssumption
<1> QED
  BY <1>1, <1>2 DEF BenchInv

\* record() keeps the rings of all stages together.
LEMMA BenchStep == BenchInv /\ [BenchNext]_benchVars => BenchInv'
<1> SUFFICES ASSUME BenchInv, [BenchNext]_benchVars PROVE BenchInv'
  OBVIOUS
<1>1. CASE UNCHANGED <<rings, frames>>
  BY <1>1 DEF BenchInv, Times
<1>2. ASSUME NEW m \in Frames, Record(m) PROVE BenchInv'
  <2>1. m \in [Stages -> Nat] /\ frames \in Seq([Stages -> Nat])
    BY BenchAssumption DEF BenchInv
  <2>2. frames' = Append(frames, m) /\ rings' = [st \in Stages |-> RollingAdd(rings[st], m[st])]
    BY <1>2 DEF Record
  <2> PICK n \in Nat : n = Len(frames)
    BY <2>1
  <2>3. /\ frames' \in Seq([Stages -> Nat]) /\ Len(frames') = n + 1 /\ frames'[n + 1] = m
        /\ \A k \in 1 .. n : frames'[k] = frames[k]
    BY <2>1, <2>2
  <2>4. ASSUME NEW st \in Stages
        PROVE  /\ Ring(BenchWindow, rings'[st].buf, Times(st)', rings'[st].cursor)
               /\ rings'[st].n = Len(frames')
               /\ SumsTo(Times(st)', rings'[st].sum)
    <3>1. rings'[st] = RollingAdd(rings[st], m[st]) /\ m[st] \in Nat
      BY <2>1, <2>2
    <3>2. Times(st) \in Seq(Nat) /\ Len(Times(st)) = n
      <4>1. \A k \in 1 .. n : frames[k][st] \in Nat
        BY <2>1
      <4> QED
        BY <4>1 DEF Times
    <3>3. Times(st)' = Append(Times(st), m[st])
      <4> DEFINE a == Append(Times(st), m[st])
      <4>1. a \in Seq(Nat) /\ Len(a) = n + 1 /\ a[n + 1] = m[st] /\ \A k \in 1 .. n : a[k] = Times(st)[k]
        BY <3>1, <3>2
      <4>2. \A k \in 1 .. n : Times(st)[k] = frames[k][st]
        BY DEF Times
      <4>3. Times(st)' = [k \in 1 .. n + 1 |-> frames'[k][st]]
        BY <2>3 DEF Times
      <4> HIDE DEF a
      <4>4. \A k \in 1 .. n + 1 : a[k] = frames'[k][st]
        <5> SUFFICES ASSUME NEW k \in 1 .. n + 1 PROVE a[k] = frames'[k][st]
          OBVIOUS
        <5>1. CASE k = n + 1
          BY <2>3, <4>1, <5>1
        <5>2. CASE k \in 1 .. n
          BY <2>3, <4>1, <4>2, <5>2
        <5> QED
          BY <5>1, <5>2
      <4>5. a = [k \in 1 .. n + 1 |-> a[k]]
        BY <4>1
      <4> QED
        BY <4>3, <4>4, <4>5, Zenon DEF a
    <3>4. /\ Ring(BenchWindow, rings[st].buf, Times(st), rings[st].cursor)
          /\ rings[st].n = Len(Times(st))
          /\ SumsTo(Times(st), rings[st].sum)
      BY <3>2 DEF BenchInv
    <3>5. /\ Ring(BenchWindow, rings'[st].buf, Append(Times(st), m[st]), rings'[st].cursor)
          /\ SumsTo(Append(Times(st), m[st]), rings'[st].sum)
          /\ rings'[st].n = Len(Times(st)) + 1
      BY <3>1, <3>4, RollingAdds
    <3> QED
      BY <2>3, <3>2, <3>3, <3>5
  <2> QED
    BY <2>3, <2>4 DEF BenchInv
<1> QED
  BY <1>1, <1>2 DEF BenchNext, BenchOpen, benchVars

\* The smaller of two numbers.
LEMMA MinOfTwo ==
  ASSUME NEW a \in Int, NEW b \in Int
  PROVE  Min({a, b}) = IF a <= b THEN a ELSE b
<1> DEFINE c == IF a <= b THEN a ELSE b
<1>1. c \in {a, b} /\ \A y \in {a, b} : c <= y
  OBVIOUS
<1>2. \A x \in {a, b} : (\A y \in {a, b} : x <= y) => x = c
  OBVIOUS
<1> HIDE DEF c
<1>3. Min({a, b}) = c
  BY <1>1, <1>2 DEF Min
<1> QED
  BY <1>3 DEF c

\* The slot of the quantile num/den in n sorted values, and how many may be behind it.
LEMMA QuantileSlot ==
  ASSUME NEW n \in Nat \ {0}, NEW num \in Nat, NEW den \in Nat \ {0}, num <= den
  PROVE  \E k \in 1 .. n : /\ k = Min({n - 1, (n * num) \div den}) + 1
                           /\ den * (n - k) <= (den - num) * n
                           /\ den * (n - k + 1) >= (den - num) * n
<1>1. PICK q \in Nat : q = (n * num) \div den
  OBVIOUS
<1>2. PICK p \in Nat : p = n * num
  OBVIOUS
<1>3. den * q <= p /\ p < den * q + den
  BY <1>1, <1>2, SMT
<1>4. (den - num) * n = den * n - p
  BY <1>2, SMT
<1>5. PICK k \in 1 .. n : k = (IF n - 1 <= q THEN n - 1 ELSE q) + 1
  OBVIOUS
<1>6. k = Min({n - 1, (n * num) \div den}) + 1
  BY <1>1, <1>5, MinOfTwo
<1>7. den * (n - k) = den * n - den * k /\ den * (n - k + 1) = den * n - den * (k - 1)
  BY SMT
<1>8. p <= den * n
  BY <1>2, SMT
<1>9. den * n - den * k <= den * n - p /\ den * n - den * (k - 1) >= den * n - p
  <2>1. CASE n - 1 <= q
    <3>1. k = n /\ den * (k - 1) <= den * q
      BY <1>5, <2>1, SMT
    <3>2. den * (k - 1) \in Int /\ den * q \in Int /\ den * n \in Int
      BY SMT
    <3> QED
      BY <1>3, <1>8, <3>1, <3>2
  <2>2. CASE ~(n - 1 <= q)
    <3>1. k = q + 1 /\ den * k = den * q + den /\ k - 1 = q
      BY <1>5, <2>2, SMT
    <3>2. den * q \in Int /\ den * n \in Int
      BY SMT
    <3> QED
      BY <1>3, <3>1, <3>2
  <2> QED
    BY <2>1, <2>2
<1> QED
  BY <1>4, <1>6, <1>7, <1>9


\* The sum of a stage that the summary's property computes.
StageSum(st) ==
  CHOOSE f : f = [k \in 0 .. Len(frames) |-> IF k = 0 THEN 0 ELSE f[k - 1] + frames[k][st]]

\* A stage's sum is what its ring has added up.
LEMMA StageSumComputed ==
  ASSUME BenchInv, NEW st \in Stages
  PROVE  StageSum(st)[Len(frames)] = rings[st].sum
<1> PICK n \in Nat : n = Len(frames)
  BY DEF BenchInv
<1>1. Times(st) \in Seq(Nat) /\ Len(Times(st)) = n /\ SumsTo(Times(st), rings[st].sum)
  BY DEF BenchInv, Ring, Times
<1> DEFINE P(f) == f = [k \in 0 .. n |-> IF k = 0 THEN 0 ELSE f[k - 1] + frames[k][st]]
<1>2. \A k \in 0 .. n : k # 0 => Times(st)[k] = frames[k][st]
  BY DEF Times
<1>3. ASSUME NEW f PROVE P(f) <=> IsSum(f, Times(st))
  <2> DEFINE a == [k \in 0 .. n |-> IF k = 0 THEN 0 ELSE f[k - 1] + frames[k][st]]
             b == [k \in 0 .. n |-> IF k = 0 THEN 0 ELSE f[k - 1] + Times(st)[k]]
  <2>1. a = b
    BY <1>2
  <2>2. P(f) <=> f = a
    OBVIOUS
  <2>3. IsSum(f, Times(st)) <=> f = b
    BY <1>1 DEF IsSum
  <2> HIDE DEF a, b, P
  <2> QED
    BY <2>1, <2>2, <2>3
<1>4. PICK f : IsSum(f, Times(st)) /\ f[n] = rings[st].sum
  BY <1>1 DEF SumsTo
<1>5. P(f)
  BY <1>3, <1>4
<1> DEFINE g == CHOOSE e : P(e)
<1>6. P(g)
  <2> HIDE DEF P
  <2> QED
    BY <1>5
<1>7. g = StageSum(st)
  BY DEF StageSum
<1> HIDE DEF g, P
<1>8. IsSum(g, Times(st))
  BY <1>3, <1>6
<1>9. f[Len(Times(st))] = g[Len(Times(st))]
  BY <1>1, <1>4, <1>8, SumUnique
<1> QED
  BY <1>1, <1>4, <1>7, <1>9

\* Each stage's summary is exact whatever the window, the frames and their number.
THEOREM SummaryExactHolds == BenchSpec => []SummaryExact
<1>1. BenchInv => SummaryExact
  <2> SUFFICES ASSUME BenchInv, frames # <<>> PROVE SummaryExact
    BY DEF SummaryExact
  <2>1. frames \in Seq([Stages -> Nat]) /\ BenchWindow \in Nat \ {0}
    BY BenchAssumption DEF BenchInv
  <2> PICK m \in Nat : m = Len(frames)
    BY <2>1
  <2> DEFINE size == Min({Len(frames), BenchWindow})
             latest == SubSeq(frames, 1 + Len(frames) - size, Len(frames))
             above(st, v) == Cardinality({j \in 1 .. size : latest[j][st] > v})
             within(st, v) == Cardinality({j \in 1 .. size : latest[j][st] >= v})
             isQuantile(st, v, num, den) ==
               den * above(st, v) <= (den - num) * size /\ den * within(st, v) >= (den - num) * size
  <2>2. size \in Nat \ {0} /\ size <= m /\ size = IF m < BenchWindow THEN m ELSE BenchWindow
    <3>1. m # 0
      BY <2>1
    <3>2. size = IF m <= BenchWindow THEN m ELSE BenchWindow
      BY <2>1, MinOfTwo
    <3> QED
      BY <2>1, <3>1, <3>2
  <2>3. \A j \in 1 .. size : latest[j] = frames[m - size + j]
    <3> HIDE DEF size
    <3>1. PICK n \in Nat : n = size
      BY <2>2
    <3>2. \A j \in 1 .. n : SubSeq(frames, 1 + Len(frames) - n, Len(frames))[j] = frames[m - n + j]
      <4>1. n <= m
        BY <2>2, <3>1
      <4> QED
        BY <2>1, <4>1, LatestOf, Zenon
    <3> QED
      BY <3>1, <3>2
  <2> HIDE DEF latest, size
  <2>4. ASSUME NEW st \in Stages
        PROVE  LET snap == Snap(rings[st])
               IN  /\ snap.n = Len(frames)
                   /\ snap.mean.sum = StageSum(st)[Len(frames)]
                   /\ isQuantile(st, snap.p50, 1, 2) /\ isQuantile(st, snap.p90, 9, 10)
                   /\ isQuantile(st, snap.p99, 99, 100)
                   /\ above(st, snap.max) = 0 /\ within(st, snap.max) > 0
    <3> DEFINE buf == rings[st].buf
    <3>1. /\ Ring(BenchWindow, buf, Times(st), rings[st].cursor)
          /\ Len(Times(st)) = m
      <4>1. Len(Times(st)) = m
        BY DEF Times
      <4> QED
        BY <4>1 DEF BenchInv
    <3>2. Len(buf) = size
      BY <2>2, <3>1 DEF Ring
    <3> HIDE DEF buf
    <3>3. ASSUME NEW k \in 1 .. size, NEW v, v = Sorted(buf)[k]
          PROVE  above(st, v) \in 0 .. size - k /\ within(st, v) \in size - k + 1 .. size
      <4>1. \A j \in 1 .. size : latest[j][st] = Times(st)[m - size + j]
        <5>1. \A j \in 1 .. size : m - size + j \in 1 .. m
          BY <2>2
        <5> QED
          BY <2>3, <5>1 DEF Times
      <4>2. /\ {j \in 1 .. size : latest[j][st] > v} = Above(Times(st), m - size, size, v)
            /\ {j \in 1 .. size : latest[j][st] >= v} = AtOrAbove(Times(st), m - size, size, v)
        BY <4>1 DEF Above, AtOrAbove
      <4>3. /\ Cardinality(Above(Times(st), m - size, size, v)) \in 0 .. size - k
            /\ Cardinality(AtOrAbove(Times(st), m - size, size, v)) \in size - k + 1 .. size
        BY <2>1, <2>2, <3>1, <3>2, <3>3, RingQuantile
      <4> QED
        BY <4>2, <4>3
    <3> HIDE DEF above, within
    <3>4. ASSUME NEW num \in Nat, NEW den \in Nat \ {0}, num <= den, NEW v,
                 v = Quantile(rings[st], num, den)
          PROVE  isQuantile(st, v, num, den)
      <4>1. PICK k \in 1 .. size :
              /\ k = Min({size - 1, (size * num) \div den}) + 1
              /\ den * (size - k) <= (den - num) * size
              /\ den * (size - k + 1) >= (den - num) * size
        BY <2>2, <3>4, QuantileSlot
      <4>2. v = Sorted(buf)[k]
        BY <3>2, <3>4, <4>1 DEF Quantile, buf
      <4>3. above(st, v) \in 0 .. size - k /\ within(st, v) \in size - k + 1 .. size
        BY <3>3, <4>2
      <4>4. den * above(st, v) <= den * (size - k) /\ den * (size - k + 1) <= den * within(st, v)
        <5>1. ASSUME NEW a \in Int, NEW b \in Int, a <= b PROVE den * a <= den * b
          BY <5>1, SMT
        <5>2. above(st, v) \in Int /\ size - k \in Int /\ size - k + 1 \in Int /\ within(st, v) \in Int
          BY <2>2, <4>3
        <5>3. above(st, v) <= size - k /\ size - k + 1 <= within(st, v)
          BY <2>2, <4>3
        <5> QED
          BY <5>1, <5>2, <5>3
      <4>5. /\ den * above(st, v) \in Int /\ den * within(st, v) \in Int
            /\ den * (size - k) \in Int /\ den * (size - k + 1) \in Int /\ (den - num) * size \in Int
        <5>1. above(st, v) \in Int /\ within(st, v) \in Int /\ size \in Int
          BY <2>2, <4>3
        <5> QED
          BY <5>1
      <4> QED
        BY <4>1, <4>4, <4>5
    <3>5. above(st, Snap(rings[st]).max) = 0 /\ within(st, Snap(rings[st]).max) > 0
      <4>1. Min({size - 1, (size * 1) \div 1}) + 1 = size
        BY <2>2, MinOfTwo
      <4>2. Snap(rings[st]).max = Sorted(buf)[size] /\ size \in 1 .. size
        BY <2>2, <3>2, <4>1 DEF Snap, Quantile, buf
      <4>3. /\ above(st, Snap(rings[st]).max) \in 0 .. size - size
            /\ within(st, Snap(rings[st]).max) \in size - size + 1 .. size
        BY <3>3, <4>2
      <4> QED
        BY <2>2, <4>3
    <3>6. /\ isQuantile(st, Snap(rings[st]).p50, 1, 2)
          /\ isQuantile(st, Snap(rings[st]).p90, 9, 10)
          /\ isQuantile(st, Snap(rings[st]).p99, 99, 100)
      <4> HIDE DEF isQuantile
      <4>1. /\ Snap(rings[st]).p50 = Quantile(rings[st], 1, 2)
            /\ Snap(rings[st]).p90 = Quantile(rings[st], 9, 10)
            /\ Snap(rings[st]).p99 = Quantile(rings[st], 99, 100)
        BY DEF Snap
      <4> QED
        BY <3>4, <4>1
    <3>7. Snap(rings[st]).n = Len(frames)
      BY DEF Snap, BenchInv
    <3>8. Snap(rings[st]).mean.sum = StageSum(st)[Len(frames)]
      BY StageSumComputed DEF Snap
    <3> QED
      BY <3>5, <3>6, <3>7, <3>8
  <2> QED
    BY <2>4 DEF SummaryExact, above, within, latest, size, StageSum
<1> QED
  BY BenchInitial, BenchStep, <1>1, PTL DEF BenchSpec

-------------------------------------------------------------------------------
(* CanBridge: what is decoded is what was meant *)

\* The codec of can_common.h: a field that is wide enough comes back as it was, one that is
\* not comes back modulo its width.
LEMMA TwoBytes ==
  ASSUME NEW v \in Nat, v <= 65535, NEW hi \in Nat, NEW lo \in Nat,
         hi = (v \div 256) % 256, lo = v % 256
  PROVE  hi * 256 + lo = v
BY SMT

\* The odometer's three bytes keep it modulo 2^24.
LEMMA ThreeBytes ==
  ASSUME NEW v \in Nat, NEW hi \in Nat, NEW mid \in Nat, NEW lo \in Nat,
         hi = (v \div 65536) % 256, mid = (v \div 256) % 256, lo = v % 256
  PROVE  hi * 65536 + mid * 256 + lo = v % 16777216
BY SMT

\* The places of the five bytes that carry signals.
LEMMA EngineLayout ==
  ASSUME NEW a, NEW b, NEW c, NEW d, NEW e
  PROVE  LET x == <<a, b>> \o <<c, d, e>> \o <<0, 0, 0>>
         IN  x[1] = a /\ x[2] = b /\ x[3] = c /\ x[4] = d /\ x[5] = e
BY SMT

\* Rounding to a multiple of the unit is off by at most half of it.
LEMMA RoundDegrees ==
  ASSUME NEW v \in Int, -40000 <= v, v <= 215000
  PROVE  /\ Round(v, 1000) \in Int /\ -40 <= Round(v, 1000) /\ Round(v, 1000) <= 215
         /\ Within(Round(v, 1000) * 1000, v, 500, 500)
         /\ v % 1000 = 0 => Round(v, 1000) * 1000 = v
BY SMT DEF Round, Within

\* The same for the throttle, in units of 0.4 %.
LEMMA RoundThrottle ==
  ASSUME NEW v \in Nat, v <= 102000
  PROVE  /\ Round(v, 400) \in Nat /\ Round(v, 400) <= 255
         /\ Within(Round(v, 400) * 400, v, 200, 200)
BY SMT DEF Round, Within

\* The same for the speed, in units of 0.01 km/h.
LEMMA RoundSpeed ==
  ASSUME NEW v \in Nat, v <= 655350
  PROVE  /\ Round(v, 10) \in Nat /\ Round(v, 10) <= 65535
         /\ Within(Round(v, 10) * 10, v, 5, 5)
         /\ v % 10 = 0 => Round(v, 10) * 10 = v
BY SMT DEF Round, Within

\* A line shows the signals of a frame, and raises the alerts that they deserve.
Faithful(shown, real) ==
  /\ shown.kind = real.kind
  /\ shown.kind = "engine" =>
       /\ ShowsRpm(shown.rpm, real.rpm)
       /\ Within(shown.ect, real.ect, 500, 500)
       /\ Within(shown.throttle, real.throttle, 200, 200)
       /\ shown.mil = real.mil
  /\ shown.kind = "vehicle" =>
       /\ Within(shown.speed, real.speed, 5, 5)
       /\ shown.odo = real.odo % 16777216
  /\ AlertsOf(shown) = AlertsOf(real)

\* Signals that fit their fields and are not so close to the threshold of an alert that
\* rounding crosses it: on the grid, or away from the threshold.
EngineFits(s) ==
  /\ s.kind = "engine" /\ s.mil \in {0, 1}
  /\ s.rpm \in Nat /\ s.rpm <= 65535 * 250
  /\ s.rpm <= 6500000 \/ s.rpm % 250 = 0
  /\ s.ect \in Int /\ -40000 <= s.ect /\ s.ect <= 215000
  /\ s.ect <= 109499 \/ s.ect >= 110501 \/ s.ect % 1000 = 0
  /\ s.throttle \in Nat /\ s.throttle <= 102000

VehicleFits(s) ==
  /\ s.kind = "vehicle" /\ s.odo \in Nat
  /\ s.speed \in Nat /\ s.speed <= 655350
  /\ s.speed <= 179994 \/ s.speed % 10 = 0

\* EngineLine() undoes EngineBytes(), to the resolution of the signals.
LEMMA EngineFaithful ==
  ASSUME NEW s, EngineFits(s)
  PROVE  /\ Faithful(EngineLine(EngineBytes(s)), s)
         /\ Within(EngineLine(EngineBytes(s)).rpm, s.rpm, 0, 249)
         /\ s.rpm % 250 = 0 => EngineLine(EngineBytes(s)).rpm = s.rpm
<1> DEFINE x == EngineBytes(s)
           l == EngineLine(x)
<1>1. PICK w \in Nat : w = s.rpm \div 250
  BY SMT DEF EngineFits
<1>2. w <= 65535
  BY <1>1, SMT DEF EngineFits
<1>3. w * 250 <= s.rpm /\ s.rpm <= w * 250 + 249 /\ (s.rpm % 250 = 0 => w * 250 = s.rpm)
  BY <1>1, SMT DEF EngineFits
<1>4. PICK e \in Int : e = Round(s.ect, 1000)
  BY RoundDegrees, SMT DEF EngineFits
<1>5. /\ -40 <= e /\ e <= 215 /\ Within(e * 1000, s.ect, 500, 500)
      /\ s.ect % 1000 = 0 => e * 1000 = s.ect
  BY <1>4, RoundDegrees, SMT DEF EngineFits
<1>6. PICK t \in Nat : t = Round(s.throttle, 400)
  BY RoundThrottle, SMT DEF EngineFits
<1>7. t <= 255 /\ Within(t * 400, s.throttle, 200, 200)
  BY <1>6, RoundThrottle, SMT DEF EngineFits
<1>8. /\ x[1] = (w \div 256) % 256 /\ x[2] = w % 256
      /\ x[3] = (e + 40) % 256 /\ x[4] = t % 256 /\ x[5] = s.mil
  <2>1. x = <<(w \div 256) % 256, w % 256>> \o <<(e + 40) % 256, t % 256, s.mil>> \o <<0, 0, 0>>
    BY <1>1, <1>4, <1>6, SMT DEF EngineBytes, be16
  <2> HIDE DEF x
  <2> QED
    BY <2>1, EngineLayout
<1> HIDE DEF x
<1>9. /\ l.kind = "engine" /\ l.rpm = (x[1] * 256 + x[2]) * 250 /\ l.ect = (x[3] - 40) * 1000
      /\ l.throttle = x[4] * 400 /\ l.mil = x[5] % 2
  BY SMT DEF EngineLine, be16_get
<1> HIDE DEF l
<1>10. l.rpm = w * 250
  <2>1. x[1] \in Nat /\ x[2] \in Nat
    BY <1>8, SMT
  <2>2. x[1] * 256 + x[2] = w
    BY <1>2, <1>8, <2>1, TwoBytes
  <2> QED
    BY <1>9, <2>2
<1>11. l.ect = e * 1000
  <2>1. (e + 40) % 256 = e + 40
    BY <1>5, SMT
  <2>2. (e + 40) - 40 = e
    OBVIOUS
  <2> QED
    BY <1>8, <1>9, <2>1, <2>2, SMT
<1>12. l.throttle = t * 400
  <2>1. t % 256 = t
    BY <1>7, SMT
  <2> QED
    BY <1>8, <1>9, <2>1, SMT
<1>13. l.mil = s.mil
  <2>1. s.mil \in {0, 1}
    BY SMT DEF EngineFits
  <2> QED
    BY <1>8, <1>9, <2>1, SMT
<1>14. (l.rpm > ALERT_RPM_REDLINE) <=> (s.rpm > ALERT_RPM_REDLINE)
  BY <1>3, <1>10, SMT DEF EngineFits, ALERT_RPM_REDLINE
<1>15. (l.ect > ALERT_ECT_MAX_C) <=> (s.ect > ALERT_ECT_MAX_C)
  <2>1. PICK d \in Int : d = s.ect
    BY SMT DEF EngineFits
  <2>2. e * 1000 - 500 <= d /\ d <= e * 1000 + 500 /\ (d % 1000 = 0 => e * 1000 = d)
    BY <1>5, <2>1, SMT DEF Within
  <2>3. d <= 109499 \/ d >= 110501 \/ d % 1000 = 0
    BY <2>1, SMT DEF EngineFits
  <2>4. (e * 1000 > 110000) <=> (d > 110000)
    BY <2>2, <2>3, SMT
  <2> QED
    BY <1>11, <2>1, <2>4, SMT DEF ALERT_ECT_MAX_C
<1>16. s.kind = "engine"
  BY SMT DEF EngineFits
<1>17. AlertsOf(l) = AlertsOf(s)
  BY <1>9, <1>14, <1>15, <1>16 DEF AlertsOf, One
<1>18. Within(l.rpm, s.rpm, 0, 249) /\ (s.rpm % 250 = 0 => l.rpm = s.rpm)
  BY <1>3, <1>10, SMT DEF EngineFits, Within
<1>19. ShowsRpm(l.rpm, s.rpm)
  BY <1>18, Zenon DEF ShowsRpm
<1>20. Faithful(l, s)
  BY <1>5, <1>7, <1>9, <1>11, <1>12, <1>13, <1>16, <1>17, <1>19, SMT DEF Faithful
<1> QED
  BY <1>18, <1>20, Zenon DEF l, x

\* VehicleLine() undoes VehicleBytes(); the odometer wraps.
LEMMA VehicleFaithful ==
  ASSUME NEW s, VehicleFits(s)
  PROVE  Faithful(VehicleLine(VehicleBytes(s)), s)
<1> DEFINE x == VehicleBytes(s)
           l == VehicleLine(x)
<1>1. s.odo \in Nat /\ s.kind = "vehicle"
  BY SMT DEF VehicleFits
<1>2. PICK v \in Nat : v = Round(s.speed, 10)
  BY RoundSpeed, SMT DEF VehicleFits
<1>3. /\ v <= 65535 /\ Within(v * 10, s.speed, 5, 5)
      /\ s.speed % 10 = 0 => v * 10 = s.speed
  BY <1>2, RoundSpeed, SMT DEF VehicleFits
<1>4. /\ x[1] = (v \div 256) % 256 /\ x[2] = v % 256
      /\ x[3] = (s.odo \div 65536) % 256 /\ x[4] = (s.odo \div 256) % 256 /\ x[5] = s.odo % 256
  <2>1. x = be16(v) \o be24(s.odo) \o <<0, 0, 0>>
    BY <1>2, Zenon DEF VehicleBytes
  <2> HIDE DEF x
  <2> QED
    BY <2>1, EngineLayout, SMT DEF be16, be24
<1> HIDE DEF x
<1>5. /\ l.kind = "vehicle" /\ l.speed = (x[1] * 256 + x[2]) * 10
      /\ l.odo = x[3] * 65536 + x[4] * 256 + x[5]
  BY SMT DEF VehicleLine, be16_get, be24_get
<1> HIDE DEF l
<1>6. l.speed = v * 10
  <2>1. x[1] \in Nat /\ x[2] \in Nat
    BY <1>4, SMT
  <2>2. x[1] * 256 + x[2] = v
    BY <1>3, <1>4, <2>1, TwoBytes, SMT
  <2> QED
    BY <1>5, <2>2, SMT
<1>7. l.odo = s.odo % 16777216
  <2>1. x[3] \in Nat /\ x[4] \in Nat /\ x[5] \in Nat
    BY <1>1, <1>4, SMT
  <2>2. PICK d \in Nat : d = s.odo
    BY <1>1, SMT
  <2>3. x[3] = (d \div 65536) % 256 /\ x[4] = (d \div 256) % 256 /\ x[5] = d % 256
    BY <1>4, <2>2, SMT
  <2>4. x[3] * 65536 + x[4] * 256 + x[5] = d % 16777216
    <3>1. PICK hi \in Nat : hi = x[3]
      BY <2>1, SMT
    <3>2. PICK mid \in Nat : mid = x[4]
      BY <2>1, SMT
    <3>3. PICK lo \in Nat : lo = x[5]
      BY <2>1, SMT
    <3>4. hi = (d \div 65536) % 256 /\ mid = (d \div 256) % 256 /\ lo = d % 256
      BY <2>3, <3>1, <3>2, <3>3, SMT
    <3>5. hi * 65536 + mid * 256 + lo = d % 16777216
      BY <3>4, ThreeBytes, SMT
    <3> QED
      BY <3>1, <3>2, <3>3, <3>5, SMT
  <2> QED
    BY <1>5, <2>2, <2>4, SMT
<1>8. (l.speed > ALERT_SPEED_MAX_KMH) <=> (s.speed > ALERT_SPEED_MAX_KMH)
  BY <1>3, <1>6, SMT DEF VehicleFits, ALERT_SPEED_MAX_KMH, Within
<1>9. AlertsOf(l) = AlertsOf(s)
  BY <1>1, <1>5, <1>8 DEF AlertsOf, One
<1> QED
  BY <1>1, <1>3, <1>5, <1>6, <1>7, <1>9, SMT DEF Faithful, l, x

\* What the transmitter may mean: --redline does not take it to the threshold of rpm.
EngineSignals ==
  {s \in [kind : {"engine"}, rpm : Nat, ect : Int, throttle : Nat, mil : {0, 1}] :
     EngineFits(s) /\ s.rpm <= 6200000}
VehicleSignals == {s \in [kind : {"vehicle"}, speed : Nat, odo : Nat] : VehicleFits(s)}

EngineFrame(s) ==
  [can_id |-> CANID_ENGINE_DATA, can_dlc |-> 8, data |-> EngineBytes(Clamped(s)), signals |-> s]
VehicleFrame(s) ==
  [can_id |-> CANID_VEHICLE_DATA, can_dlc |-> 8, data |-> VehicleBytes(s), signals |-> s]

\* Every frame that can wait in the receiver's socket.
CanFrames ==
  Injected \cup {EngineFrame(s) : s \in EngineSignals} \cup {VehicleFrame(s) : s \in VehicleSignals}

CanInv ==
  /\ socket \in Seq(CanFrames)
  /\ odo_m \in Nat
  /\ tx = "vehicle" => vehicle \in VehicleSignals
  /\ DecodedIsSent

\* Signals on the grid fit, whatever they are.
LEMMA GridFits ==
  ASSUME NEW s
  PROVE  (EngineOnGrid(s) => EngineFits(s)) /\ (VehicleOnGrid(s) => VehicleFits(s))
<1>1. EngineOnGrid(s) => EngineFits(s)
  BY SMT DEF EngineOnGrid, EngineFits
<1>2. VehicleOnGrid(s) => VehicleFits(s)
  BY SMT DEF VehicleOnGrid, VehicleFits
<1> QED
  BY <1>1, <1>2

\* The clamp loses what is above it and no alert.
LEMMA ClampFaithful ==
  ASSUME NEW s \in EngineSignals
  PROVE  Faithful(EngineLine(EngineBytes(Clamped(s))), s)
<1> DEFINE c == Clamped(s)
           l == EngineLine(EngineBytes(c))
<1>1. /\ s \in [kind : {"engine"}, rpm : Nat, ect : Int, throttle : Nat, mil : {0, 1}]
      /\ EngineFits(s) /\ s.rpm <= 6200000
  BY DEF EngineSignals
<1>2. PICK r \in Nat : r = s.rpm
  BY <1>1
<1>3. PICK q \in Nat : q = Smaller(Larger(s.rpm, 0), MaxRpm)
  BY <1>2, SMT DEF Smaller, Larger, MaxRpm
<1>4. (r <= 4095750 /\ q = r) \/ (r > 4095750 /\ q = 4095750)
  BY <1>2, <1>3, SMT DEF Smaller, Larger, MaxRpm
<1>5. c = [s EXCEPT !.rpm = q]
  BY <1>3, Zenon DEF Clamped
<1> HIDE DEF c
<1>6. /\ c.kind = "engine" /\ s.kind = "engine" /\ c.rpm = q /\ c.ect = s.ect
      /\ c.throttle = s.throttle /\ c.mil = s.mil
  BY <1>1, <1>5
<1>7. EngineFits(c)
  BY <1>1, <1>2, <1>4, <1>6, SMT DEF EngineFits
<1>8. /\ Faithful(l, c) /\ Within(l.rpm, c.rpm, 0, 249)
      /\ c.rpm % 250 = 0 => l.rpm = c.rpm
  BY <1>7, EngineFaithful
<1> HIDE DEF l
<1>9. /\ l.kind = "engine" /\ AlertsOf(l) = AlertsOf(c)
      /\ Within(l.ect, c.ect, 500, 500) /\ Within(l.throttle, c.throttle, 200, 200)
      /\ l.mil = c.mil
  BY <1>6, <1>8, SMT DEF Faithful
<1>10. ShowsRpm(l.rpm, s.rpm)
  <2>1. CASE q = r
    BY <1>2, <1>6, <1>8, <2>1, Zenon DEF ShowsRpm
  <2>2. CASE r > 4095750 /\ q = 4095750
    <3>1. q % 250 = 0 /\ MaxRpm = 4095750
      BY <2>2, SMT DEF MaxRpm
    <3> QED
      BY <1>2, <1>6, <1>8, <2>2, <3>1, SMT DEF ShowsRpm
  <2> QED
    BY <1>4, <2>1, <2>2
<1>11. AlertsOf(c) = AlertsOf(s)
  <2>1. ~(c.rpm > ALERT_RPM_REDLINE) /\ ~(s.rpm > ALERT_RPM_REDLINE)
    BY <1>1, <1>2, <1>4, <1>6, SMT DEF ALERT_RPM_REDLINE
  <2> QED
    BY <1>6, <2>1 DEF AlertsOf, One
<1>12. Faithful(l, s)
  BY <1>6, <1>9, <1>10, <1>11, SMT DEF Faithful
<1> QED
  BY <1>12, Zenon DEF l, c

\* Every frame that can wait in the socket decodes to what its sender meant.
LEMMA FramesFaithful ==
  ASSUME NEW f \in CanFrames
  PROVE  Faithful(Decode(f), f.signals)
<1>0. CANID_ENGINE_DATA # CANID_VEHICLE_DATA
  BY SMT DEF CANID_ENGINE_DATA, CANID_VEHICLE_DATA
<1>1. ASSUME f.can_id = CANID_ENGINE_DATA, f.can_dlc >= 5, EngineFits(f.signals),
             f.data = EngineBytes(f.signals)
      PROVE  Faithful(Decode(f), f.signals)
  <2>1. Decode(f) = EngineLine(f.data)
    BY <1>0, <1>1 DEF Decode
  <2> QED
    BY <1>1, <2>1, EngineFaithful, Zenon
<1>2. ASSUME f.can_id = CANID_VEHICLE_DATA, f.can_dlc >= 5, VehicleFits(f.signals),
             f.data = VehicleBytes(f.signals)
      PROVE  Faithful(Decode(f), f.signals)
  <2>1. Decode(f) = VehicleLine(f.data)
    BY <1>0, <1>2 DEF Decode
  <2> QED
    BY <1>2, <2>1, VehicleFaithful, Zenon
<1>3. ASSUME f.signals = NoSignals,
             ~(f.can_id \in {CANID_ENGINE_DATA, CANID_VEHICLE_DATA} /\ f.can_dlc >= 5)
      PROVE  Faithful(Decode(f), f.signals)
  <2>1. Decode(f) = NoSignals
    BY <1>3 DEF Decode
  <2>2. NoSignals.kind = "none"
    BY DEF NoSignals
  <2> QED
    BY <1>3, <2>1, <2>2, SMT DEF Faithful
<1>4. CASE f \in Injected
  <2>1. \/ f.can_id = CANID_ENGINE_DATA /\ f.can_dlc >= 5 /\ EngineOnGrid(f.signals)
             /\ f.data = EngineBytes(f.signals)
        \/ f.can_id = CANID_VEHICLE_DATA /\ f.can_dlc >= 5 /\ VehicleOnGrid(f.signals)
             /\ f.data = VehicleBytes(f.signals)
        \/ f.signals = NoSignals
             /\ ~(f.can_id \in {CANID_ENGINE_DATA, CANID_VEHICLE_DATA} /\ f.can_dlc >= 5)
    BY <1>4, InjectedAssumption
  <2> QED
    BY <1>1, <1>2, <1>3, <2>1, GridFits
<1>5. CASE \E s \in EngineSignals : f = EngineFrame(s)
  <2>1. PICK s \in EngineSignals : f = EngineFrame(s)
    BY <1>5
  <2>2. /\ f.can_id = CANID_ENGINE_DATA /\ f.can_dlc >= 5 /\ f.signals = s
        /\ f.data = EngineBytes(Clamped(s))
    BY <2>1 DEF EngineFrame
  <2>3. Decode(f) = EngineLine(f.data)
    BY <1>0, <2>2 DEF Decode
  <2>4. Faithful(EngineLine(EngineBytes(Clamped(s))), s)
    BY ClampFaithful
  <2> QED
    BY <2>2, <2>3, <2>4, Zenon
<1>6. CASE \E s \in VehicleSignals : f = VehicleFrame(s)
  <2>1. PICK s \in VehicleSignals : f = VehicleFrame(s)
    BY <1>6
  <2>2. VehicleFits(s)
    BY DEF VehicleSignals
  <2>3. /\ f.can_id = CANID_VEHICLE_DATA /\ f.can_dlc >= 5 /\ f.signals = s
        /\ f.data = VehicleBytes(s)
    BY <2>1 DEF VehicleFrame
  <2> QED
    BY <1>2, <2>2, <2>3
<1> QED
  BY <1>4, <1>5, <1>6 DEF CanFrames

\* The drive cycle's values, as functions of its sines and of --redline.
CycleRpm(throttle, ripple) == 900000 + 30 * throttle + ripple
CycleSpeed(throttle, ripple) == Larger(0, CycleRpm(throttle, ripple) \div 50 - 20000)
CycleEngine(throttle, ripple, coolant, extra) ==
  [kind |-> "engine", rpm |-> CycleRpm(throttle, ripple) + 2500000 * extra,
   ect |-> coolant + 40000 * extra, throttle |-> throttle, mil |-> extra]
CycleVehicle(throttle, ripple, odo) ==
  [kind |-> "vehicle", speed |-> CycleSpeed(throttle, ripple), odo |-> odo]

\* The drive cycle stays inside the fields, with --redline and without.
LEMMA CycleFits ==
  ASSUME NEW throttle \in Throttles, NEW ripple \in Ripples, NEW coolant \in Coolants,
         NEW extra \in {0, 1}, NEW odo \in Nat
  PROVE  /\ CycleEngine(throttle, ripple, coolant, extra) \in EngineSignals
         /\ CycleSpeed(throttle, ripple) \in Nat
         /\ CycleVehicle(throttle, ripple, odo) \in VehicleSignals
<1> DEFINE rpm == CycleRpm(throttle, ripple)
<1>1. PICK t \in Nat : t = throttle /\ t <= 80000
  BY CycleAssumption, SMT
<1>2. PICK u \in Int : u = ripple /\ -400000 <= u /\ u <= 400000
  BY CycleAssumption, SMT
<1>3. PICK c \in Int : c = coolant /\ 77000 <= c /\ c <= 98000
  BY CycleAssumption, SMT
<1>4. rpm \in Nat /\ rpm <= 3700000
  BY <1>1, <1>2, SMT DEF CycleRpm
<1> HIDE DEF rpm
<1>5. PICK r \in Nat : r = rpm + 2500000 * extra /\ r <= 6200000
  BY <1>4, SMT
<1>6. PICK e \in Int : e = coolant + 40000 * extra
                      /\ 77000 <= e /\ e <= 138000 /\ (e <= 98000 \/ e >= 117000)
  BY <1>3, SMT
<1>7. PICK v \in Nat : v = CycleSpeed(throttle, ripple) /\ v <= 54000
  BY <1>4, SMT DEF CycleSpeed, Larger, rpm
<1>8. [kind |-> "engine", rpm |-> r, ect |-> e, throttle |-> t, mil |-> extra] \in EngineSignals
  BY <1>1, <1>5, <1>6, SMT DEF EngineSignals, EngineFits
<1>9. [kind |-> "vehicle", speed |-> v, odo |-> odo] \in VehicleSignals
  BY <1>7, SMT DEF VehicleSignals, VehicleFits
<1> QED
  BY <1>1, <1>5, <1>6, <1>7, <1>8, <1>9, SMT DEF CycleEngine, CycleVehicle, rpm

\* A quotient of naturals; Hz is any rate.
LEMMA QuotientNat ==
  ASSUME NEW x \in Nat, NEW y \in Nat \ {0}
  PROVE  x \div y \in Nat
BY SMT

\* A frame that finds room is queued, one that does not is lost.
LEMMA DeliverKeeps ==
  ASSUME NEW f \in CanFrames, socket \in Seq(CanFrames), Deliver(f)
  PROVE  socket' \in Seq(CanFrames)
BY DEF Deliver

\* Every step of the transmitter, the receiver and the other nodes keeps the invariant.
LEMMA CanStep == CanInv /\ [CanNext]_canVars => CanInv'
<1> SUFFICES ASSUME CanInv, [CanNext]_canVars PROVE CanInv'
  OBVIOUS
<1>0. /\ socket \in Seq(CanFrames) /\ odo_m \in Nat /\ DecodedIsSent
      /\ tx = "vehicle" => vehicle \in VehicleSignals
  BY DEF CanInv
<1>1. ASSUME UNCHANGED <<line, meant, alerts, due>> PROVE DecodedIsSent'
  BY <1>0, <1>1, SMT DEF DecodedIsSent
<1>2. CASE TxEngine
  <2> DEFINE extra == IF redline THEN 1 ELSE 0
  <2> PICK throttle \in Throttles, ripple \in Ripples, coolant \in Coolants :
        /\ odo_m' = odo_m + CycleSpeed(throttle, ripple) \div (3600 * Hz)
        /\ vehicle' = CycleVehicle(throttle, ripple, odo_m')
        /\ \/ Deliver(EngineFrame(CycleEngine(throttle, ripple, coolant, extra)))
           \/ UNCHANGED socket
    BY <1>2, SMT DEF TxEngine, EngineFrame, CycleEngine, CycleVehicle, CycleSpeed, CycleRpm
  <2>1. extra \in {0, 1}
    OBVIOUS
  <2> HIDE DEF extra
  <2>2. /\ CycleSpeed(throttle, ripple) \in Nat
        /\ CycleEngine(throttle, ripple, coolant, extra) \in EngineSignals
    BY <1>0, <2>1, CycleFits
  <2>3. odo_m' \in Nat
    <3>1. 3600 * Hz \in Nat \ {0}
      BY HzAssumption, SMT
    <3>2. CycleSpeed(throttle, ripple) \div (3600 * Hz) \in Nat
      BY <2>2, <3>1, QuotientNat
    <3> QED
      BY <1>0, <3>2, SMT
  <2>4. vehicle' \in VehicleSignals
    BY <2>1, <2>3, CycleFits
  <2>5. socket' \in Seq(CanFrames)
    <3>1. EngineFrame(CycleEngine(throttle, ripple, coolant, extra)) \in CanFrames
      BY <2>2 DEF CanFrames
    <3> QED
      BY <1>0, <3>1, DeliverKeeps
  <2>6. DecodedIsSent'
    BY <1>1, <1>2, SMT DEF TxEngine
  <2> QED
    BY <2>3, <2>4, <2>5, <2>6 DEF CanInv
<1>3. CASE TxVehicle
  <2>1. VehicleFrame(vehicle) \in CanFrames
    BY <1>0, <1>3 DEF TxVehicle, CanFrames
  <2>2. /\ Deliver(VehicleFrame(vehicle)) \/ socket' = socket
        /\ tx' # "vehicle" /\ odo_m' = odo_m /\ UNCHANGED <<line, meant, alerts, due>>
    BY <1>3 DEF TxVehicle, VehicleFrame
  <2>3. socket' \in Seq(CanFrames)
    BY <1>0, <2>1, <2>2, DeliverKeeps
  <2> QED
    BY <1>0, <1>1, <2>2, <2>3 DEF CanInv
<1>4. CASE TxStop
  BY <1>0, <1>1, <1>4 DEF TxStop, CanInv
<1>5. CASE Inject
  <2>1. PICK f \in Injected : Deliver(f)
    BY <1>5 DEF Inject
  <2>2. socket' \in Seq(CanFrames)
    BY <1>0, <2>1, DeliverKeeps DEF CanFrames
  <2>3. UNCHANGED <<tx, vehicle, odo_m, line, meant, alerts, due>>
    BY <1>5 DEF Inject
  <2> QED
    BY <1>0, <1>1, <2>2, <2>3 DEF CanInv
<1>6. CASE RxRead
  <2> DEFINE f == Head(socket)
  <2>1. f \in CanFrames /\ Tail(socket) \in Seq(CanFrames)
    BY <1>0, <1>6 DEF RxRead
  <2>2. /\ line' = Decode(f) /\ meant' = f.signals
        /\ alerts' = alerts + AlertsOf(Decode(f)) /\ due' = due + AlertsOf(f.signals)
        /\ socket' = <<>> \/ socket' = Tail(socket)
        /\ UNCHANGED <<tx, vehicle, odo_m>>
    BY <1>6 DEF RxRead
  <2> HIDE DEF f
  <2>3. Faithful(Decode(f), f.signals)
    BY <2>1, FramesFaithful
  <2>4. alerts' = due'
    <3>1. alerts = due
      BY <1>0, SMT DEF DecodedIsSent
    <3>2. AlertsOf(Decode(f)) = AlertsOf(f.signals)
      BY <2>3, SMT DEF Faithful
    <3> QED
      BY <2>2, <3>1, <3>2
  <2>5. DecodedIsSent'
    BY <2>2, <2>3, <2>4, SMT DEF DecodedIsSent, Faithful
  <2>6. socket' \in Seq(CanFrames)
    <3>1. <<>> \in Seq(CanFrames)
      OBVIOUS
    <3> QED
      BY <2>1, <2>2, <3>1, Zenon
  <2> QED
    BY <1>0, <2>2, <2>5, <2>6 DEF CanInv
<1>7. CASE RxSignal \/ RxError
  <2>1. (socket' = <<>> \/ socket' = socket) /\ UNCHANGED <<tx, vehicle, odo_m, line, meant, alerts, due>>
    BY <1>7 DEF RxSignal, RxError
  <2>2. socket' \in Seq(CanFrames)
    <3>1. <<>> \in Seq(CanFrames)
      OBVIOUS
    <3> QED
      BY <1>0, <2>1, <3>1, Zenon
  <2> QED
    BY <1>0, <1>1, <2>1, <2>2 DEF CanInv
<1>8. CASE UNCHANGED canVars
  BY <1>0, <1>1, <1>8 DEF canVars, CanInv
<1> QED
  BY <1>2, <1>3, <1>4, <1>5, <1>6, <1>7, <1>8 DEF CanNext

\* What can_rx prints is what the sender of the frame meant, to the resolution of the
\* signal, and its alerts are those the signals deserve: for every rate, every
\* course of the drive cycle, every socket and all traffic of other nodes.
THEOREM DecodedIsSentHolds == CanSpec => []DecodedIsSent
<1>1. CanInit => CanInv
  <2> SUFFICES ASSUME CanInit PROVE CanInv
    OBVIOUS
  <2>1. NoSignals.kind = "none"
    BY DEF NoSignals
  <2>2. DecodedIsSent
    BY <2>1, SMT DEF CanInit, DecodedIsSent
  <2> QED
    BY <2>2 DEF CanInit, CanInv
<1>2. CanInv => DecodedIsSent
  BY DEF CanInv
<1> QED
  BY CanStep, <1>1, <1>2, PTL DEF CanSpec
===============================================================================
