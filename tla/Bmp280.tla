-------------------------------- MODULE Bmp280 --------------------------------
(***************************************************************************)
(* The BMP280 driver (i2c-sensor-kernel-driver/bmp280_simple.c): probe()   *)
(* identifies, resets, calibrates and starts the sensor; readers of the    *)
(* two sysfs attributes fetch one burst of raw words under the driver's    *)
(* mutex and compensate it; remove() puts the sensor back to sleep.  Every *)
(* transfer on the bus may fail.  Which attribute is read only decides     *)
(* which of the two results is printed, so a reader carries both.          *)
(*                                                                         *)
(* The driver core is external: it shows the attributes once probe() has   *)
(* succeeded and, before it calls remove(), takes them away and waits for  *)
(* the readers inside.                                                     *)
(***************************************************************************)
EXTENDS Integers, Sequences

CONSTANTS Readers,         \* threads that read the attributes
          Conversions,     \* what the sensor may measure: sets of [t, p], 20-bit words
          MaxConversions,  \* bound: conversions between two resets
          MaxBinds         \* bound: calls of probe()

ASSUME ConversionsAssumption == Conversions \subseteq [t : 0 .. 2^20 - 1, p : 0 .. 2^20 - 1]

VARIABLES bound,    \* external: what the driver core is doing with the device
          binds,    \* external: calls of probe() so far
          calib,    \* d->calib: the trimming words, or zeros
          lock,     \* the reader that holds d->lock, or NoReader
          reader,   \* [Readers -> a call of a show function]
          mode,     \* external: the sensor sleeps or converts
          history   \* external: the conversions since the reset, the latest last

bmpVars == <<bound, binds, calib, lock, reader, mode, history>>

NoReader == 0

\* The data registers before the first conversion: both words are 0x80000.
ResetWords == [t |-> 524288, p |-> 524288]

\* The trimming words of the datasheet's worked example; all products of the
\* compensation stay below 2^31 for them and for temperatures and pressures in
\* the sensor's range.
Trimming ==
  [t1 |-> 27504, t2 |-> 26435, t3 |-> -1000,
   p1 |-> 36477, p2 |-> -10685, p3 |-> 3024, p4 |-> 2855, p5 |-> 140,
   p6 |-> -7, p7 |-> 15500, p8 |-> -14600, p9 |-> 6000]

NoTrimming == [w \in DOMAIN Trimming |-> 0]

Idle == [pc |-> "idle", since |-> 0, raw |-> ResetWords, temp_c100 |-> 0, press_pa |-> 0]

BmpInit ==
  /\ bound = "unbound" /\ binds = 0
  /\ calib = NoTrimming
  /\ lock = NoReader
  /\ reader = [r \in Readers |-> Idle]
  /\ mode \in {"sleep", "normal"}   \* whatever ran before the driver
  /\ history = <<ResetWords>>

-------------------------------------------------------------------------------
(* Raw words and their compensation; >> is division that rounds down *)

\* The six data registers, pressure first, 20 bits left-aligned in 24.
Registers(c) ==
  LET word(v) == <<v \div 4096, (v \div 16) % 256, (v % 16) * 16>>
  IN  word(c.p) \o word(c.t)

Word(buf, at) == buf[at] * 4096 + buf[at + 1] * 16 + buf[at + 2] \div 16

\* bmp280_read_raw(): the variant takes the words in the other order.
RawSwapped(buf) == [t |-> Word(buf, 1), p |-> Word(buf, 4)]
Raw(buf) == [p |-> Word(buf, 1), t |-> Word(buf, 4)]

TFine(c, adc_t) ==
  LET d == (adc_t \div 16) - c.t1
  IN  (((adc_t \div 8) - c.t1 * 2) * c.t2) \div 2048
        + (((d * d) \div 4096) * c.t3) \div 16384

bmp280_compensate_temp(t_fine) == (t_fine * 5 + 128) \div 256

\* p < 2^31 for the words of the model, so the branch for larger p is not taken;
\* (p << 1) / var1 is written without the shift, which would leave 32 bits.
bmp280_compensate_press(c, adc_p, t_fine) ==
  LET v    == (t_fine \div 2) - 64000
      sq   == (v \div 4) * (v \div 4)
      var2 == ((sq \div 2048) * c.p6 + v * c.p5 * 2) \div 4 + c.p4 * 65536
      var1 == ((32768 + ((c.p3 * (sq \div 8192)) \div 8 + (c.p2 * v) \div 2) \div 262144)
                 * c.p1) \div 32768
      q    == ((1048576 - adc_p) - var2 \div 4096) * 3125
      p    == 2 * (q \div var1) + (2 * (q % var1)) \div var1
      fix  == (c.p9 * (((p \div 8) * (p \div 8)) \div 8192)) \div 4096
                + ((p \div 4) * c.p8) \div 8192 + c.p7
  IN  IF var1 = 0 THEN 0 ELSE p + fix \div 16

Compensated(c, raw) ==
  LET t_fine == TFine(c, raw.t)
  IN  <<bmp280_compensate_temp(t_fine), bmp280_compensate_press(c, raw.p, t_fine)>>

-------------------------------------------------------------------------------
(* probe() and remove() *)

\* A probe() that returns an error before it has touched the sensor (adapter,
\* chip ID, memory), after the soft reset, or after a later transfer failed.
\* d is zeroed memory that the driver core frees with the failed binding.
ProbeFails ==
  /\ bound = "unbound" /\ binds < MaxBinds
  /\ binds' = binds + 1
  /\ \/ UNCHANGED <<mode, history>>
     \/ mode' = "sleep" /\ history' = <<ResetWords>>
  /\ UNCHANGED <<bound, calib, lock, reader>>

\* Reset, trimming words, configuration, and the sensor set to convert.
bmp280_probe ==
  /\ bound = "unbound" /\ binds < MaxBinds
  /\ bound' = "bound"
  /\ binds' = binds + 1
  /\ calib' = Trimming
  /\ mode' = "normal"
  /\ history' = <<ResetWords>>
  /\ UNCHANGED <<lock, reader>>

\* The driver core takes the attributes away; no new reader comes in.
RemoveGroups ==
  /\ bound = "bound"
  /\ bound' = "removing"
  /\ UNCHANGED <<binds, calib, lock, reader, mode, history>>

\* remove(), once the readers have left: the result of the transfer is ignored.
bmp280_remove ==
  /\ bound = "removing"
  /\ \A r \in Readers : reader[r].pc = "idle"
  /\ bound' = "unbound"
  /\ mode' \in {"sleep", mode}
  /\ calib' = NoTrimming
  /\ UNCHANGED <<binds, lock, reader, history>>

-------------------------------------------------------------------------------
(* temperature_show() and pressure_show() *)

\* The call begins; it remembers (history) how many conversions there were.
Show(r) ==
  /\ bound = "bound"
  /\ reader[r].pc = "idle"
  /\ reader' = [reader EXCEPT ![r] = [Idle EXCEPT !.pc = "lock", !.since = Len(history)]]
  /\ UNCHANGED <<bound, binds, calib, lock, mode, history>>

MutexLock(r) ==
  /\ reader[r].pc = "lock"
  /\ lock = NoReader
  /\ lock' = r
  /\ reader' = [reader EXCEPT ![r].pc = "read"]
  /\ UNCHANGED <<bound, binds, calib, mode, history>>

\* One burst: the sensor holds its registers while they are read.
ReadRaw(r) ==
  /\ reader[r].pc = "read"
  /\ reader' = [reader EXCEPT ![r].pc = "compensate",
                              ![r].raw = Raw(Registers(history[Len(history)]))]
  /\ UNCHANGED <<bound, binds, calib, lock, mode, history>>

\* The lock after an early return; the variant forgets to release it.
LockAfterErrorKept == lock
LockAfterError == NoReader

\* The transfer failed, or was short: the show function returns the error.
ReadRawFails(r) ==
  /\ reader[r].pc = "read"
  /\ lock' = LockAfterError
  /\ reader' = [reader EXCEPT ![r] = Idle]
  /\ UNCHANGED <<bound, binds, calib, mode, history>>

Compensate(r) ==
  /\ reader[r].pc = "compensate"
  /\ LET tp == Compensated(calib, reader[r].raw)
     IN  reader' = [reader EXCEPT ![r].pc = "emit",
                                  ![r].temp_c100 = tp[1], ![r].press_pa = tp[2]]
  /\ lock' = NoReader
  /\ UNCHANGED <<bound, binds, calib, mode, history>>

Emit(r) ==
  /\ reader[r].pc = "emit"
  /\ reader' = [reader EXCEPT ![r] = Idle]
  /\ UNCHANGED <<bound, binds, calib, lock, mode, history>>

-------------------------------------------------------------------------------
\* External: in normal mode the sensor measures again and again.
Convert ==
  /\ mode = "normal"
  /\ Len(history) <= MaxConversions
  /\ \E c \in Conversions : history' = Append(history, c)
  /\ UNCHANGED <<bound, binds, calib, lock, reader, mode>>

ReaderStep(r) == MutexLock(r) \/ ReadRaw(r) \/ ReadRawFails(r) \/ Compensate(r) \/ Emit(r)

BmpNext ==
  \/ bmp280_probe \/ ProbeFails \/ RemoveGroups \/ bmp280_remove \/ Convert
  \/ \E r \in Readers : Show(r) \/ ReaderStep(r)

BmpSpec == BmpInit /\ [][BmpNext]_bmpVars

-------------------------------------------------------------------------------
(* Properties *)

\* What a reader prints is the compensation, with the sensor's own trimming words,
\* of ONE conversion (the temperature that corrects a pressure is the one measured
\* with it) that is no older than the call: the reset values are printed only by a
\* call that began before the first conversion.
ReadsOneConversion ==
  \A r \in Readers :
    reader[r].pc = "emit" =>
      \E k \in reader[r].since .. Len(history) :
        <<reader[r].temp_c100, reader[r].press_pa>> = Compensated(Trimming, history[k])

\* Every read returns, with a value or an error: a failed transfer does not leave
\* the mutex locked for the readers that follow, and for remove() behind them.
EveryReadReturns == \A r \in Readers : reader[r].pc = "lock" ~> reader[r].pc = "idle"
===============================================================================
