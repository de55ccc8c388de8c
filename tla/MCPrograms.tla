------------------------------ MODULE MCPrograms ------------------------------
(***************************************************************************)
(* The small programs of the repository and the statistics of gstpipe,     *)
(* which share nothing with one another, one per behaviour: subject is     *)
(* chosen at the start and the others rest.                                *)
(***************************************************************************)
EXTENDS Bmp280, UbootDiag, CanBridge, LatencyTracker

VARIABLE subject

programVars == <<bmpVars, diagVars, canVars, vars, subject>>

\* The words of the datasheet's worked example, and a warmer, denser moment.
MCConversions == {[t |-> 519888, p |-> 415148], [t |-> 531000, p |-> 401000]}

\* Both ends of the throttle, off the grid of its signal; the drive cycle's ripple and coolant.
MCThrottles == {0, 79999}
MCRipples == {-400000, 399900}
MCCoolants == {77000, 97499}

\* The frame that scripts/test.sh sends, one cut short, an extended frame whose
\* low bits are those of ENGINE_DATA, a vehicle beyond the speed limit whose
\* odometer is about to wrap, and a frame of the detector.
MCInjected ==
  LET frame(id, dlc, data, s) == [can_id |-> id, can_dlc |-> dlc, data |-> data, signals |-> s]
      test == <<125, 0, 170, 150, 1, 0, 0, 0>>
  IN  {frame(CANID_ENGINE_DATA, 8, test,
             [kind |-> "engine", rpm |-> 8000000, ect |-> 130000, throttle |-> 60000, mil |-> 1]),
       frame(CANID_ENGINE_DATA, 4, test, NoSignals),
       frame(5 * SffBits + CANID_ENGINE_DATA, 8, test, NoSignals),
       frame(CANID_VEHICLE_DATA, 8, <<70, 81, 255, 255, 255, 0, 0, 0>>,
             [kind |-> "vehicle", speed |-> 180010, odo |-> 16777215]),
       frame(768, 8, <<1, 1, 0, 0, 0, 0, 0, 0>>, NoSignals)}

\* The percentiles depend on which samples the window holds and not on their
\* order, so histories that fall at most once produce every window; the ring
\* turns under falling and rising samples.
FallsOnce == Cardinality({n \in 1 .. Len(hist) - 1 : hist[n] > hist[n + 1]}) <= 1

\* A program that is not the subject rests in one of its initial states.
Resting ==
  /\ subject # "bmp280" => mode = "sleep"
  /\ subject # "diag" => /\ board = [led |-> HookPin, wiring |-> [a \in Addresses |-> a], stuck |-> {}]
                         /\ claimed = {}
  /\ subject # "can" => ~redline

ProgramsInit ==
  /\ subject \in {"bmp280", "diag", "can", "latency"}
  /\ BmpInit /\ DiagInit /\ CanInit /\ Init
  /\ Resting

Bmp(A) == subject = "bmp280" /\ A /\ UNCHANGED <<subject, diagVars, canVars, vars>>

ProgramsNext ==
  \/ Bmp(BmpNext)
  \/ subject = "diag" /\ DiagNext /\ UNCHANGED <<subject, bmpVars, canVars, vars>>
  \/ subject = "can" /\ CanNext /\ UNCHANGED <<subject, bmpVars, diagVars, vars>>
  \/ /\ subject = "latency" /\ Next
     /\ UNCHANGED <<subject, bmpVars, diagVars, canVars>>
     /\ FallsOnce'

\* A thread that runs takes its next step, and the kernel hands a mutex to its
\* waiters in turn.
Fairness ==
  \A r \in Readers : WF_programVars(Bmp(ReaderStep(r))) /\ SF_programVars(Bmp(MutexLock(r)))

ProgramsSpec == ProgramsInit /\ [][ProgramsNext]_programVars /\ Fairness
===============================================================================
