------------------------------- MODULE CanBridge -------------------------------
(***************************************************************************)
(* The telemetry bridge (vcan-socketcan-telemetry-bridge): can_tx sends    *)
(* the state of a simulated vehicle in two frames per tick, can_rx filters *)
(* and decodes what its socket delivers and raises alerts.  Other nodes    *)
(* send on the same bus, and a socket whose buffer is full loses frames.   *)
(*                                                                         *)
(* Physical values are integers in thousandths of their unit (rpm, degC,   *)
(* %, km/h); the drive cycle's sines and exponential are a choice of       *)
(* values in their range.  The counter of frames and the last speed of     *)
(* can_rx only feed its printout.  A frame carries, as history, the        *)
(* signals its sender meant (NoSignals when it is no telemetry): can_tx    *)
(* means what its drive cycle and --redline ask for, before the clamp.     *)
(***************************************************************************)
EXTENDS Integers, Sequences

CONSTANTS Hz,          \* --hz
          Throttles,   \* 40 + 40 sin(0.15 t)
          Ripples,     \* 400 sin(0.9 t)
          Coolants,    \* 80 + 15 (1 - exp(-t/40)) + 3 sin(0.05 t)
          Injected,    \* frames that other nodes send
          SocketRoom,  \* bound: frames the receiver's socket buffers
          MaxTicks,    \* bound: ticks of the transmitter
          MaxInjected  \* bound: frames of other nodes

ASSUME HzAssumption == Hz \in Nat \ {0}

\* The ranges of the sines and the exponential.
ASSUME CycleAssumption ==
  /\ \A v \in Throttles : v \in Nat /\ v <= 80000
  /\ \A v \in Ripples : v \in Int /\ -400000 <= v /\ v <= 400000
  /\ \A v \in Coolants : v \in Int /\ 77000 <= v /\ v <= 98000

VARIABLES tx,          \* program counter of can_tx
          redline,     \* --redline
          vehicle,     \* the values of this tick
          odo_m,
          ticks, injected,
          socket,      \* external: frames waiting for can_rx
          rx,          \* program counter of can_rx
          line,        \* the line can_rx printed last
          meant,       \* history: the signals the frame of that line carried
          alerts,
          due          \* history: alerts that the signals received so far deserve

canVars == <<tx, redline, vehicle, odo_m, ticks, injected, socket, rx, line, meant, alerts, due>>

CANID_ENGINE_DATA == 192
CANID_VEHICLE_DATA == 208
\* CAN_SFF_MASK keeps 11 bits; the flags of extended and remote frames are above.
SffBits == 2048

ALERT_RPM_REDLINE == 6500000
ALERT_ECT_MAX_C == 110000
ALERT_SPEED_MAX_KMH == 180000

NoSignals == [kind |-> "none"]

CanInit ==
  /\ tx = "tick" /\ redline \in BOOLEAN
  /\ vehicle = NoSignals
  /\ odo_m = 0 /\ ticks = 0 /\ injected = 0
  /\ socket = <<>>
  /\ rx = "read" /\ line = NoSignals /\ meant = NoSignals
  /\ alerts = 0 /\ due = 0

-------------------------------------------------------------------------------
(* The codec of can_common.h: data[0] is element 1 *)

be16(v) == <<(v \div 256) % 256, v % 256>>
be24(v) == <<(v \div 65536) % 256, (v \div 256) % 256, v % 256>>
be16_get(d, at) == d[at] * 256 + d[at + 1]
be24_get(d, at) == d[at] * 65536 + d[at + 1] * 256 + d[at + 2]

\* lround() of a quotient of naturals.
Round(v, unit) == (2 * v + unit) \div (2 * unit)

EngineBytes(s) ==
  be16(s.rpm \div 250) \o <<(Round(s.ect, 1000) + 40) % 256, Round(s.throttle, 400) % 256, s.mil>>
    \o <<0, 0, 0>>

VehicleBytes(s) == be16(Round(s.speed, 10)) \o be24(s.odo) \o <<0, 0, 0>>

EngineLine(d) ==
  [kind |-> "engine", rpm |-> be16_get(d, 1) * 250, ect |-> (d[3] - 40) * 1000,
   throttle |-> d[4] * 400, mil |-> d[5] % 2]

VehicleLine(d) == [kind |-> "vehicle", speed |-> be16_get(d, 1) * 10, odo |-> be24_get(d, 3)]

\* Signals on the grid of their encoding: what a node means that fills the fields itself.
EngineOnGrid(s) ==
  /\ s.kind = "engine" /\ s.mil \in {0, 1}
  /\ s.rpm \in Nat /\ s.rpm % 250 = 0 /\ s.rpm <= 65535 * 250
  /\ s.ect \in Int /\ s.ect % 1000 = 0 /\ -40000 <= s.ect /\ s.ect <= 215000
  /\ s.throttle \in Nat /\ s.throttle % 400 = 0 /\ s.throttle <= 102000
VehicleOnGrid(s) ==
  /\ s.kind = "vehicle" /\ s.odo \in Nat
  /\ s.speed \in Nat /\ s.speed % 10 = 0 /\ s.speed <= 655350

\* A frame of another node either is telemetry, coded as can_common.h says, or means
\* nothing to the bridge: another identifier, extended or remote, or cut short.
ASSUME InjectedAssumption ==
  \A f \in Injected :
    \/ f.can_id = CANID_ENGINE_DATA /\ f.can_dlc >= 5 /\ EngineOnGrid(f.signals)
         /\ f.data = EngineBytes(f.signals)
    \/ f.can_id = CANID_VEHICLE_DATA /\ f.can_dlc >= 5 /\ VehicleOnGrid(f.signals)
         /\ f.data = VehicleBytes(f.signals)
    \/ f.signals = NoSignals
         /\ ~(f.can_id \in {CANID_ENGINE_DATA, CANID_VEHICLE_DATA} /\ f.can_dlc >= 5)

-------------------------------------------------------------------------------
(* can_tx *)

\* A frame reaches the receiver's socket, if it passes the filter and finds room.
Passes(f) == f.can_id % SffBits \in {CANID_ENGINE_DATA, CANID_VEHICLE_DATA}
Deliver(f) ==
  socket' = IF Passes(f) /\ rx # "stopped" /\ Len(socket) < SocketRoom
              THEN Append(socket, f) ELSE socket

Larger(a, b) == IF a < b THEN b ELSE a
Smaller(a, b) == IF a < b THEN a ELSE b

\* The clamp of rpm to 0 .. 16383 * RPM_SCALE, before it is encoded.
MaxRpm == 16383 * 250
Clamped(s) == [s EXCEPT !.rpm = Smaller(Larger(@, 0), MaxRpm)]

\* The drive cycle of a tick, and the ENGINE_DATA frame; a failed write ends the
\* program.
TxEngine ==
  /\ tx = "tick" /\ ticks < MaxTicks
  /\ \E throttle \in Throttles, ripple \in Ripples, coolant \in Coolants :
       LET rpm   == 900000 + 30 * throttle + ripple
           speed == Larger(0, rpm \div 50 - 20000)
           extra == IF redline THEN 1 ELSE 0
           s     == [kind |-> "engine", rpm |-> rpm + 2500000 * extra,
                     ect |-> coolant + 40000 * extra, throttle |-> throttle, mil |-> extra]
       IN  /\ odo_m' = odo_m + speed \div (3600 * Hz)
           /\ vehicle' = [kind |-> "vehicle", speed |-> speed, odo |-> odo_m']
           /\ \/ /\ Deliver([can_id |-> CANID_ENGINE_DATA, can_dlc |-> 8,
                             data |-> EngineBytes(Clamped(s)), signals |-> s])
                 /\ tx' = "vehicle"
              \/ UNCHANGED socket /\ tx' = "stopped"
  /\ ticks' = ticks + 1
  /\ UNCHANGED <<redline, injected, rx, line, meant, alerts, due>>

TxVehicle ==
  /\ tx = "vehicle"
  /\ \/ /\ Deliver([can_id |-> CANID_VEHICLE_DATA, can_dlc |-> 8,
                    data |-> VehicleBytes(vehicle), signals |-> vehicle])
        /\ tx' = "tick"
     \/ UNCHANGED socket /\ tx' = "stopped"
  /\ UNCHANGED <<redline, vehicle, odo_m, ticks, injected, rx, line, meant, alerts, due>>

\* A signal is seen between two ticks.
TxStop ==
  /\ tx = "tick"
  /\ tx' = "stopped"
  /\ UNCHANGED <<redline, vehicle, odo_m, ticks, injected, socket, rx, line, meant, alerts, due>>

\* External: another node sends.
Inject ==
  /\ injected < MaxInjected
  /\ \E f \in Injected : Deliver(f)
  /\ injected' = injected + 1
  /\ UNCHANGED <<tx, redline, vehicle, odo_m, ticks, rx, line, meant, alerts, due>>

-------------------------------------------------------------------------------
(* can_rx *)

\* The line that a frame decodes to.  The variant looks at the 11 bits only.
DecodeLoose(f) ==
  IF f.can_dlc < 5 THEN NoSignals
  ELSE IF f.can_id % SffBits = CANID_ENGINE_DATA THEN EngineLine(f.data) ELSE VehicleLine(f.data)
Decode(f) ==
  CASE f.can_id = CANID_ENGINE_DATA /\ f.can_dlc >= 5 -> EngineLine(f.data)
    [] f.can_id = CANID_VEHICLE_DATA /\ f.can_dlc >= 5 -> VehicleLine(f.data)
    [] OTHER -> NoSignals

One(b) == IF b THEN 1 ELSE 0

AlertsOf(s) ==
  CASE s.kind = "engine" -> One(s.rpm > ALERT_RPM_REDLINE) + One(s.ect > ALERT_ECT_MAX_C)
    [] s.kind = "vehicle" -> One(s.speed > ALERT_SPEED_MAX_KMH)
    [] OTHER -> 0

\* One turn of the loop.  g_run is tested after it: a signal that came before, or
\* during the turn, ends the program there.
RxRead ==
  /\ rx # "stopped" /\ socket # <<>>
  /\ LET f == Head(socket)
     IN  /\ line' = Decode(f)
         /\ meant' = f.signals
         /\ alerts' = alerts + AlertsOf(Decode(f))
         /\ due' = due + AlertsOf(f.signals)
  /\ rx' \in IF rx = "signalled" THEN {"stopped"} ELSE {"read", "stopped"}
  /\ socket' = IF rx' = "stopped" THEN <<>> ELSE Tail(socket)
  /\ UNCHANGED <<tx, redline, vehicle, odo_m, ticks, injected>>

\* A signal finds can_rx in read(), which signal() makes restart: the flag is set,
\* and only the next frame lets the loop see it.
RxSignal ==
  /\ rx = "read" /\ rx' = "signalled"
  /\ UNCHANGED <<tx, redline, vehicle, odo_m, ticks, injected, socket, line, meant, alerts, due>>

\* read() fails.
RxError ==
  /\ rx # "stopped" /\ rx' = "stopped"
  /\ socket' = <<>>
  /\ UNCHANGED <<tx, redline, vehicle, odo_m, ticks, injected, line, meant, alerts, due>>

CanNext == TxEngine \/ TxVehicle \/ TxStop \/ Inject \/ RxRead \/ RxSignal \/ RxError

CanSpec == CanInit /\ [][CanNext]_canVars

-------------------------------------------------------------------------------
(* Properties *)

Within(shown, real, below, above) == shown - below <= real /\ real <= shown + above

\* An engine speed that can_tx wants above its clamp is shown as the clamp.
ShowsRpm(shown, real) == Within(shown, real, 0, 249) \/ (shown = MaxRpm /\ real > MaxRpm)

\* What can_rx prints is what the sender of the frame meant, to the resolution of
\* the signal (the odometer modulo 2^24) and up to the clamp of can_tx, and the
\* alerts it has counted are those that the received signals deserve: frames of
\* other nodes that pass the filter only because it ignores the flags, and short
\* ones, print and count nothing.
DecodedIsSent ==
  /\ line.kind = meant.kind
  /\ line.kind = "engine" =>
       /\ ShowsRpm(line.rpm, meant.rpm)
       /\ Within(line.ect, meant.ect, 500, 500)
       /\ Within(line.throttle, meant.throttle, 200, 200)
       /\ line.mil = meant.mil
  /\ line.kind = "vehicle" =>
       /\ Within(line.speed, meant.speed, 5, 5)
       /\ line.odo = meant.odo % 16777216
  /\ alerts = due

\* What the head of can_tx.c and the README say of --redline: it forces engine speed
\* and coolant past the receiver's thresholds.  Asked only of the throttle that the
\* README's example shows (78 %) and above.
RedlineTrips ==
  redline /\ injected = 0 /\ line.kind = "engine" /\ line.throttle >= 78000 =>
    line.rpm > ALERT_RPM_REDLINE /\ line.ect > ALERT_ECT_MAX_C
===============================================================================
