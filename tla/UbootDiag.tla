------------------------------- MODULE UbootDiag -------------------------------
(***************************************************************************)
(* The U-Boot customisation (uboot-fast-boot-gpio): the board hook that    *)
(* lights the status LED, the diag command, and the boot environment that  *)
(* calls it.  U-Boot has one thread: stage says which part of the boot it  *)
(* is in.  The memory walk of diag mem goes word by word over memory whose *)
(* address lines may be shorted and whose cells may be stuck.              *)
(***************************************************************************)
EXTENDS Naturals, FiniteSets

CONSTANTS Words,      \* words of the walk (256 in the code)
          MaxPrompt   \* bound: commands typed at the prompt

ASSUME WordsAssumption == Words \in Nat \ {0}

VARIABLES board,    \* external, fixed: the pin that status_led_gpio() finds in the
                    \* environment, if it is a pin at all; the cell behind each
                    \* address; the cells that keep their contents
          stage,
          level,    \* [Pins -> level of the output]
          claimed,  \* external: the pins that some driver has requested
          mem,      \* [Addresses -> contents]: the memory cells
          before,   \* history: mem when the walk began
          saved, i, errors,     \* locals of do_diag_mem()
          verdict,  \* history: what the last walk reported
          typed     \* commands typed so far

diagVars == <<board, stage, level, claimed, mem, before, saved, i, errors, verdict, typed>>

\* The pin of the board hook, and another one.
HookPin == "config"
Pins == {HookPin, "other"}
Addresses == 1 .. Words

\* A word's pattern carries its index; the variant writes one pattern everywhere.
PatternSame(a) == Words + 1
Pattern(a) == Words + a

DiagInit ==
  /\ board \in [led : Pins \cup {"invalid"}, wiring : [Addresses -> Addresses],
               stuck : {{}} \cup {{a} : a \in Addresses}]
  /\ stage = "hook"
  /\ level = [p \in Pins |-> 0] /\ claimed \in SUBSET Pins
  /\ mem = [a \in Addresses |-> a]   \* any contents that differ from the patterns
  /\ before = mem /\ saved = mem
  /\ i = 1 /\ errors = 0 /\ verdict = "none" /\ typed = 0

Onward(from, to) == stage = from /\ stage' = to

-------------------------------------------------------------------------------
(* The LED *)

\* led_set(): a pin that does not exist is an error; one that is busy is driven
\* all the same, and freed from whoever had it.
LedSet(pin, on) ==
  IF pin \in Pins
    THEN level' = [level EXCEPT ![pin] = on] /\ claimed' = claimed \ {pin}
    ELSE UNCHANGED <<level, claimed>>

Untouched == UNCHANGED <<mem, before, saved, i, errors, verdict>>

custom_status_led_on ==
  /\ Onward("hook", "preboot")
  /\ LedSet(HookPin, 1)
  /\ Untouched /\ UNCHANGED typed

\* Blinking ends with the LED off.
Blink == LedSet(board.led, 0)

\* preboot=diag led blink 2.  With bootdelay=0 a key still stops the boot.
Preboot ==
  /\ stage = "preboot" /\ stage' \in {"bootcmd", "prompt"}
  /\ Blink
  /\ Untouched /\ UNCHANGED typed

\* diagcmd=diag led on; diag info.  A failing command does not end the list.
DiagLedOn == Onward("bootcmd", "info") /\ LedSet(board.led, 1) /\ Untouched /\ UNCHANGED typed
DiagInfo == Onward("info", "mmcboot") /\ Untouched /\ UNCHANGED <<level, claimed, typed>>

\* Two fatloads and booti, which returns when what was loaded is no kernel.
MmcBoot ==
  /\ stage = "mmcboot" /\ stage' \in {"kernel", "prompt"}
  /\ Untouched /\ UNCHANGED <<level, claimed, typed>>

\* A driver that is loaded on the way requests a pin.
Claim ==
  /\ stage \in {"preboot", "bootcmd"}
  /\ claimed # Pins
  /\ claimed' = Pins
  /\ Untouched /\ UNCHANGED <<stage, level, typed>>

-------------------------------------------------------------------------------
(* The prompt *)

PromptLed ==
  /\ stage = "prompt" /\ typed < MaxPrompt
  /\ typed' = typed + 1
  /\ \E on \in {0, 1} : LedSet(board.led, on)
  /\ Untouched /\ UNCHANGED stage

\* boot runs bootcmd; run mmcboot, or its commands one by one, goes past the LED step
\* of bootcmd.
PromptBoot ==
  /\ stage = "prompt" /\ stage' \in {"bootcmd", "mmcboot"}
  /\ typed < MaxPrompt /\ typed' = typed + 1
  /\ Untouched /\ UNCHANGED <<level, claimed>>

PromptMem ==
  /\ Onward("prompt", "write")
  /\ typed < MaxPrompt /\ typed' = typed + 1
  /\ i' = 1 /\ errors' = 0
  /\ before' = mem /\ verdict' = "none"
  /\ UNCHANGED <<level, claimed, mem, saved>>

-------------------------------------------------------------------------------
(* do_diag_mem() *)

Stored(a, v) == IF board.wiring[a] \in board.stuck THEN mem ELSE [mem EXCEPT ![board.wiring[a]] = v]
ReadBack(a) == mem[board.wiring[a]]

\* Whether the next loop begins, at its first word.
LoopEnds(next) == IF i = Words THEN stage' = next /\ i' = 1 ELSE i' = i + 1 /\ UNCHANGED stage

WalkWrite ==
  /\ stage = "write"
  /\ saved' = [saved EXCEPT ![i] = ReadBack(i)]
  /\ mem' = Stored(i, Pattern(i))
  /\ LoopEnds("check")
  /\ UNCHANGED <<level, claimed, before, errors, verdict, typed>>

WalkCheck ==
  /\ stage = "check"
  /\ errors' = IF ReadBack(i) # Pattern(i) THEN errors + 1 ELSE errors
  /\ mem' = Stored(i, saved[i])
  /\ LoopEnds("report")
  /\ UNCHANGED <<level, claimed, before, saved, verdict, typed>>

WalkReport ==
  /\ Onward("report", "prompt")
  /\ verdict' = IF errors = 0 THEN "ok" ELSE "FAILED"
  /\ UNCHANGED <<level, claimed, mem, before, saved, i, errors, typed>>

-------------------------------------------------------------------------------
DiagStep ==
  \/ custom_status_led_on \/ Preboot \/ DiagLedOn \/ DiagInfo \/ MmcBoot \/ Claim
  \/ PromptLed \/ PromptBoot \/ PromptMem \/ WalkWrite \/ WalkCheck \/ WalkReport

DiagNext == DiagStep /\ UNCHANGED board

DiagSpec == DiagInit /\ [][DiagNext]_diagVars

-------------------------------------------------------------------------------
(* Properties *)

Sound == board.stuck = {} /\ \A a, b \in Addresses : board.wiring[a] = board.wiring[b] => a = b

\* The walk of diag mem is right about the memory: it passes only when no two of its
\* addresses reach one cell and none is stuck, although each word is restored in
\* the pass that checks it; and sound memory passes and keeps its contents.
WalkHonest ==
  /\ verdict = "ok" => Sound
  /\ Sound /\ verdict # "none" => verdict = "ok" /\ mem = before
===============================================================================
