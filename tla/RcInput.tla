------------------------------ MODULE RcInput ------------------------------
(***************************************************************************)
(* One input of the RC receiver: the pulse capture in the interrupt        *)
(* handler (common/src/drivers/drv_pwm_in.c) and its normalisation in the  *)
(* main loop (apps/rc/src/rc.c).  The six inputs are independent of each   *)
(* other.  Time is in ticks of UsPerTick microseconds; the time out and    *)
(* the publish period are scaled down to a few ticks.                      *)
(***************************************************************************)
EXTENDS Integers

CONSTANTS
  MinTicks, MaxTicks,  (* RC_PWM_MIN_US and RC_PWM_MAX_US                  *)
  UsPerTick,
  Timeout,             (* RC_PWM_TIMEOUT_MS                                *)
  Period,              (* longest time between two reads of a session      *)
  MaxLag,              (* longest time an edge waits for its interrupt     *)
  MaxHigh,             (* longest time the line is high                    *)
  Wrap,                (* cycle counter values                             *)
  One,                 (* the value 1.0f: values are integer parts of it   *)
  TrimSet,             (* the trims config.json may hold                   *)
  None

Uint16 == {x \in Nat : x <= 65535}
Trim   == [min : Uint16, center : Uint16, max : Uint16, deadzone : Uint16, alpha : Nat]

ASSUME Assumption ==
  /\ MinTicks \in Nat /\ MaxTicks \in Nat /\ MinTicks <= MaxTicks
  /\ UsPerTick \in Nat \ {0} /\ MaxTicks * UsPerTick \in Uint16
  /\ Timeout \in Nat \ {0} /\ Period \in Nat \ {0}
  /\ MaxLag \in Nat /\ MaxHigh \in Nat /\ MaxHigh > MaxLag
  /\ Wrap \in Nat /\ Wrap > MaxHigh + 2 * MaxLag + MaxTicks
  /\ One \in Nat \ {0}
  /\ TrimSet \subseteq Trim
  /\ None \notin Int /\ None \notin Int \X Int

-----------------------------------------------------------------------------
(* rc_normalize up to the smoothing, with the widths of its integers.      *)
ToUint16(x) == x % 65536
ToInt16(x)  == ((x + 32768) % 65536) - 32768
Abs(x)      == IF x < 0 THEN -x ELSE x

Centered(raw, t) ==
  LET c == ToInt16(ToInt16(raw) - ToInt16(t.center))
  IN IF Abs(c) < ToInt16(t.deadzone) THEN 0 ELSE c

(* The span of the stick on the side it is on.                             *)
Reach(c, t) == ToUint16(IF c > 0 THEN t.max - t.center ELSE t.center - t.min)

Clamped_Not(n) == n
Clamped(n) == IF n > One THEN One ELSE IF n < -One THEN -One ELSE n

Norm(raw, t) ==
  LET c == Centered(raw, t)
      r == Reach(c, t)
  IN IF r = 0 THEN 0
     ELSE Clamped(IF c < 0 THEN -((One * (-c)) \div r) ELSE (One * c) \div r)

(* The exponential filter.                                                 *)
Smooth(a, n, old) == (a * n + (One - a) * old) \div One

-----------------------------------------------------------------------------
VARIABLES
  trim,      (* g_config.rc_trim, of this input                            *)
  level,     (* the line                                                   *)
  steady,    (* ticks since the line changed                               *)
  width,     (* history: width of the last pulse on the line               *)
  edge,      (* an edge the interrupt handler still has to serve           *)
  lag,       (* ticks it has waited                                        *)
  since,     (* k_cycle_get_32() - rise_cycles, modulo Wrap                *)
  pulse_us,
  age,       (* ticks since last_update_ms                                 *)
  up,        (* a session publishes this input                             *)
  sinceRead, (* ticks since the last read of the session                   *)
  reading,   (* rc_pwm_valid is being evaluated ...                        *)
  seen,      (* ... with a k_uptime_get() that made the age this ...       *)
  torn,      (* ... and the interrupt has written last_update_ms since     *)
  ema, emaInit,
  value,     (* the value last published in this session, or None          *)
  span       (* history: least and greatest Norm since the last neutral    *)
             (* reading for want of pulses, or None                        *)

line   == <<level, steady, width, edge, lag>>
pulse  == <<since, pulse_us, age>>
reader == <<reading, seen, torn>>
filter == <<ema, emaInit, value, span>>
vars   == <<trim, line, pulse, up, sinceRead, reader, filter>>

AgeCap == Timeout + 2 * Period

(* rc_pwm_init, more than a pulse after reset, from which rise_cycles (0)  *)
(* counts until the first rising edge.  last_update_ms is 0, which counts  *)
(* as a pulse when less than the time out has passed since reset.          *)
Init ==
  /\ trim \in TrimSet
  /\ level \in BOOLEAN /\ steady = 0 /\ width = None /\ edge = FALSE /\ lag = 0
  /\ since \in (MaxTicks + 1)..(Wrap - MaxHigh - MaxLag - 1)
  /\ pulse_us = 1500 /\ age \in 0..Timeout
  /\ up = FALSE /\ sinceRead = 0
  /\ reading = FALSE /\ seen = 0 /\ torn = FALSE
  /\ ema = 0 /\ emaInit = FALSE /\ value = None /\ span = None

-----------------------------------------------------------------------------
(* The line.  It stays long enough at a level for its edge to be served    *)
(* there.                                                                  *)
LineChanges ==
  /\ steady > MaxLag
  /\ level' = ~level /\ steady' = 0
  /\ width' = IF level THEN steady ELSE width
  /\ edge' = TRUE /\ lag' = 0
  /\ UNCHANGED <<trim, pulse, up, sinceRead, reader, filter>>

Tick ==
  /\ edge => lag < MaxLag
  /\ level => steady < MaxHigh
  /\ up => sinceRead < Period
  /\ lag' = IF edge THEN lag + 1 ELSE lag
  /\ steady' = IF steady < MaxHigh THEN steady + 1 ELSE steady
  /\ since' = (since + 1) % Wrap
  /\ age' = IF age < AgeCap THEN age + 1 ELSE age
  /\ sinceRead' = IF up THEN sinceRead + 1 ELSE sinceRead
  /\ UNCHANGED <<trim, level, width, edge, pulse_us, up, reader, filter>>

(* pwm_isr, which tells the edges apart by the level it finds.             *)
Rising_Inverted == ~level
Rising          == level

Isr ==
  /\ edge /\ edge' = FALSE
  /\ IF Rising THEN since' = 0 /\ UNCHANGED <<pulse_us, age, torn>>
     ELSE /\ UNCHANGED since
          /\ IF since \in MinTicks..MaxTicks
             THEN pulse_us' = since * UsPerTick /\ age' = 0 /\ torn' = reading
             ELSE UNCHANGED <<pulse_us, age, torn>>
  /\ UNCHANGED <<trim, level, steady, width, lag, up, sinceRead, reading, seen, filter>>

-----------------------------------------------------------------------------
(* Sessions come and go; the filter's state stays.                         *)
SessionChanges ==
  /\ ~reading
  /\ up' = ~up /\ sinceRead' = 0 /\ value' = None
  /\ UNCHANGED <<trim, line, pulse, reader, ema, emaInit, span>>

(* The shell may set, load or reset the trims whenever main sleeps.        *)
TrimChanges ==
  /\ ~reading
  /\ trim' \in TrimSet
  /\ UNCHANGED <<line, pulse, up, sinceRead, reader, filter>>

(* rc_normalize: rc_pwm_valid takes the time, then reads last_update_ms.   *)
ReadBegins ==
  /\ up /\ ~reading /\ reading' = TRUE
  /\ seen' = age /\ torn' = FALSE
  /\ UNCHANGED <<trim, line, pulse, up, sinceRead, filter>>

(* A 64-bit value that is written between the two loads of its halves may  *)
(* come out older or newer than both.                                      *)
Verdicts_Any == {TRUE}
Verdicts     == IF torn THEN BOOLEAN ELSE {seen < Timeout}

Widened(n) == IF span = None THEN <<n, n>>
              ELSE <<IF n < span[1] THEN n ELSE span[1], IF n > span[2] THEN n ELSE span[2]>>

Forgets_Kept == UNCHANGED emaInit
Forgets      == emaInit' = FALSE

ReadsNeutral ==
  /\ reading /\ FALSE \in Verdicts
  /\ Forgets
  /\ value' = 0 /\ span' = None
  /\ reading' = FALSE /\ sinceRead' = 0
  /\ UNCHANGED <<trim, line, pulse, up, seen, torn, ema>>

ReadsStick ==
  /\ reading /\ TRUE \in Verdicts
  /\ LET n == Norm(pulse_us, trim)
     IN /\ span' = Widened(n)
        /\ IF trim.alpha >= One THEN value' = n /\ UNCHANGED <<ema, emaInit>>
           ELSE /\ ema' = IF emaInit THEN Smooth(trim.alpha, n, ema) ELSE n
                /\ value' = ema'
                /\ emaInit' = TRUE
  /\ reading' = FALSE /\ sinceRead' = 0
  /\ UNCHANGED <<trim, line, pulse, up, seen, torn>>

Next == LineChanges \/ Tick \/ Isr \/ SessionChanges \/ TrimChanges
          \/ ReadBegins \/ ReadsNeutral \/ ReadsStick

Spec == Init /\ [][Next]_vars

-----------------------------------------------------------------------------
TypeOK ==
  /\ trim \in TrimSet
  /\ level \in BOOLEAN /\ steady \in 0..MaxHigh /\ width \in 0..MaxHigh \cup {None}
  /\ edge \in BOOLEAN /\ lag \in 0..MaxLag
  /\ since \in 0..(Wrap - 1) /\ pulse_us \in Uint16 /\ age \in 0..AgeCap
  /\ up \in BOOLEAN /\ sinceRead \in 0..Period
  /\ reading \in BOOLEAN /\ seen \in 0..AgeCap /\ torn \in BOOLEAN
  /\ ema \in -One..One /\ emaInit \in BOOLEAN
  /\ value \in -One..One \cup {None}
  /\ span = None \/ span \in (-One..One) \X (-One..One)

(* Failsafe: what a session publishes is neutral unless a pulse was        *)
(* measured within the time out, the reads it takes to notice and the time *)
(* the last value stands, also when the interrupt writes the time stamp    *)
(* while it is read in halves.                                             *)
NeutralWhenSilent ==
  up /\ value \notin {None, 0} => age < Timeout + 2 * Period

(* Smoothing stays between the stick positions measured since the last     *)
(* neutral reading: it neither overshoots nor carries a position over a    *)
(* dropout, for any trims, and nothing is published outside of [-1, 1].    *)
WithinSpan ==
  value # None =>
    IF span = None THEN value = 0 ELSE span[1] <= value /\ value <= span[2]

(* What the driver takes for a pulse is the last one on the line, up to    *)
(* the delays of the two interrupts, across the wrap of the cycle counter  *)
(* and from the first edge on.                                             *)
MeasuresPulses ==
  [][age' = 0 /\ pulse_us' # pulse_us =>
       width # None /\ Abs(pulse_us' - UsPerTick * width) <= UsPerTick * MaxLag]_vars
=============================================================================
