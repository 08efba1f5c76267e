--------------------------- MODULE RcInput_proofs ---------------------------
(***************************************************************************)
(* Theorems about RcInput: for any trims, time out, period and interrupt   *)
(* delay the values are well typed, become neutral when the pulses stop,   *)
(* and stay between the stick positions they come from.                    *)
(***************************************************************************)
EXTENDS RcInput, TLAPS

-----------------------------------------------------------------------------
(* Lemmas about the arithmetic.                                            *)

LEMMA ClampedType == ASSUME NEW n \in Int, One \in Nat PROVE Clamped(n) \in -One..One
BY DEF Clamped

LEMMA Uint16IsNat == ASSUME NEW x \in Uint16 PROVE x \in Nat /\ x \in Int
BY DEF Uint16

LEMMA Uint16Below ==
  ASSUME NEW y \in Uint16, NEW x \in Nat, x <= y
  PROVE  x \in Uint16
BY DEF Uint16

LEMMA Int16Type == ASSUME NEW x \in Int PROVE ToInt16(x) \in Int
BY DEF ToInt16

LEMMA Uint16Type == ASSUME NEW x \in Int PROVE ToUint16(x) \in Uint16
BY DEF ToUint16, Uint16

(* A normalised value lies in [-1, 1], whatever trims wrap.                *)
LEMMA NormType ==
  ASSUME NEW raw \in Uint16, NEW t \in Trim, One \in Nat
  PROVE  Norm(raw, t) \in -One..One
<1> DEFINE c == Centered(raw, t)
           r == Reach(c, t)
<1>1. t.min \in Int /\ t.center \in Int /\ t.max \in Int /\ raw \in Int
  <2>1. t.min \in Uint16 /\ t.center \in Uint16 /\ t.max \in Uint16
    BY DEF Trim
  <2> QED BY <2>1, Uint16IsNat
<1>2. c \in Int
  <2>1. ToInt16(raw) \in Int /\ ToInt16(t.center) \in Int
    BY <1>1, Int16Type
  <2>2. ToInt16(ToInt16(raw) - ToInt16(t.center)) \in Int
    BY <2>1, Int16Type
  <2> QED BY <2>2 DEF Centered
<1>3. r \in Nat
  <2> HIDE DEF c
  <2>1. r \in Uint16
    <3>1. CASE c > 0
      BY <1>1, <3>1, Uint16Type DEF Reach
    <3>2. CASE ~(c > 0)
      BY <1>1, <3>2, Uint16Type DEF Reach
    <3> QED BY <3>1, <3>2
  <2> QED BY <2>1, Uint16IsNat
<1> HIDE DEF c, r
<1>4. CASE r = 0
  BY <1>4 DEF Norm, c, r
<1>5. CASE r # 0
  <2> DEFINE n == IF c < 0 THEN -((One * (-c)) \div r) ELSE (One * c) \div r
  <2>1. n \in Int
    <3>1. One * (-c) \in Int /\ One * c \in Int
      BY <1>2
    <3>2. (One * (-c)) \div r \in Int /\ (One * c) \div r \in Int
      BY <1>3, <1>5, <3>1
    <3> QED BY <3>2
  <2>2. Norm(raw, t) = Clamped(n)
    BY <1>5, Zenon DEF Norm, c, r
  <2> HIDE DEF n
  <2> QED BY <2>1, <2>2, ClampedType
<1> QED BY <1>4, <1>5

LEMMA ProductMonotone ==
  ASSUME NEW a \in Nat, NEW x \in Int, NEW y \in Int, x <= y
  PROVE  a * x <= a * y
OBVIOUS

LEMMA DivBetween ==
  ASSUME NEW d \in Nat \ {0}, NEW x \in Int, NEW lo \in Int, NEW hi \in Int,
         d * lo <= x, x <= d * hi
  PROVE  x \div d \in Int /\ lo <= x \div d /\ x \div d <= hi
<1> DEFINE q == x \div d
<1>1. q \in Int /\ d * q <= x /\ x < d * q + d
  OBVIOUS
<1> HIDE DEF q
<1>2. lo <= q
  <2> SUFFICES ASSUME q + 1 <= lo PROVE FALSE
    BY <1>1
  <2>1. d * (q + 1) <= d * lo
    BY <1>1, ProductMonotone
  <2> QED BY <1>1, <2>1
<1>3. q <= hi
  <2> SUFFICES ASSUME hi + 1 <= q PROVE FALSE
    BY <1>1
  <2>1. d * (hi + 1) <= d * q
    BY <1>1, ProductMonotone
  <2> QED BY <1>1, <2>1
<1> QED BY <1>1, <1>2, <1>3 DEF q

(* The filter yields a value between any bounds of its two inputs.         *)
LEMMA SmoothBetween ==
  ASSUME NEW a \in Nat, One \in Nat \ {0}, a < One,
         NEW n \in Int, NEW old \in Int, NEW lo \in Int, NEW hi \in Int,
         lo <= n, n <= hi, lo <= old, old <= hi
  PROVE  Smooth(a, n, old) \in Int /\ lo <= Smooth(a, n, old) /\ Smooth(a, n, old) <= hi
<1> DEFINE b == One - a
           x == a * n + b * old
<1>1. b \in Nat
  OBVIOUS
<1>2. a * lo <= a * n /\ a * n <= a * hi
  BY ProductMonotone
<1>3. b * lo <= b * old /\ b * old <= b * hi
  BY <1>1, ProductMonotone
<1>4. One * lo = a * lo + b * lo /\ One * hi = a * hi + b * hi
  OBVIOUS
<1>5. x \in Int /\ One * lo <= x /\ x <= One * hi
  <2>1. /\ a * n \in Int /\ a * lo \in Int /\ a * hi \in Int
        /\ b * old \in Int /\ b * lo \in Int /\ b * hi \in Int
    BY <1>1
  <2> HIDE DEF b
  <2> QED BY <1>2, <1>3, <1>4, <2>1
<1> HIDE DEF x
<1>6. x \div One \in Int /\ lo <= x \div One /\ x \div One <= hi
  BY <1>5, DivBetween
<1> QED BY <1>6 DEF x, Smooth

-----------------------------------------------------------------------------
LEMMA InitTypeOK == Init => TypeOK
<1> SUFFICES ASSUME Init PROVE TypeOK
  OBVIOUS
<1>1. trim \in TrimSet /\ level \in BOOLEAN /\ edge \in BOOLEAN /\ up \in BOOLEAN
      /\ reading \in BOOLEAN /\ torn \in BOOLEAN /\ emaInit \in BOOLEAN
  BY Zenon DEF Init
<1>2. steady \in 0..MaxHigh /\ width \in 0..MaxHigh \cup {None} /\ lag \in 0..MaxLag
  BY Assumption DEF Init
<1>3. since \in 0..(Wrap - 1)
  <2>1. since \in (MaxTicks + 1)..(Wrap - MaxHigh - MaxLag - 1)
    BY Zenon DEF Init
  <2> QED BY <2>1, Assumption
<1>4. pulse_us \in Uint16
  <2>1. pulse_us = 1500
    BY Zenon DEF Init
  <2>2. 1500 \in Uint16
    BY DEF Uint16
  <2> QED BY <2>1, <2>2
<1>5. age \in 0..AgeCap
  <2>1. age \in 0..Timeout
    BY Zenon DEF Init
  <2> QED BY <2>1, Assumption DEF AgeCap
<1>6. sinceRead \in 0..Period /\ seen \in 0..AgeCap
  <2>1. 0 \in 0..Period /\ 0 \in 0..AgeCap
    BY Assumption DEF AgeCap
  <2> QED BY <2>1, Zenon DEF Init
<1>7. ema \in -One..One /\ value \in -One..One \cup {None} /\ span = None
  <2>1. 0 \in -One..One
    BY Assumption
  <2> QED BY <2>1, Zenon DEF Init
<1> QED BY <1>1, <1>2, <1>3, <1>4, <1>5, <1>6, <1>7 DEF TypeOK

LEMMA StepTypeOK == TypeOK /\ [Next]_vars => TypeOK'
<1> SUFFICES ASSUME TypeOK, [Next]_vars PROVE TypeOK'
  OBVIOUS
<1>1. CASE LineChanges
  <2>1. level' \in BOOLEAN
    BY <1>1, Zenon DEF LineChanges, TypeOK
  <2>2. width' \in 0..MaxHigh \cup {None} /\ steady' \in 0..MaxHigh /\ lag' \in 0..MaxLag
        /\ edge' \in BOOLEAN
    BY <1>1, Assumption DEF LineChanges, TypeOK
  <2> QED BY <1>1, <2>1, <2>2 DEF LineChanges, TypeOK, pulse, reader, filter
<1>2. CASE Tick
  <2>1. lag' \in 0..MaxLag /\ steady' \in 0..MaxHigh
    BY <1>2, Assumption DEF Tick, TypeOK
  <2>2. since' \in 0..(Wrap - 1)
    BY <1>2, Assumption DEF Tick, TypeOK
  <2>3. age' \in 0..AgeCap /\ sinceRead' \in 0..Period
    BY <1>2, Assumption DEF Tick, TypeOK, AgeCap
  <2> QED BY <1>2, <2>1, <2>2, <2>3 DEF Tick, TypeOK, reader, filter
<1>3. CASE Isr
  <2>1. since' \in 0..(Wrap - 1)
    BY <1>3, Assumption DEF Isr, TypeOK
  <2>2. pulse_us' \in Uint16
    <3>1. CASE since \in MinTicks..MaxTicks
      <4>1. since \in Nat /\ since <= MaxTicks /\ UsPerTick \in Nat /\ MaxTicks \in Nat
            /\ MaxTicks * UsPerTick \in Uint16
        BY <3>1, Assumption
      <4>2. UsPerTick * since <= UsPerTick * MaxTicks
        BY <4>1, ProductMonotone
      <4>3. since * UsPerTick \in Uint16
        <5> DEFINE x == since * UsPerTick
                   y == MaxTicks * UsPerTick
        <5>1. x = UsPerTick * since /\ y = UsPerTick * MaxTicks /\ x \in Nat
          BY <4>1
        <5>2. x <= y /\ y \in Uint16
          BY <4>1, <4>2, <5>1
        <5> HIDE DEF x, y
        <5>3. x \in Uint16
          BY <5>1, <5>2, Uint16Below
        <5> QED BY <5>3 DEF x
      <4> QED BY <1>3, <4>3, Zenon DEF Isr, TypeOK
    <3>2. CASE since \notin MinTicks..MaxTicks
      BY <1>3, <3>2, Zenon DEF Isr, TypeOK
    <3> QED BY <3>1, <3>2
  <2>3. age' \in 0..AgeCap
    BY <1>3, Assumption DEF Isr, TypeOK, AgeCap
  <2>4. torn' \in BOOLEAN /\ edge' \in BOOLEAN
    BY <1>3, Zenon DEF Isr, TypeOK
  <2> QED BY <1>3, <2>1, <2>2, <2>3, <2>4 DEF Isr, TypeOK, filter
<1>4. CASE SessionChanges
  <2>1. up' \in BOOLEAN
    BY <1>4, Zenon DEF SessionChanges, TypeOK
  <2>2. sinceRead' \in 0..Period
    BY <1>4, Assumption DEF SessionChanges
  <2> QED BY <1>4, <2>1, <2>2 DEF SessionChanges, TypeOK, line, pulse, reader
<1>9. CASE TrimChanges
  BY <1>9, Zenon DEF TrimChanges, TypeOK, line, pulse, reader, filter
<1>5. CASE ReadBegins
  <2>1. reading' \in BOOLEAN /\ torn' \in BOOLEAN /\ seen' \in 0..AgeCap
    BY <1>5, Zenon DEF ReadBegins, TypeOK
  <2>2. UNCHANGED <<trim, line, pulse, up, sinceRead, filter>>
    BY <1>5, Zenon DEF ReadBegins
  <2> QED BY <2>1, <2>2 DEF TypeOK, line, pulse, filter
<1>6. CASE ReadsNeutral
  <2>1. reading' \in BOOLEAN /\ emaInit' \in BOOLEAN
    BY <1>6, Zenon DEF ReadsNeutral, Forgets
  <2>2. value' = 0 /\ sinceRead' = 0 /\ span' = None
        /\ UNCHANGED <<trim, line, pulse, up, seen, torn, ema>>
    BY <1>6, Zenon DEF ReadsNeutral
  <2>3. 0 \in -One..One /\ 0 \in 0..Period
    BY Assumption
  <2> QED BY <2>1, <2>2, <2>3 DEF TypeOK, line, pulse
<1>7. CASE ReadsStick
  <2> DEFINE n == Norm(pulse_us, trim)
  <2>0. One \in Nat \ {0} /\ trim \in Trim
    BY Assumption DEF TypeOK
  <2>1. n \in -One..One
    BY <2>0, NormType DEF TypeOK
  <2>2. span' = Widened(n)
    BY <1>7, Zenon DEF ReadsStick
  <2> HIDE DEF n
  <2>3. span' \in (-One..One) \X (-One..One)
    BY <2>1, <2>2 DEF Widened, TypeOK
  <2>4. /\ value' \in -One..One /\ ema' \in -One..One /\ emaInit' \in BOOLEAN
    <3>1. CASE trim.alpha >= One
      BY <1>7, <2>1, <3>1 DEF ReadsStick, n, TypeOK
    <3>2. CASE ~(trim.alpha >= One)
      <4>1. trim.alpha \in Nat /\ trim.alpha < One
        BY <2>0, <3>2 DEF Trim
      <4>2. Smooth(trim.alpha, n, ema) \in -One..One
        <5>1. /\ -One \in Int /\ n \in Int /\ -One <= n /\ n <= One
              /\ ema \in Int /\ -One <= ema /\ ema <= One
          BY <2>0, <2>1 DEF TypeOK
        <5> DEFINE a == trim.alpha
                   lo == -One
                   s == Smooth(a, n, ema)
        <5>2. a \in Nat /\ a < One /\ lo \in Int /\ lo <= n /\ lo <= ema
          BY <4>1, <5>1
        <5> HIDE DEF a, lo
        <5>3. s \in Int /\ lo <= s /\ s <= One
          BY <2>0, <5>1, <5>2, SmoothBetween
        <5> HIDE DEF s
        <5>4. s \in -One..One
          BY <2>0, <5>3 DEF lo
        <5> QED BY <5>4 DEF s, a
      <4>3. ema' = IF emaInit THEN Smooth(trim.alpha, n, ema) ELSE n
        BY <1>7, <3>2, Zenon DEF ReadsStick, n
      <4>4. value' = ema' /\ emaInit' = TRUE
        BY <1>7, <3>2, Zenon DEF ReadsStick
      <4> HIDE DEF n
      <4>5. ema' \in -One..One
        BY <2>1, <4>2, <4>3, Zenon
      <4> QED BY <4>4, <4>5
    <3> QED BY <3>1, <3>2
  <2>5. sinceRead' \in 0..Period /\ reading' \in BOOLEAN
    <3>1. sinceRead' = 0 /\ reading' = FALSE
      BY <1>7, Zenon DEF ReadsStick
    <3>2. 0 \in 0..Period
      BY Assumption
    <3> QED BY <3>1, <3>2, Zenon
  <2>6. UNCHANGED <<trim, line, pulse, up, seen, torn>>
    BY <1>7, Zenon DEF ReadsStick
  <2> QED BY <2>3, <2>4, <2>5, <2>6 DEF TypeOK, line, pulse
<1>8. CASE UNCHANGED vars
  BY <1>8 DEF vars, line, pulse, reader, filter, TypeOK
<1> QED BY <1>1, <1>2, <1>3, <1>4, <1>5, <1>6, <1>7, <1>8, <1>9 DEF Next

(* Types of the values, and of the rest of the state.                      *)
THEOREM TypeCorrect == Spec => []TypeOK
BY InitTypeOK, StepTypeOK, PTL DEF Spec

-----------------------------------------------------------------------------
(* The age of the last pulse against the session's reads: a verdict that   *)
(* is being formed rests on a pulse no older than the time the read took,  *)
(* and a value other than neutral on a verdict.                            *)
FreshInv ==
  /\ TypeOK
  /\ ~up => value = None /\ ~reading
  /\ reading /\ ~torn => age <= seen + sinceRead
  /\ reading /\ torn => age <= sinceRead
  /\ value \notin {None, 0} => age < Timeout + Period + sinceRead

(* What is published becomes neutral when the pulses stop, for every time  *)
(* out and read period.                                                    *)
THEOREM SilenceIsNeutral == Spec => []NeutralWhenSilent
<1>1. Init => FreshInv
  <2> SUFFICES ASSUME Init PROVE FreshInv
    OBVIOUS
  <2>1. TypeOK
    BY InitTypeOK
  <2>2. ~up /\ ~reading /\ value = None
    BY Zenon DEF Init
  <2> QED BY <2>1, <2>2, Zenon DEF FreshInv
<1>2. FreshInv /\ [Next]_vars => FreshInv'
  <2> SUFFICES ASSUME FreshInv, [Next]_vars PROVE FreshInv'
    OBVIOUS
  <2>0. TypeOK /\ TypeOK'
    BY StepTypeOK DEF FreshInv
  <2>a. /\ age \in Nat /\ seen \in Nat /\ sinceRead \in Nat /\ sinceRead <= Period
        /\ Timeout \in Nat \ {0} /\ Period \in Nat \ {0}
    BY <2>0, Assumption DEF TypeOK, AgeCap
  <2>b. /\ ~up => value = None /\ ~reading
        /\ reading /\ ~torn => age <= seen + sinceRead
        /\ reading /\ torn => age <= sinceRead
        /\ value \notin {None, 0} => age < Timeout + Period + sinceRead
    BY DEF FreshInv
  <2>1. CASE LineChanges
    BY <2>0, <2>1, <2>b, Zenon DEF FreshInv, LineChanges, pulse, reader, filter
  <2>2. CASE Tick
    <3>1. UNCHANGED <<up, value, reading, seen, torn>>
      BY <2>2, Zenon DEF Tick, reader, filter
    <3>2. age' \in Nat /\ age' <= age + 1
      BY <2>2, <2>a DEF Tick
    <3>3. up => sinceRead' = sinceRead + 1
      BY <2>2, Zenon DEF Tick
    <3>4. reading => up
      BY <2>b
    <3>5. value \notin {None, 0} => up
      BY <2>b
    <3>6. up /\ age <= seen + sinceRead => age' <= seen + sinceRead'
      BY <2>a, <3>2, <3>3
    <3>7. up /\ age <= sinceRead => age' <= sinceRead'
      BY <2>a, <3>2, <3>3
    <3>8. up /\ age < Timeout + Period + sinceRead => age' < Timeout + Period + sinceRead'
      BY <2>a, <3>2, <3>3
    <3> QED BY <2>0, <2>b, <3>1, <3>4, <3>5, <3>6, <3>7, <3>8, Zenon DEF FreshInv
  <2>3. CASE Isr
    <3>1. UNCHANGED <<up, value, reading, seen, sinceRead>>
      BY <2>3, Zenon DEF Isr, filter
    <3>2. (age' = 0 /\ torn' = reading) \/ UNCHANGED <<age, torn>>
      BY <2>3, Zenon DEF Isr
    <3>3. CASE age' = 0 /\ torn' = reading
      <4>1. 0 <= sinceRead /\ 0 < Timeout + Period + sinceRead
        BY <2>a
      <4> QED BY <2>0, <2>b, <3>1, <3>3, <4>1, Zenon DEF FreshInv
    <3>4. CASE UNCHANGED <<age, torn>>
      BY <2>0, <2>b, <3>1, <3>4, Zenon DEF FreshInv
    <3> QED BY <3>2, <3>3, <3>4
  <2>4. CASE SessionChanges
    BY <2>0, <2>4, Zenon DEF FreshInv, SessionChanges, reader
  <2>9. CASE TrimChanges
    BY <2>0, <2>9, <2>b, Zenon DEF FreshInv, TrimChanges, pulse, reader, filter
  <2>5. CASE ReadBegins
    <3>1. age <= age + sinceRead
      BY <2>a
    <3> QED BY <2>0, <2>5, <2>b, <3>1, Zenon DEF FreshInv, ReadBegins, pulse, filter
  <2>6. CASE ReadsNeutral
    BY <2>0, <2>6, <2>b, Zenon DEF FreshInv, ReadsNeutral
  <2>7. CASE ReadsStick
    <3>1. reading /\ TRUE \in Verdicts
      BY <2>7, Zenon DEF ReadsStick
    <3>2. reading' = FALSE /\ sinceRead' = 0 /\ UNCHANGED <<age, up>>
      BY <2>7, Zenon DEF ReadsStick, pulse
    <3>3. age < Timeout + Period + 0
      <4>1. CASE torn
        BY <2>a, <2>b, <3>1, <4>1
      <4>2. CASE ~torn
        <5>1. TRUE \in {seen < Timeout}
          BY <3>1, <4>2, Zenon DEF Verdicts
        <5>2. seen < Timeout
          BY <5>1, Zenon
        <5> QED BY <2>a, <2>b, <3>1, <4>2, <5>2
      <4> QED BY <4>1, <4>2
    <3> QED BY <2>0, <2>b, <3>1, <3>2, <3>3, Zenon DEF FreshInv
  <2>8. CASE UNCHANGED vars
    BY <2>0, <2>8, <2>b, Zenon DEF FreshInv, vars, pulse, reader, filter
  <2> QED BY <2>1, <2>2, <2>3, <2>4, <2>5, <2>6, <2>7, <2>8, <2>9 DEF Next
<1>3. FreshInv => NeutralWhenSilent
  <2> SUFFICES ASSUME FreshInv, value \notin {None, 0} PROVE age < Timeout + 2 * Period
    BY DEF NeutralWhenSilent
  <2>1. age < Timeout + Period + sinceRead
    BY Zenon DEF FreshInv
  <2>2. age \in Nat /\ sinceRead \in Nat /\ sinceRead <= Period /\ Timeout \in Nat /\ Period \in Nat
    BY Assumption DEF FreshInv, TypeOK, AgeCap
  <2> QED BY <2>1, <2>2
<1> QED BY <1>1, <1>2, <1>3, PTL DEF Spec

-----------------------------------------------------------------------------
(* The filter's state lies in the span it was formed from.                 *)
SpanInv ==
  /\ TypeOK
  /\ emaInit => span # None /\ span[1] <= ema /\ ema <= span[2]
  /\ WithinSpan

(* Smoothing neither overshoots nor carries a position over a dropout, for *)
(* any trims, smoothing factor and resolution.                             *)
THEOREM NoOvershoot == Spec => []WithinSpan
<1>1. Init => SpanInv
  <2> SUFFICES ASSUME Init PROVE SpanInv
    OBVIOUS
  <2>1. TypeOK
    BY InitTypeOK
  <2> QED BY <2>1, Zenon DEF Init, SpanInv, WithinSpan
<1>2. SpanInv /\ [Next]_vars => SpanInv'
  <2> SUFFICES ASSUME SpanInv, [Next]_vars PROVE SpanInv'
    OBVIOUS
  <2>0. TypeOK /\ TypeOK'
    BY StepTypeOK DEF SpanInv
  <2>1. CASE LineChanges \/ Tick \/ Isr \/ TrimChanges \/ ReadBegins \/ UNCHANGED vars
    <3>1. UNCHANGED filter
      BY <2>1, Zenon DEF LineChanges, Tick, Isr, TrimChanges, ReadBegins, vars
    <3> QED BY <2>0, <3>1, Zenon DEF SpanInv, WithinSpan, filter
  <2>2. CASE SessionChanges
    BY <2>0, <2>2, Zenon DEF SpanInv, WithinSpan, SessionChanges
  <2>3. CASE ReadsNeutral
    BY <2>0, <2>3, Zenon DEF SpanInv, WithinSpan, ReadsNeutral, Forgets
  <2>4. CASE ReadsStick
    <3> DEFINE n == Norm(pulse_us, trim)
               lo == span'[1]
               hi == span'[2]
               s == Smooth(trim.alpha, n, ema)
    <3>0. One \in Nat \ {0} /\ trim \in Trim
      BY <2>0, Assumption DEF TypeOK
    <3>1. n \in Int /\ ema \in Int
      <4>1. n \in -One..One
        BY <2>0, <3>0, NormType DEF TypeOK
      <4> HIDE DEF n
      <4> QED BY <2>0, <3>0, <4>1 DEF TypeOK
    <3>2. /\ span' = Widened(n)
          /\ trim.alpha >= One => value' = n /\ UNCHANGED <<ema, emaInit>>
          /\ ~(trim.alpha >= One) => /\ ema' = IF emaInit THEN s ELSE n
                                     /\ value' = ema' /\ emaInit' = TRUE
      BY <2>4, Zenon DEF ReadsStick
    <3> HIDE DEF n, s
    <3>3. span = None \/ span \in Int \X Int
      BY <2>0, <3>0 DEF TypeOK
    <3>4. /\ span' # None /\ lo \in Int /\ hi \in Int /\ lo <= n /\ n <= hi
          /\ span # None => lo <= span[1] /\ span[2] <= hi /\ span \in Int \X Int
      <4>1. CASE span = None
        <5>1. span' = <<n, n>>
          BY <3>2, <4>1, Zenon DEF Widened
        <5>2. span' # None
          BY <3>1, <5>1, Assumption
        <5> QED BY <3>1, <4>1, <5>1, <5>2
      <4>2. CASE span # None
        <5> DEFINE l == IF n < span[1] THEN n ELSE span[1]
                   h == IF n > span[2] THEN n ELSE span[2]
        <5>1. span' = <<l, h>>
          BY <3>2, <4>2, Zenon DEF Widened
        <5>2. span[1] \in Int /\ span[2] \in Int /\ span \in Int \X Int
          BY <3>3, <4>2
        <5>3. l \in Int /\ h \in Int /\ l <= n /\ n <= h /\ l <= span[1] /\ span[2] <= h
          BY <3>1, <5>2
        <5> HIDE DEF l, h
        <5>4. span' # None
          BY <5>1, <5>3, Assumption
        <5>5. lo = l /\ hi = h
          BY <5>1
        <5> HIDE DEF lo, hi
        <5> QED BY <5>2, <5>3, <5>4, <5>5
      <4> QED BY <4>1, <4>2
    <3> HIDE DEF lo, hi
    <3>5. emaInit => lo <= ema /\ ema <= hi
      <4> SUFFICES ASSUME emaInit PROVE lo <= ema /\ ema <= hi
        OBVIOUS
      <4>1. span # None /\ span[1] <= ema /\ ema <= span[2]
        BY Zenon DEF SpanInv
      <4>2. span[1] \in Int /\ span[2] \in Int /\ lo <= span[1] /\ span[2] <= hi
        BY <3>4, <4>1
      <4> QED BY <3>1, <3>4, <4>1, <4>2
    <3>6. CASE trim.alpha >= One
      <4>1. value' = n /\ ema' = ema /\ emaInit' = emaInit
        BY <3>2, <3>6, Zenon
      <4>2. emaInit' => lo <= ema' /\ ema' <= hi
        BY <3>5, <4>1, Zenon
      <4> QED BY <2>0, <3>4, <4>1, <4>2, Zenon DEF SpanInv, WithinSpan, lo, hi
    <3>7. CASE ~(trim.alpha >= One)
      <4>1. trim.alpha \in Nat /\ trim.alpha < One
        BY <3>0, <3>7 DEF Trim
      <4>2. emaInit => lo <= s /\ s <= hi
        <5> DEFINE a == trim.alpha
        <5>1. a \in Nat /\ a < One
          BY <4>1
        <5> HIDE DEF a
        <5>2. emaInit => lo <= Smooth(a, n, ema) /\ Smooth(a, n, ema) <= hi
          BY <3>0, <3>1, <3>4, <3>5, <5>1, SmoothBetween
        <5> QED BY <5>2, Zenon DEF s, a
      <4>3. lo <= ema' /\ ema' <= hi
        BY <3>2, <3>4, <3>7, <4>2, Zenon
      <4> QED BY <2>0, <3>2, <3>4, <3>7, <4>3, Zenon DEF SpanInv, WithinSpan, lo, hi
    <3> QED BY <3>6, <3>7
  <2> QED BY <2>1, <2>2, <2>3, <2>4 DEF Next
<1>3. SpanInv => WithinSpan
  BY DEF SpanInv
<1> QED BY <1>1, <1>2, <1>3, PTL DEF Spec

-----------------------------------------------------------------------------
(* The cycle counter against the line.  While the line is high it shows    *)
(* the time since the rise, late by at most the interrupt's delay; or no   *)
(* rise was seen, and it shows too much for a pulse and too little to wrap *)
(* before the fall is served.  The same after the fall, plus the time the  *)
(* falling edge has waited.                                                *)
Timed(time)   == since <= time /\ time <= since + MaxLag
Measured      == since - lag <= width /\ width <= since - lag + MaxLag
Untimed(time) == MaxTicks < since - time /\ since - time < Wrap - MaxHigh - MaxLag

MeasureInv ==
  /\ TypeOK
  /\ edge => steady = lag
  /\ level /\ ~edge => Timed(steady) \/ Untimed(steady)
  /\ ~level /\ edge =>
       /\ width # None
       /\ Measured \/ Untimed(lag + width)

LEMMA Sizes == /\ MinTicks \in Nat /\ MaxTicks \in Nat /\ MaxLag \in Nat /\ MaxHigh \in Nat
               /\ MaxHigh > MaxLag /\ Wrap \in Nat /\ Wrap > MaxHigh + 2 * MaxLag + MaxTicks
               /\ UsPerTick \in Nat /\ None \notin Int
  BY Assumption

LEMMA LineTypes ==
  ASSUME TypeOK
  PROVE  /\ steady \in Nat /\ steady <= MaxHigh /\ lag \in Nat /\ lag <= MaxLag
         /\ since \in Nat /\ since < Wrap /\ level \in BOOLEAN /\ edge \in BOOLEAN
         /\ width # None => width \in Nat /\ width <= MaxHigh
  <1>1. /\ steady \in Nat /\ steady <= MaxHigh /\ lag \in Nat /\ lag <= MaxLag
        /\ since \in Nat /\ since < Wrap
    BY Sizes DEF TypeOK
  <1>2. level \in BOOLEAN /\ edge \in BOOLEAN
    BY Zenon DEF TypeOK
  <1>3. width # None => width \in Nat /\ width <= MaxHigh
    BY Sizes DEF TypeOK
  <1> QED BY <1>1, <1>2, <1>3, Zenon

LEMMA MeasureInit == Init => MeasureInv
  <1> SUFFICES ASSUME Init PROVE MeasureInv
    OBVIOUS
  <1>1. TypeOK
    BY InitTypeOK
  <1>2. steady = 0 /\ edge = FALSE /\ lag = 0
    BY Zenon DEF Init
  <1>3. Untimed(steady)
    BY <1>2, Sizes DEF Init, Untimed
  <1> QED BY <1>1, <1>2, <1>3, Zenon DEF MeasureInv

LEMMA MeasureStep == MeasureInv /\ [Next]_vars => MeasureInv'
  <1> SUFFICES ASSUME MeasureInv, [Next]_vars PROVE MeasureInv'
    OBVIOUS
  <1>1. TypeOK /\ TypeOK'
    BY StepTypeOK DEF MeasureInv
  <1>2. /\ steady \in Nat /\ steady <= MaxHigh /\ lag \in Nat /\ lag <= MaxLag
        /\ since \in Nat /\ since < Wrap /\ level \in BOOLEAN /\ edge \in BOOLEAN
        /\ width # None => width \in Nat /\ width <= MaxHigh
    BY <1>1, LineTypes
  <1>3. CASE LineChanges
    <2>1. /\ steady > MaxLag /\ level' = ~level /\ edge' = TRUE /\ steady' = 0 /\ lag' = 0
          /\ width' = IF level THEN steady ELSE width
          /\ since' = since
      BY <1>3, Zenon DEF LineChanges, pulse
    <2>2. ~edge
      <3>1. edge => steady = lag
        BY Zenon DEF MeasureInv
      <3> QED BY <1>2, <2>1, <3>1, Sizes
    <2>3. CASE level
      <3>1. width' = steady /\ width' # None
        BY <1>2, <2>1, <2>3, Sizes
      <3>2. Timed(steady) \/ Untimed(steady)
        BY <2>2, <2>3, Zenon DEF MeasureInv
      <3>3. Measured' \/ Untimed(lag + width)'
        <4>1. lag' = 0 /\ since' = since /\ width' = steady
          BY <2>1, <3>1, Zenon
        <4>2. CASE Timed(steady)
          BY <1>2, <4>1, <4>2, Sizes DEF Timed, Measured
        <4>3. CASE Untimed(steady)
          BY <1>2, <4>1, <4>3, Sizes DEF Untimed
        <4> QED BY <3>2, <4>2, <4>3
      <3> QED BY <1>1, <2>1, <2>3, <3>1, <3>3, Zenon DEF MeasureInv
    <2>4. CASE ~level
      BY <1>1, <2>1, <2>4, Zenon DEF MeasureInv
    <2> QED BY <2>3, <2>4
  <1>4. CASE Tick
    <2>1. /\ edge => lag < MaxLag
          /\ level => steady < MaxHigh
          /\ lag' = IF edge THEN lag + 1 ELSE lag
          /\ steady' = IF steady < MaxHigh THEN steady + 1 ELSE steady
          /\ since' = (since + 1) % Wrap
          /\ UNCHANGED <<level, width, edge>>
      BY <1>4, Zenon DEF Tick
    <2>2. since + 1 < Wrap => since' = since + 1
      BY <1>2, <2>1, Sizes
    <2>3. edge => steady' = lag'
      <3>1. edge => steady = lag
        BY Zenon DEF MeasureInv
      <3> QED BY <1>2, <2>1, <3>1, Sizes
    <2>4. ASSUME level, ~edge PROVE (Timed(steady) \/ Untimed(steady))'
      <3>1. Timed(steady) \/ Untimed(steady)
        BY <2>4, Zenon DEF MeasureInv
      <3>2. steady' = steady + 1
        BY <2>1, <2>4, Zenon
      <3>3. since + 1 < Wrap
        BY <1>2, <2>1, <2>4, <3>1, Sizes DEF Timed, Untimed
      <3> QED BY <1>2, <2>2, <3>1, <3>2, <3>3, Sizes DEF Timed, Untimed
    <2>5. ASSUME ~level, edge
          PROVE  /\ width' # None
                 /\ Measured' \/ Untimed(lag + width)'
      <3>1. /\ width # None
            /\ Measured \/ Untimed(lag + width)
        BY <2>5, Zenon DEF MeasureInv
      <3>2. lag' = lag + 1 /\ lag < MaxLag /\ width' = width
        BY <2>1, <2>5, Zenon
      <3>3. since + 1 < Wrap
        BY <1>2, <3>1, <3>2, Sizes DEF Untimed, Measured
      <3> QED BY <1>2, <2>2, <3>1, <3>2, <3>3, Sizes DEF Untimed, Measured
    <2> QED BY <1>1, <2>1, <2>3, <2>4, <2>5, Zenon DEF MeasureInv
  <1>5. CASE Isr
    <2>1. edge /\ edge' = FALSE /\ UNCHANGED <<level, steady, lag, width>>
      BY <1>5, Zenon DEF Isr
    <2>2. level => since' = 0 /\ steady = lag
      BY <1>5, Zenon DEF Isr, Rising, MeasureInv
    <2>3. ASSUME level' PROVE Timed(steady)'
      <3>1. since' = 0 /\ steady' = steady /\ steady = lag
        BY <2>1, <2>2, <2>3, Zenon
      <3> QED BY <1>2, <3>1, Sizes DEF Timed
    <2> QED BY <1>1, <2>1, <2>3, Zenon DEF MeasureInv
  <1>6. CASE SessionChanges \/ TrimChanges \/ ReadBegins \/ ReadsNeutral \/ ReadsStick \/ UNCHANGED vars
    <2>1. UNCHANGED <<level, steady, width, edge, lag, since>>
      BY <1>6 DEF SessionChanges, TrimChanges, ReadBegins, ReadsNeutral, ReadsStick, vars, line, pulse
    <2> QED BY <1>1, <2>1, Zenon DEF MeasureInv, Timed, Measured, Untimed
  <1> QED BY <1>3, <1>4, <1>5, <1>6 DEF Next

(* pwm_isr: for every delay of the interrupts, every length of a tick and  *)
(* every width of the counter, a pulse is taken for what it was on the     *)
(* line, to within the delay; in particular the first edge, a counter that *)
(* wrapped during a pulse and an input that started high give no pulse     *)
(* that was not there.                                                     *)
THEOREM PulsesMeasured == Spec => MeasuresPulses
  <1> DEFINE Good == width # None /\ Abs(pulse_us' - UsPerTick * width) <= UsPerTick * MaxLag
  <1>1. MeasureInv /\ [Next]_vars => [age' = 0 /\ pulse_us' # pulse_us => Good]_vars
    <2> SUFFICES ASSUME MeasureInv, Next, pulse_us' # pulse_us PROVE Good
      OBVIOUS
    <2>1. Isr
      <3>1. ~(LineChanges \/ SessionChanges \/ TrimChanges \/ ReadBegins \/ ReadsNeutral \/ ReadsStick)
        BY DEF LineChanges, SessionChanges, TrimChanges, ReadBegins, ReadsNeutral, ReadsStick, pulse
      <3>2. ~Tick
        BY DEF Tick
      <3> QED BY <3>1, <3>2 DEF Next
    <2>2. edge /\ ~level /\ since \in MinTicks..MaxTicks /\ pulse_us' = since * UsPerTick
      BY <2>1, Zenon DEF Isr, Rising
    <2>3. /\ since \in Nat /\ lag \in Nat /\ lag <= MaxLag
          /\ width # None => width \in Nat
      BY LineTypes DEF MeasureInv
    <2>4. /\ width # None
          /\ Measured \/ Untimed(lag + width)
      BY <2>2, Zenon DEF MeasureInv
    <2>5. since - lag <= width /\ width <= since - lag + MaxLag
      BY <2>2, <2>3, <2>4, Sizes DEF Untimed, Measured
    <2>6. since <= width + MaxLag /\ width <= since + MaxLag /\ width \in Nat
      BY <2>3, <2>4, <2>5, Sizes
    <2>7. UsPerTick * since <= UsPerTick * (width + MaxLag) /\ UsPerTick * width <= UsPerTick * (since + MaxLag)
      BY <2>3, <2>6, Sizes, ProductMonotone
    <2>8. /\ UsPerTick * since <= UsPerTick * width + UsPerTick * MaxLag
          /\ UsPerTick * width <= UsPerTick * since + UsPerTick * MaxLag
          /\ since * UsPerTick = UsPerTick * since
      BY <2>3, <2>6, <2>7, Sizes
    <2> DEFINE a == UsPerTick * since
               b == UsPerTick * width
               c == UsPerTick * MaxLag
    <2>9. a \in Int /\ b \in Int /\ c \in Int
      BY <2>3, <2>6, Sizes
    <2>10. pulse_us' = a /\ a <= b + c /\ b <= a + c
      BY <2>2, <2>8
    <2> HIDE DEF a, b, c
    <2>11. Abs(pulse_us' - b) <= c
      BY <2>9, <2>10 DEF Abs
    <2> QED BY <2>4, <2>11 DEF b, c
  <1> QED BY MeasureInit, MeasureStep, <1>1, PTL DEF Spec, MeasuresPulses
=============================================================================
