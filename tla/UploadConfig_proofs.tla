------------------------- MODULE UploadConfig_proofs ------------------------
(***************************************************************************)
(* Proofs about ConfigStore, for every set of names and channels, every    *)
(* size of the channel table and of the buffer; and that the upload tool,  *)
(* which drives it through the shell, is among its environments.           *)
(***************************************************************************)
EXTENDS UploadConfig, TLAPS

(* A configuration as the store may hold it: typed and its table not       *)
(* overflowing; and, unless a "set" was overtaken, without a channel that  *)
(* is listed twice.                                                        *)
Sound(c) == c \in Config /\ Len(c.channels) <= CFG_MAX_CHANNELS

Distinct(c) == \A j, l \in DOMAIN c.channels :
                 c.channels[j].name = c.channels[l].name => j = l \/ c.channels[j].name = CutName

SoundText(t) == t \in Text /\ Sound(t.config)

StoreInv ==
  /\ Sound(g_config) /\ SoundText(cfg_io_buf)
  /\ file = None \/ SoundText(file)
  /\ promised \in Config \cup {None} /\ snap \in Config \cup {None}
  /\ main \in {"usb", "unmounted", "load", "save_open", "save_write", "run"}
  /\ shell \in {"idle", "node", "ns", "entry", "reset", "save_open", "save_write"}
  /\ put \in Put \cup {None} /\ (shell = "entry" => put \in Put)
  /\ torn \in BOOLEAN /\ raced \in BOOLEAN
  /\ sets \in 0..MaxSets

(* A channel about to be added is not in the table yet.                    *)
Fresh(c) ==
  shell = "entry" /\ put.new =>
    put.entry.name = CutName \/ \A j \in DOMAIN c.channels : c.channels[j].name # put.entry.name

UniqueInv ==
  \/ raced
  \/ /\ Distinct(g_config) /\ Distinct(cfg_io_buf.config)
     /\ file = None \/ Distinct(file.config)
     /\ Fresh(g_config)
     /\ torn => shell \in {"node", "ns"}

-----------------------------------------------------------------------------
LEMMA RoundedType == ASSUME NEW a \in Nat PROVE ((a + 5) \div 10) * 10 \in Nat
  OBVIOUS

LEMMA ConstantsSound ==
  /\ Sound(Blank) /\ Sound(Factory) /\ SoundText(NoText)
  /\ Distinct(Blank) /\ Distinct(Factory) /\ Distinct(NoText.config)
  <1>1. Blank \in Config /\ Factory \in Config
    BY Assumption DEF Assumption, Blank, Factory, Config
  <1>2. Blank.channels = <<>> /\ Factory.channels = <<>>
    BY DEF Blank, Factory
  <1>3. Len(<<>>) = 0 /\ DOMAIN <<>> = {}
    OBVIOUS
  <1>4. Sound(Blank) /\ Sound(Factory)
    BY <1>1, <1>2, <1>3, Assumption DEF Assumption, Sound
  <1>5. Distinct(Blank) /\ Distinct(Factory)
    BY <1>2, <1>3 DEF Distinct
  <1>6. QED
    BY <1>1, <1>4, <1>5 DEF SoundText, NoText, Text

(* Every text of a sound configuration is sound.                           *)
LEMMA TextsSound ==
  ASSUME NEW c, Sound(c), NEW t \in Texts(c)
  PROVE  SoundText(t) /\ t.config = c
  <1>1. PICK p \in 0..4 : t = [config |-> c, parts |-> p]
    BY DEF Texts
  <1>2. QED
    BY <1>1 DEF SoundText, Text, Sound

(* Parsing a sound text over a sound configuration gives a sound one, with *)
(* the text's channels or none.                                            *)
LEMMA ParsedSound ==
  ASSUME NEW t, SoundText(t), NEW r, Sound(r)
  PROVE  Sound(Parsed(t, r)) /\ (Distinct(t.config) => Distinct(Parsed(t, r)))
  <1> DEFINE q == Parsed(t, r)
  <1>1. t.config \in Config /\ r \in Config /\ t.parts \in 0..4
    BY DEF SoundText, Sound, Text
  <1>2. /\ t.config.node \in Names \cup {Empty} /\ r.node \in Names \cup {Empty}
        /\ t.config.ns \in Spaces \cup {Empty} /\ r.ns \in Spaces \cup {Empty}
        /\ t.config.channels \in Seq(Entry) /\ t.config.alpha \in Nat /\ r.alpha \in Nat
    BY <1>1 DEF Config
  <1>3. Rounded(t.config).alpha \in Nat
    BY <1>1, <1>2, RoundedType DEF Rounded, Config
  <1>4. q.channels = t.config.channels \/ q.channels = <<>>
    BY DEF Parsed, Channels
  <1>5. q \in Config
    BY <1>2, <1>3 DEF Parsed, Channels, Config
  <1>6. CASE q.channels = <<>>
    <2>1. Len(<<>>) = 0 /\ DOMAIN <<>> = {}
      OBVIOUS
    <2>2. QED
      BY <1>5, <1>6, <2>1, Assumption DEF Assumption, Sound, Distinct
  <1>7. CASE q.channels = t.config.channels
    BY <1>5, <1>7 DEF Sound, SoundText, Distinct
  <1>8. QED
    BY <1>4, <1>6, <1>7

-----------------------------------------------------------------------------
(* The channel table under the three ways an entry is written.             *)

LEMMA AppendSound ==
  ASSUME Sound(g_config), ~Full, NEW e \in Entry
  PROVE  LET q == [g_config EXCEPT !.channels = Append(@, e)]
         IN /\ Sound(q)
            /\ Distinct(g_config) /\ (e.name = CutName \/ \A j \in DOMAIN g_config.channels :
                                       g_config.channels[j].name # e.name) => Distinct(q)
  <1> DEFINE old == g_config.channels
             q   == [g_config EXCEPT !.channels = Append(old, e)]
  <1>1. old \in Seq(Entry) /\ Len(old) \in Nat
    BY DEF Sound, Config
  <1>2. Append(old, e) \in Seq(Entry) /\ Len(Append(old, e)) = Len(old) + 1
    BY <1>1
  <1>3. q \in Config /\ q.channels = Append(old, e)
    BY <1>2 DEF Sound, Config
  <1>4. Len(q.channels) <= CFG_MAX_CHANNELS
    BY <1>1, <1>2, <1>3, Assumption DEF Full, Assumption
  <1>5. ASSUME Distinct(g_config), e.name = CutName \/ \A j \in DOMAIN old : old[j].name # e.name
        PROVE  Distinct(q)
    <2> SUFFICES ASSUME NEW j \in DOMAIN Append(old, e), NEW l \in DOMAIN Append(old, e),
                        Append(old, e)[j].name = Append(old, e)[l].name
                 PROVE  j = l \/ Append(old, e)[j].name = CutName
      BY <1>3 DEF Distinct
    <2>1. /\ j \in DOMAIN old \/ j = Len(old) + 1
          /\ l \in DOMAIN old \/ l = Len(old) + 1
      BY <1>1
    <2>2. \A x \in DOMAIN old : Append(old, e)[x] = old[x]
      BY <1>1
    <2>3. Append(old, e)[Len(old) + 1].name = e.name
      BY <1>1
    <2>4. CASE j \in DOMAIN old /\ l \in DOMAIN old
      BY <1>5, <2>2, <2>4 DEF Distinct
    <2>5. CASE j \in DOMAIN old /\ l = Len(old) + 1
      BY <1>5, <2>2, <2>3, <2>5
    <2>6. CASE j = Len(old) + 1 /\ l \in DOMAIN old
      BY <1>5, <2>2, <2>3, <2>6
    <2>7. QED
      BY <2>1, <2>4, <2>5, <2>6
  <1>6. QED
    BY <1>3, <1>4, <1>5 DEF Sound

LEMMA SlotSound ==
  ASSUME Sound(g_config), NEW x \in DOMAIN g_config.channels, NEW e \in Entry
  PROVE  Sound([g_config EXCEPT !.channels[x] = e])
  <1> DEFINE old == g_config.channels
             new == [old EXCEPT ![x] = e]
  <1>1. old \in Seq(Entry) /\ Len(old) \in Nat /\ DOMAIN old = 1..Len(old)
    BY DEF Sound, Config
  <1>2. new \in Seq(Entry) /\ Len(new) = Len(old)
    BY <1>1
  <1>3. QED
    BY <1>2 DEF Sound, Config

(* A new flag for an entry that exists changes no name.                    *)
LEMMA FlagSound ==
  ASSUME Sound(g_config), NEW x \in DOMAIN g_config.channels, NEW en \in BOOLEAN
  PROVE  LET q == [g_config EXCEPT !.channels[x].enabled = en]
         IN Sound(q) /\ (Distinct(g_config) => Distinct(q))
  <1> DEFINE old == g_config.channels
             e   == [old[x] EXCEPT !.enabled = en]
             new == [old EXCEPT ![x] = e]
             q   == [g_config EXCEPT !.channels[x].enabled = en]
  <1>1. old \in Seq(Entry) /\ DOMAIN old = 1..Len(old) /\ old[x] \in Entry
    BY DEF Sound, Config
  <1>2. e \in Entry /\ e.name = old[x].name
    BY <1>1 DEF Entry
  <1>3. q = [g_config EXCEPT !.channels[x] = e]
    OBVIOUS
  <1>4. Sound(q)
    BY <1>2, <1>3, SlotSound
  <1>5. q.channels = new
    BY <1>3 DEF Sound, Config
  <1>6. DOMAIN new = DOMAIN old /\ \A j \in DOMAIN old : new[j].name = old[j].name
    BY <1>1, <1>2
  <1>7. Distinct(g_config) => Distinct(q)
    BY <1>5, <1>6 DEF Distinct
  <1>8. QED
    BY <1>4, <1>7

LEMMA WrittenSound ==
  ASSUME Sound(g_config), put \in Put, NEW q \in Written
  PROVE  Sound(q) /\ (Distinct(g_config) /\ ~torn /\ (put.new =>
                        put.entry.name = CutName
                        \/ \A j \in DOMAIN g_config.channels :
                             g_config.channels[j].name # put.entry.name) => Distinct(q))
  <1>1. put.entry \in Entry /\ put.entry.enabled \in BOOLEAN
    BY DEF Put, Entry
  <1>2. CASE q = g_config
    BY <1>2
  <1>3. CASE ~put.new /\ InSlot /\ q = [g_config EXCEPT !.channels[put.slot].enabled = put.entry.enabled]
    BY <1>1, <1>3, FlagSound DEF InSlot
  <1>4. CASE put.new /\ ~Full /\ q = [g_config EXCEPT !.channels = Append(@, put.entry)]
    BY <1>1, <1>4, AppendSound
  <1>5. CASE torn /\ InSlot /\ q = [g_config EXCEPT !.channels[put.slot] = put.entry]
    BY <1>1, <1>5, SlotSound DEF InSlot
  <1>6. QED
    BY <1>2, <1>3, <1>4, <1>5 DEF Written

LEMMA CopiedSound ==
  ASSUME Sound(g_config), NEW q \in Copied
  PROVE  Sound(q) /\ q.channels = g_config.channels
  <1>1. CASE q = g_config
    BY <1>1
  <1>2. ASSUME NEW v \in Names, q = [g_config EXCEPT !.node = v]
        PROVE  Sound(q) /\ q.channels = g_config.channels
    BY <1>2 DEF Sound, Config
  <1>3. ASSUME NEW v \in Spaces, q = [g_config EXCEPT !.ns = v]
        PROVE  Sound(q) /\ q.channels = g_config.channels
    BY <1>3 DEF Sound, Config
  <1>4. QED
    BY <1>1, <1>2, <1>3 DEF Copied

-----------------------------------------------------------------------------
(* The first half of each "set".                                           *)

StringSet ==
  \/ \E v \in Names \cup {Empty} : SetNode(v)
  \/ \E v \in Spaces \cup {Empty} : SetSpace(v)
  \/ \E a \in Alphas : SetAlpha(a)

EntrySet ==
  \/ \E n \in ChannelNames : SetTopic(n)
  \/ \E n \in ChannelNames \cup {LongName}, en \in BOOLEAN : SetChannel(n, en)

LEMMA StringSetSound ==
  ASSUME StoreInv, StringSet
  PROVE  /\ Sound(g_config') /\ g_config'.channels = g_config.channels
         /\ shell' \in {"idle", "node", "ns"} /\ sets' \in 0..MaxSets
         /\ shell = "idle" /\ ShellRuns
         /\ UNCHANGED <<cfg_io_buf, file, main, race, promised, snap>>
  <1> USE DEF SetBegins, race
  <1>0. Sound(g_config) /\ sets \in 0..MaxSets /\ MaxSets \in Nat
    BY Assumption DEF StoreInv, Assumption
  <1>1. ASSUME NEW v \in Names, SetNode(v)
        PROVE  Sound(g_config') /\ g_config'.channels = g_config.channels
    BY <1>0, <1>1 DEF SetNode, Sound, Config
  <1>2. ASSUME NEW v \in Spaces, SetSpace(v)
        PROVE  Sound(g_config') /\ g_config'.channels = g_config.channels
    BY <1>0, <1>2 DEF SetSpace, Sound, Config
  <1>3. ASSUME NEW a \in Alphas, SetAlpha(a)
        PROVE  Sound(g_config') /\ g_config'.channels = g_config.channels
    <2>1. a \in Nat
      BY Assumption DEF Assumption
    <2>2. QED
      BY <1>0, <1>3, <2>1 DEF SetAlpha, Sound, Config
  <1>4. Sound(g_config') /\ g_config'.channels = g_config.channels
    BY <1>1, <1>2, <1>3 DEF StringSet, SetNode, SetSpace
  <1>5. PICK next \in {"idle", "node", "ns"} : SetBegins(next) /\ UNCHANGED put
    BY DEF StringSet, SetNode, SetSpace, SetAlpha
  <1>6. QED
    BY <1>0, <1>4, <1>5 DEF Command

LEMMA EntrySetSound ==
  ASSUME StoreInv, EntrySet
  PROVE  /\ put' \in Put
         /\ put'.new => \/ put'.entry.name = CutName
                        \/ \A j \in DOMAIN g_config.channels :
                             g_config.channels[j].name # put'.entry.name
         /\ shell' = "entry" /\ sets' \in 0..MaxSets
         /\ shell = "idle" /\ ShellRuns
         /\ UNCHANGED <<g_config, cfg_io_buf, file, main, torn, raced, promised, snap>>
  <1>0. Sound(g_config) /\ sets \in 0..MaxSets /\ MaxSets \in Nat
    BY Assumption DEF StoreInv, Assumption
  <1> DEFINE old    == g_config.channels
             Good(p) == /\ p \in Put
                        /\ p.new => \/ p.entry.name = CutName
                                    \/ \A j \in DOMAIN old : old[j].name # p.entry.name
  <1>1. Len(old) \in Nat /\ DOMAIN old = 1..Len(old) /\ Len(old) <= CFG_MAX_CHANNELS
    BY <1>0 DEF Sound, Config
  <1>2. ASSUME NEW n \in ChannelNames \cup {LongName}, NEW en \in BOOLEAN, Listed(n) = {}, Add(n, en)
        PROVE  \E p : LooksUp(p) /\ Good(p)
    <2> DEFINE name == IF n = LongName THEN CutName ELSE n
               p    == [slot |-> Len(old) + 1, new |-> TRUE,
                        entry |-> [name |-> name, enabled |-> en]]
    <2>1. LooksUp(p) /\ ~Full
      BY <1>2 DEF Add
    <2>2. p.slot \in 1..CFG_MAX_CHANNELS
      BY <1>1, <2>1, Assumption DEF Full, Assumption
    <2>3. p.entry \in Entry
      BY Assumption DEF Entry, Assumption
    <2>4. p \in Put
      BY <2>2, <2>3 DEF Put
    <2>5. p.entry.name = CutName \/ \A j \in DOMAIN old : old[j].name # p.entry.name
      BY <1>2 DEF Listed
    <2>6. QED
      BY <2>1, <2>4, <2>5
  <1>3. ASSUME NEW n \in ChannelNames \cup {LongName}, NEW en \in BOOLEAN, Listed(n) # {},
               SetChannel(n, en)
        PROVE  \E p : LooksUp(p) /\ Good(p)
    <2>1. PICK j \in Listed(n) :
                 LooksUp([slot |-> j, new |-> FALSE, entry |-> [name |-> n, enabled |-> en]])
      BY <1>3 DEF SetChannel
    <2>2. j \in DOMAIN old /\ old[j].name = n
      BY DEF Listed
    <2>3. old[j] \in Entry
      BY <1>0, <2>2 DEF Sound, Config
    <2>4. n \in ChannelNames /\ j \in 1..CFG_MAX_CHANNELS
      BY <1>1, <2>2, <2>3, Assumption DEF Entry, Assumption
    <2>5. [slot |-> j, new |-> FALSE, entry |-> [name |-> n, enabled |-> en]] \in Put
      BY <2>4 DEF Put, Entry
    <2>6. QED
      BY <2>1, <2>5
  <1>4. PICK p : LooksUp(p) /\ Good(p)
    BY <1>2, <1>3 DEF EntrySet, SetTopic, SetChannel
  <1>5. QED
    BY <1>0, <1>4 DEF LooksUp, SetBegins, Command

-----------------------------------------------------------------------------
LEMMA StoreInit == Init => StoreInv /\ UniqueInv
  <1> SUFFICES ASSUME Init PROVE StoreInv /\ UniqueInv
    OBVIOUS
  <1>1. torn \in BOOLEAN /\ raced \in BOOLEAN /\ ~torn
    BY Zenon DEF Init
  <1>2. 0 \in 0..MaxSets
    BY Assumption DEF Assumption
  <1>3. /\ g_config = Blank /\ cfg_io_buf = NoText /\ file = None /\ promised = None /\ snap = None
        /\ main = "usb" /\ shell = "idle" /\ put = None /\ sets = 0
    BY DEF Init
  <1>4. StoreInv
    BY <1>1, <1>2, <1>3, ConstantsSound DEF StoreInv
  <1>5. UniqueInv
    BY <1>1, <1>3, ConstantsSound DEF UniqueInv, Fresh
  <1>6. QED
    BY <1>4, <1>5

(* What config_init does to a "set" in progress.                           *)
LEMMA OvertakesFacts ==
  ASSUME StoreInv, Overtakes
  PROVE  /\ torn' \in BOOLEAN /\ raced' \in BOOLEAN /\ put' = put
         /\ raced => raced'
         /\ ~raced' => shell # "entry" /\ (torn' => shell \in {"node", "ns"})
  <1>0. put' = put /\ torn' = (shell \in {"node", "ns", "entry"})
    BY DEF Overtakes
  <1>1. torn' \in BOOLEAN
    <2>1. CASE shell \in {"node", "ns", "entry"}
      BY <1>0, <2>1, SMT
    <2>2. CASE shell \notin {"node", "ns", "entry"}
      BY <1>0, <2>2, SMT
    <2>3. QED
      BY <2>1, <2>2
  <1>2. raced' = (raced \/ shell = "entry")
    BY Zenon DEF Overtakes
  <1>3. torn' => shell \in {"node", "ns", "entry"}
    BY <1>0, Zenon
  <1>4. QED
    BY <1>0, <1>1, <1>2, <1>3, Zenon DEF StoreInv

(* Only config_init overtakes a "set".                                     *)
LEMMA RacedStep == StoreInv /\ [Next]_vars /\ raced => raced'
  <1> SUFFICES ASSUME StoreInv, [Next]_vars, raced PROVE raced'
    OBVIOUS
  <1>1. CASE MountFails \/ Load \/ LoadFails
    BY <1>1, OvertakesFacts DEF MountFails, Load, LoadFails
  <1>2. CASE ConfigSet
    BY <1>2 DEF ConfigSet, SetNode, SetSpace, SetAlpha, SetTopic, SetChannel, Add, LooksUp,
                SetBegins, CopyEnds, EntryEnds
  <1>3. CASE Restart \/ Mount \/ ResetBegins \/ ResetEnds \/ ShellLoads \/ SaveBegins
    BY <1>3 DEF race, Restart, Mount, ResetBegins, ResetEnds, ShellLoads, SaveBegins
  <1>4. ASSUME NEW ok \in BOOLEAN, MainOpens(ok) \/ MainWrites(ok) \/ ShellOpens(ok) \/ ShellWrites(ok)
        PROVE  raced'
    BY <1>4 DEF race, MainOpens, MainWrites, ShellOpens, ShellWrites
  <1>5. CASE UNCHANGED vars
    BY <1>5 DEF vars, race
  <1>6. QED
    BY <1>1, <1>2, <1>3, <1>4, <1>5 DEF Next

(* What ends in the file was in the buffer, or the file is a new one.      *)
LEMMA CreatedSound ==
  ASSUME StoreInv
  PROVE  /\ SoundText(Created)
         /\ file = None \/ Distinct(file.config) => Distinct(Created.config)
  BY ConstantsSound DEF StoreInv, Created

LEMMA ResetSound ==
  ASSUME StoreInv
  PROVE  LET q == [Factory EXCEPT !.channels = g_config.channels]
         IN Sound(q) /\ (Distinct(g_config) => Distinct(q))
  BY ConstantsSound DEF StoreInv, Sound, Config, Factory, Distinct

(* The store keeps nothing but sound configurations, on every path.        *)
LEMMA StoreStep == StoreInv /\ [Next]_vars => StoreInv'
  <1> SUFFICES ASSUME StoreInv, [Next]_vars PROVE StoreInv'
    OBVIOUS
  <1> USE DEF race, Put, Entry
  <1>1. CASE Restart
    BY <1>1, ConstantsSound DEF Restart, StoreInv
  <1>2. CASE MountFails
    BY <1>2, ConstantsSound, OvertakesFacts DEF MountFails, StoreInv
  <1>3. CASE Mount
    BY <1>3 DEF Mount, StoreInv
  <1>4. CASE Load \/ ShellLoads
    <2>1. file # None /\ g_config' = Parsed(file, g_config) /\ cfg_io_buf' = file
      BY <1>4 DEF Load, ShellLoads
    <2>2. SoundText(file) /\ Sound(g_config')
      BY <2>1, ParsedSound DEF StoreInv
    <2>3. CASE Load
      BY <2>1, <2>2, <2>3, OvertakesFacts DEF Load, StoreInv
    <2>4. CASE ShellLoads
      BY <2>1, <2>2, <2>4 DEF ShellLoads, StoreInv
    <2>5. QED
      BY <1>4, <2>3, <2>4
  <1>5. CASE LoadFails
    <2>1. SoundText(cfg_io_buf')
      BY <1>5, ConstantsSound, TextsSound DEF LoadFails
    <2>2. QED
      BY <1>5, <2>1, ConstantsSound, OvertakesFacts DEF LoadFails, StoreInv
  <1>6. ASSUME NEW ok \in BOOLEAN, MainOpens(ok) \/ ShellOpens(ok) PROVE StoreInv'
    <2>1. file' = None \/ SoundText(file')
      BY <1>6, CreatedSound DEF MainOpens, ShellOpens, StoreInv
    <2>2. QED
      BY <1>6, <2>1 DEF MainOpens, ShellOpens, StoreInv
  <1>7. ASSUME NEW ok \in BOOLEAN, MainWrites(ok) \/ ShellWrites(ok) PROVE StoreInv'
    BY <1>7 DEF MainWrites, ShellWrites, StoreInv
  <1>8. CASE StringSet
    BY <1>8, StringSetSound DEF StoreInv
  <1>9. CASE EntrySet
    BY <1>9, EntrySetSound DEF StoreInv
  <1>10. CASE CopyEnds
    <2>1. Sound(g_config')
      BY <1>10, CopiedSound DEF CopyEnds, StoreInv
    <2>2. QED
      BY <1>10, <2>1 DEF CopyEnds, StoreInv
  <1>11. CASE EntryEnds
    <2>1. Sound(g_config')
      BY <1>11, WrittenSound DEF EntryEnds, StoreInv
    <2>2. QED
      BY <1>11, <2>1 DEF EntryEnds, StoreInv
  <1>12. CASE ResetBegins \/ ResetEnds
    BY <1>12, ConstantsSound, ResetSound DEF ResetBegins, ResetEnds, StoreInv
  <1>13. CASE SaveBegins
    <2>1. SoundText(cfg_io_buf')
      BY <1>13, TextsSound DEF SaveBegins, StoreInv
    <2>2. snap' \in Config \cup {None}
      BY <1>13 DEF SaveBegins, StoreInv, Sound
    <2>3. QED
      BY <1>13, <2>1, <2>2 DEF SaveBegins, StoreInv
  <1>14. CASE UNCHANGED vars
    BY <1>14 DEF vars, StoreInv
  <1>15. QED
    BY <1>1, <1>2, <1>3, <1>4, <1>5, <1>6, <1>7, <1>8, <1>9, <1>10, <1>11, <1>12, <1>13, <1>14
    DEF Next, ConfigSet, StringSet, EntrySet

(* No configuration, text or file lists a channel twice.                   *)
LEMMA UniqueStep == StoreInv /\ UniqueInv /\ [Next]_vars => UniqueInv'
  <1> SUFFICES ASSUME StoreInv, UniqueInv, [Next]_vars, ~raced, ~raced' PROVE UniqueInv'
    BY RacedStep DEF UniqueInv
  <1>0. /\ Distinct(g_config) /\ Distinct(cfg_io_buf.config)
        /\ file = None \/ Distinct(file.config)
        /\ Fresh(g_config) /\ (torn => shell \in {"node", "ns"})
    BY DEF UniqueInv
  <1> USE DEF race
  <1>1. CASE Restart
    BY <1>0, <1>1, ConstantsSound DEF Restart, UniqueInv, Fresh
  <1>2. CASE MountFails
    BY <1>0, <1>2, ConstantsSound, OvertakesFacts DEF MountFails, UniqueInv, Fresh
  <1>3. CASE Mount
    BY <1>0, <1>3 DEF Mount, UniqueInv, Fresh
  <1>4. CASE Load \/ ShellLoads
    <2>1. file # None /\ g_config' = Parsed(file, g_config) /\ cfg_io_buf' = file /\ file' = file
      BY <1>4 DEF Load, ShellLoads
    <2>2. Distinct(g_config') /\ Distinct(cfg_io_buf'.config)
      BY <1>0, <2>1, ParsedSound DEF StoreInv
    <2>3. shell' # "entry" /\ (torn' => shell' \in {"node", "ns"})
      BY <1>0, <1>4, OvertakesFacts DEF Load, ShellLoads, Command
    <2>4. QED
      BY <1>0, <2>1, <2>2, <2>3 DEF UniqueInv, Fresh
  <1>5. CASE LoadFails
    <2>1. Distinct(cfg_io_buf'.config) /\ Distinct(g_config')
      BY <1>5, ConstantsSound, TextsSound DEF LoadFails
    <2>2. shell' # "entry" /\ (torn' => shell' \in {"node", "ns"}) /\ file' = file
      BY <1>5, OvertakesFacts DEF LoadFails
    <2>3. QED
      BY <1>0, <2>1, <2>2 DEF UniqueInv, Fresh
  <1>6. ASSUME NEW ok \in BOOLEAN, MainOpens(ok) \/ ShellOpens(ok) PROVE UniqueInv'
    <2>1. file' = None \/ Distinct(file'.config)
      BY <1>0, <1>6, CreatedSound DEF MainOpens, ShellOpens
    <2>2. /\ UNCHANGED <<g_config, cfg_io_buf, torn, put>>
          /\ shell' = "entry" => shell = "entry"
          /\ shell \in {"node", "ns"} => shell' = shell
      BY <1>6 DEF MainOpens, ShellOpens
    <2>3. QED
      BY <1>0, <2>1, <2>2 DEF UniqueInv, Fresh
  <1>7. ASSUME NEW ok \in BOOLEAN, MainWrites(ok) \/ ShellWrites(ok) PROVE UniqueInv'
    <2>1. file' = file \/ file' = cfg_io_buf
      BY <1>7 DEF MainWrites, ShellWrites
    <2>2. /\ UNCHANGED <<g_config, cfg_io_buf, torn, put>>
          /\ shell' = "entry" => shell = "entry"
          /\ shell \in {"node", "ns"} => shell' = shell
      BY <1>7 DEF MainWrites, ShellWrites
    <2>3. QED
      BY <1>0, <2>1, <2>2 DEF UniqueInv, Fresh
  <1>8. CASE StringSet
    BY <1>0, <1>8, StringSetSound DEF UniqueInv, Fresh, Distinct
  <1>9. CASE EntrySet
    <2>1. torn' = torn /\ shell = "idle"
      BY <1>9, EntrySetSound
    <2>2. UNCHANGED <<g_config, cfg_io_buf, file>>
      BY <1>9, EntrySetSound
    <2>3. Fresh(g_config)'
      BY <1>9, <2>2, EntrySetSound DEF Fresh
    <2>4. QED
      BY <1>0, <2>1, <2>2, <2>3 DEF UniqueInv, Distinct
  <1>10. CASE CopyEnds
    <2>1. g_config'.channels = g_config.channels
      BY <1>10, CopiedSound DEF CopyEnds, StoreInv
    <2>2. QED
      BY <1>0, <1>10, <2>1 DEF CopyEnds, UniqueInv, Fresh, Distinct
  <1>11. CASE EntryEnds
    <2>1. g_config' \in Written /\ put \in Put /\ Sound(g_config) /\ ~torn /\ shell = "entry"
      BY <1>0, <1>11 DEF EntryEnds, StoreInv
    <2>2. Distinct(g_config')
      BY <1>0, <2>1, WrittenSound DEF Fresh
    <2>3. QED
      BY <1>0, <1>11, <2>2 DEF EntryEnds, UniqueInv, Fresh
  <1>12. CASE ResetBegins \/ ResetEnds
    <2>1. Distinct(g_config')
      BY <1>0, <1>12, ConstantsSound, ResetSound DEF ResetBegins, ResetEnds
    <2>2. QED
      BY <1>0, <1>12, <2>1 DEF ResetBegins, ResetEnds, Command, UniqueInv, Fresh
  <1>13. CASE SaveBegins
    <2>1. Distinct(cfg_io_buf'.config)
      BY <1>0, <1>13, TextsSound DEF SaveBegins, StoreInv
    <2>2. QED
      BY <1>0, <1>13, <2>1 DEF SaveBegins, Command, UniqueInv, Fresh
  <1>14. CASE UNCHANGED vars
    BY <1>0, <1>14 DEF vars, UniqueInv, Fresh
  <1>15. QED
    BY <1>1, <1>2, <1>3, <1>4, <1>5, <1>6, <1>7, <1>8, <1>9, <1>10, <1>11, <1>12, <1>13, <1>14
    DEF Next, ConfigSet, StringSet, EntrySet

(* Types, and the bound of the channel table, for every size of it.        *)
THEOREM TypeCorrect == Spec => []TypeOK
  <1>1. StoreInv => TypeOK
    BY DEF StoreInv, TypeOK, Sound, SoundText
  <1>2. Init => StoreInv
    BY StoreInit
  <1>3. QED
    BY <1>1, <1>2, StoreStep, PTL DEF Spec

(* No channel is ever listed twice, whatever is set, saved and loaded,     *)
(* unless a "set" was overtaken by the boot or its name was cut.           *)
THEOREM ListedOnce == Spec => []UniqueChannels
  <1>1. UniqueInv => UniqueChannels
    BY DEF UniqueInv, UniqueChannels, Distinct
  <1>2. Init => StoreInv /\ UniqueInv
    BY StoreInit
  <1>3. StoreInv /\ UniqueInv /\ [Next]_vars => StoreInv' /\ UniqueInv'
    BY StoreStep, UniqueStep
  <1>4. QED
    BY <1>1, <1>2, <1>3, PTL DEF Spec

-----------------------------------------------------------------------------
(* What carries a promise from the report of a save to the next boot: the  *)
(* file holds it whole, config_init writes only when there is none, and a  *)
(* save in progress has the text of what it is about to promise.           *)
Whole(c) == [config |-> c, parts |-> 4]

Promise ==
  /\ promised # None /\ Plain(promised) => file # None /\ file = Whole(promised)
  /\ main \in {"save_open", "save_write"} => promised = None
  /\ shell \in {"save_open", "save_write"} /\ snap # None =>
       main = "run" /\ cfg_io_buf \in Texts(snap)

PromiseInv == StoreInv /\ Promise

LEMMA PlainText == ASSUME NEW c, Plain(c), NEW t \in Texts(c) PROVE t = Whole(c)
  BY DEF Plain, Texts, Whole

LEMMA PromiseStep == PromiseInv /\ [Next]_vars => Promise'
  <1> SUFFICES ASSUME PromiseInv, [Next]_vars PROVE Promise'
    OBVIOUS
  <1> USE DEF PromiseInv, Promise
  <1>1. CASE Restart
    BY <1>1 DEF Restart, Plain
  <1>2. CASE MountFails \/ Mount
    BY <1>2 DEF MountFails, Mount, Plain
  <1>3. CASE Load
    BY <1>3 DEF Load, Plain
  <1>4. CASE LoadFails
    BY <1>4 DEF LoadFails, Plain
  <1>5. ASSUME NEW ok \in BOOLEAN, MainOpens(ok) PROVE Promise'
    BY <1>5 DEF MainOpens, Plain
  <1>6. ASSUME NEW ok \in BOOLEAN, MainWrites(ok) PROVE Promise'
    BY <1>6 DEF MainWrites, Plain
  <1>7. ASSUME NEW ok \in BOOLEAN, ShellOpens(ok) PROVE Promise'
    <2>1. file # None => file' = file
      BY <1>7 DEF ShellOpens, Created
    <2>2. QED
      BY <1>7, <2>1 DEF ShellOpens, ShellRuns, Plain
  <1>8. ASSUME NEW ok \in BOOLEAN, ShellWrites(ok) PROVE Promise'
    <2>1. CASE ok /\ snap # None
      <3>1. cfg_io_buf \in Texts(snap) /\ main = "run"
        BY <1>8, <2>1 DEF ShellWrites
      <3>2. cfg_io_buf # None
        BY NoneAssumption DEF StoreInv, SoundText
      <3>3. Plain(snap) => cfg_io_buf = Whole(snap)
        BY <3>1, PlainText
      <3>4. file' = cfg_io_buf /\ promised' = snap
        BY <1>8, <2>1 DEF ShellWrites
      <3>5. QED
        BY <1>8, <3>1, <3>2, <3>3, <3>4 DEF ShellWrites, Plain
    <2>2. CASE ok /\ snap = None
      BY <1>8, <2>2 DEF ShellWrites
    <2>3. CASE ~ok
      BY <1>8, <2>3 DEF ShellWrites, Plain
    <2>4. QED
      BY <2>1, <2>2, <2>3
  <1>9. CASE ConfigSet
    <2>1. /\ UNCHANGED <<cfg_io_buf, file, main, promised, snap>>
          /\ shell' \in {"idle", "node", "ns", "entry"}
      BY <1>9 DEF ConfigSet, SetNode, SetSpace, SetAlpha, SetTopic, SetChannel, Add, LooksUp,
                  SetBegins, CopyEnds, EntryEnds
    <2>2. QED
      BY <2>1 DEF Plain
  <1>10. CASE ResetBegins \/ ResetEnds \/ ShellLoads
    BY <1>10 DEF ResetBegins, ResetEnds, ShellLoads, Command, Plain
  <1>11. CASE SaveBegins
    BY <1>11 DEF SaveBegins, Mounted, Plain
  <1>12. CASE UNCHANGED vars
    BY <1>12 DEF vars, Plain
  <1>13. QED
    BY <1>1, <1>2, <1>3, <1>4, <1>5, <1>6, <1>7, <1>8, <1>9, <1>10, <1>11, <1>12 DEF Next

(* A reported save survives until the boot that activates it.              *)
THEOREM SaveSurvives == Spec => PromiseKept
  <1>1. Init => PromiseInv
    <2>1. Init => Promise
      BY DEF Init, Promise
    <2>2. QED
      BY <2>1, StoreInit DEF PromiseInv
  <1>2. PromiseInv /\ [Next]_vars => PromiseInv'
    BY StoreStep, PromiseStep DEF PromiseInv
  <1>3. PromiseInv /\ [Next]_vars
          => [main = "load" /\ main' = "run" /\ promised # None /\ Plain(promised)
                => g_config' = Rounded(promised)]_vars
    <2> SUFFICES ASSUME PromiseInv, Next, main = "load", main' = "run",
                        promised # None, Plain(promised)
                 PROVE  g_config' = Rounded(promised)
      OBVIOUS
    <2>1. Load
      BY DEF Next, Restart, MountFails, Mount, LoadFails, ConfigSet, SetNode, SetSpace, SetAlpha,
             SetTopic, SetChannel, Add, LooksUp, SetBegins, CopyEnds, EntryEnds, Command, ShellRuns, ResetBegins, ResetEnds, ShellLoads,
             SaveBegins, MainOpens, MainWrites, ShellOpens, ShellWrites
    <2>2. g_config' = Parsed(Whole(promised), g_config)
      BY <2>1 DEF Load, PromiseInv, Promise
    <2>3. promised \in Config
      BY DEF PromiseInv, StoreInv
    <2>4. Parsed(Whole(promised), g_config) = Rounded(promised)
      BY <2>3 DEF Parsed, Channels, Whole, Plain, Rounded, Config
    <2>5. QED
      BY <2>2, <2>4
  <1>4. QED
    BY <1>1, <1>2, <1>3, PTL DEF Spec, PromiseKept

-----------------------------------------------------------------------------
(* The upload.  Whatever the tool does, and wherever the board restarts    *)
(* under it, the store takes a step of its own or none.                    *)
Uploadable == ChannelName \in ChannelNames /\ Alpha \in Alphas

LEMMA KeySent == ASSUME Uploadable, NEW j, Sets(j) PROVE ConfigSet \/ UNCHANGED vars
  <1>1. NodeName \in Names => NodeName \in Names \cup {Empty}
    OBVIOUS
  <1>2. SetNode(NodeName) => ConfigSet
    BY <1>1 DEF SetNode, ConfigSet
  <1>3. SetAlpha(Alpha) => ConfigSet
    BY DEF Uploadable, ConfigSet
  <1>4. SetChannel(ChannelName, TRUE) => ConfigSet
    BY DEF Uploadable, ConfigSet
  <1>5. QED
    BY <1>2, <1>3, <1>4 DEF Sets

LEMMA UploadStep == ASSUME Uploadable, [Tool \/ Board]_upload PROVE [Next]_vars
  <1>1. CASE SendKey
    <2>1. ConfigSet \/ UNCHANGED vars
      BY <1>1, KeySent DEF SendKey
    <2>2. QED
      BY <2>1 DEF Next
  <1>2. CASE Hear \/ HearSave \/ Verify \/ Reconnect \/ GiveUp
    BY <1>2 DEF Hear, HearSave, Verify, Reconnect, GiveUp
  <1>3. CASE Save
    BY <1>3 DEF Save, Next
  <1>4. CASE Reboot \/ Disconnect
    BY <1>4 DEF Reboot, Disconnect, Next
  <1>5. CASE Board
    BY <1>5 DEF Board, Next, ConfigSet
  <1>6. CASE UNCHANGED upload
    BY <1>6 DEF upload
  <1>7. QED
    BY <1>1, <1>2, <1>3, <1>4, <1>5, <1>6 DEF Tool

(* upload_config.py and the board implement the store.                     *)
THEOREM UploadIsStore == ASSUME Uploadable PROVE UploadSpec => Spec
  <1>1. UploadInit => Init
    BY DEF UploadInit
  <1>2. [Tool \/ Board]_upload => [Next]_vars
    BY UploadStep
  <1>3. QED
    BY <1>1, <1>2, PTL DEF UploadSpec, Spec

(* So during an upload, too, no channel is listed twice and what a save    *)
(* reported is what the next boot loads.  (That it is what the tool wanted *)
(* to upload does not follow: see SavedMeansUploaded.)                     *)
THEOREM UploadKeepsPromises ==
  ASSUME Uploadable PROVE UploadSpec => [](TypeOK /\ UniqueChannels) /\ PromiseKept
  BY UploadIsStore, TypeCorrect, ListedOnce, SaveSurvives, PTL
=============================================================================
