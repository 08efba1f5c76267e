---------------------------- MODULE ConfigStore ----------------------------
(***************************************************************************)
(* The configuration store (common/src/config/config.c) between the two    *)
(* threads that use it: main, which loads it once at boot, and the USB     *)
(* shell (common/src/shell/shell_cmd.c), which main preempts at any point. *)
(* Power may be lost between any two steps.                                *)
(*                                                                         *)
(* Of the text fields two are kept, which are validated when they are set; *)
(* the network fields are handled as they are, without the validation.  Of *)
(* the RC trims the smoothing factor is kept, the one that is rounded when *)
(* it is written.  The JSON text is followed as far as parsing can tell    *)
(* texts apart: what it was made from and how much of it is there.  Names  *)
(* that hold a quote or that read like one of the other keys are left out. *)
(***************************************************************************)
EXTENDS Integers, Sequences, FiniteSets

CONSTANTS
  Names,         (* valid node names                                       *)
  KeyName,       (* "namespace", a valid name that reads like a key        *)
  DefaultName,   (* node_name of the factory defaults                      *)
  Spaces,        (* valid namespaces                                       *)
  Root,          (* "/", the namespace of the factory defaults             *)
  Empty,         (* the empty string                                       *)
  ChannelNames,  (* channel names that fit an entry                        *)
  LongName,      (* a channel name that does not ...                       *)
  CutName,       (* ... and what the entry keeps of it                     *)
  CFG_MAX_CHANNELS,
  SureFits,      (* this many channel entries fit cfg_io_buf whatever the  *)
                 (* strings (5 of the 12 in the code)                      *)
  Alphas,        (* values set for ema_alpha, in thousandths               *)
  MaxSets,       (* "set" commands followed                                *)
  None

ASSUME Assumption ==
  /\ DefaultName \in Names /\ KeyName # DefaultName
  /\ Root \in Spaces
  /\ Empty \notin Names \cup Spaces
  /\ LongName \notin ChannelNames /\ CutName \in ChannelNames
  /\ CFG_MAX_CHANNELS \in Nat \ {0} /\ SureFits \in 0..CFG_MAX_CHANNELS
  /\ Alphas \subseteq Nat
  /\ MaxSets \in Nat

Entry  == [name : ChannelNames, enabled : BOOLEAN]
Config == [node : Names \cup {Empty}, ns : Spaces \cup {Empty},
           channels : Seq(Entry), alpha : Nat]

Blank   == [node |-> Empty, ns |-> Empty, channels |-> <<>>, alpha |-> 0]
Factory == [node |-> DefaultName, ns |-> Root, channels |-> <<>>, alpha |-> 1000]

(* "%.2f" and strtof.                                                      *)
Rounded(c) == [c EXCEPT !.alpha = ((@ + 5) \div 10) * 10]

-----------------------------------------------------------------------------
(* Texts: the configuration written, and how many of its four parts (node  *)
(* name, namespace, channels, trims) were written whole.                   *)
Text   == [config : Config, parts : 0..4]
NoText == [config |-> Blank, parts |-> 0]

ASSUME NoneAssumption == None \notin Text /\ None \notin Config

(* config_to_json.  A text that is longer than cfg_io_buf ends within the  *)
(* channels or the trims; what is written past the buffer is not followed. *)
Texts(c) ==
  {[config |-> c, parts |-> p] : p \in IF Len(c.channels) <= SureFits THEN {4} ELSE 2..4}

(* config_load on text t over what g_config holds: a part that is missing  *)
(* keeps its old value, except that the channels are counted from zero.    *)
(* A key is searched anywhere in the text, so a node name that looks like  *)
(* the next key hides it.                                                  *)
Channels_Kept(t, r) == IF t.parts >= 3 /\ t.config.channels # <<>> THEN t.config.channels
                                                                 ELSE r.channels
Channels(t, r) == IF t.parts >= 3 THEN t.config.channels ELSE <<>>

Parsed(t, r) ==
  [node     |-> IF t.parts >= 1 THEN t.config.node ELSE r.node,
   ns       |-> IF t.parts >= 2 /\ t.config.node # KeyName THEN t.config.ns ELSE r.ns,
   channels |-> Channels(t, r),
   alpha    |-> IF t.parts = 4 THEN Rounded(t.config).alpha ELSE r.alpha]

-----------------------------------------------------------------------------
VARIABLES
  g_config,
  cfg_io_buf,  (* the text in the buffer both threads use                  *)
  file,        (* config.json as the file system would read it, or None    *)
  main,        (* main thread: "usb", then "load", "save_open" and         *)
               (* "save_write" of config_init, then "run" or "unmounted"   *)
  shell,       (* shell thread: "idle", or in a command: "node" and "ns"   *)
               (* copying a string, "entry" having looked up a channel,    *)
               (* "reset", "save_open", "save_write"                       *)
  put,         (* what the "entry" in progress is about to write           *)
  torn,        (* main ran config_init since this "set" began              *)
  raced,       (* history: that ever happened to an "entry"                *)
  promised,    (* history: g_config as the last "Config saved" of a        *)
               (* running bridge claimed to have saved it, or None         *)
  snap,        (* history: g_config when the shell's save began, or None   *)
  sets         (* "set" commands so far                                    *)

race == <<put, torn, raced>>
vars == <<g_config, cfg_io_buf, file, main, shell, race, promised, snap, sets>>

Init ==
  /\ g_config = Blank /\ cfg_io_buf = NoText /\ file = None
  /\ main = "usb" /\ shell = "idle"
  /\ put = None /\ torn = FALSE /\ raced = FALSE
  /\ promised = None /\ snap = None /\ sets = 0

(* Power is lost, the watchdog fires, or "bridge reboot".  An open file    *)
(* that was not closed keeps its last content.                             *)
Restart ==
  /\ g_config' = Blank /\ cfg_io_buf' = NoText
  /\ main' = "usb" /\ shell' = "idle" /\ snap' = None
  /\ put' = None /\ torn' = FALSE
  /\ UNCHANGED <<file, raced, promised, sets>>

-----------------------------------------------------------------------------
(* main: config_init.                                                      *)

(* A "set" that the shell is in the middle of goes on afterwards.          *)
Overtakes ==
  /\ torn'  = (shell \in {"node", "ns", "entry"})
  /\ raced' = (raced \/ shell = "entry")
  /\ UNCHANGED put

(* fs_mount fails: defaults, and no file system for this boot.             *)
MountFails ==
  /\ main = "usb" /\ main' = "unmounted"
  /\ g_config' = Factory
  /\ Overtakes
  /\ UNCHANGED <<cfg_io_buf, file, shell, promised, snap, sets>>

Mount ==
  /\ main = "usb" /\ main' = "load"
  /\ UNCHANGED <<g_config, cfg_io_buf, file, shell, race, promised, snap, sets>>

Load ==
  /\ main = "load" /\ file # None
  /\ cfg_io_buf' = file
  /\ g_config' = Parsed(file, g_config)
  /\ main' = "run"
  /\ Overtakes
  /\ UNCHANGED <<file, shell, promised, snap, sets>>

(* No file, or an error of fs_open or fs_read: the defaults are saved.     *)
LoadFails ==
  /\ main = "load"
  /\ g_config' = Factory
  /\ cfg_io_buf' \in Texts(Factory)
  /\ main' = "save_open"
  /\ promised' = None
  /\ Overtakes
  /\ UNCHANGED <<file, shell, snap, sets>>

(* config_save, for either thread.  Opening creates the file, empty, if    *)
(* there is none; the new content replaces the old one when the file is    *)
(* closed, and not at all when the write failed.                           *)
Created == IF file = None THEN NoText ELSE file

MainOpens(ok) ==
  /\ main = "save_open"
  /\ file' = IF ok THEN Created ELSE file
  /\ main' = IF ok THEN "save_write" ELSE "run"
  /\ UNCHANGED <<g_config, cfg_io_buf, shell, race, promised, snap, sets>>

MainWrites(ok) ==
  /\ main = "save_write"
  /\ file' = IF ok THEN cfg_io_buf ELSE file
  /\ main' = "run"
  /\ UNCHANGED <<g_config, cfg_io_buf, shell, race, promised, snap, sets>>

-----------------------------------------------------------------------------
(* The shell runs when main sleeps: before config_init, and after it.      *)
ShellRuns == main \in {"usb", "unmounted", "run"}
Mounted   == main = "run"
Command   == ShellRuns /\ shell = "idle"

(* bridge config set.                                                      *)
SetBegins(next) ==
  /\ Command /\ sets < MaxSets /\ sets' = sets + 1
  /\ shell' = next
  /\ UNCHANGED <<cfg_io_buf, file, main, torn, raced, promised, snap>>

SetNode(v)  == /\ v \in Names /\ SetBegins("node")
               /\ g_config' = [g_config EXCEPT !.node = v] /\ UNCHANGED put
SetSpace(v) == /\ v \in Spaces /\ SetBegins("ns")
               /\ g_config' = [g_config EXCEPT !.ns = v] /\ UNCHANGED put
SetAlpha(a) == /\ SetBegins("idle")
               /\ g_config' = [g_config EXCEPT !.alpha = a] /\ UNCHANGED put

(* SAFE_STRCPY ends.  When main overtook it the string is the old one, the *)
(* new one or a mixture, which is valid as both were.                      *)
Copied == IF ~torn THEN {g_config}
          ELSE {g_config}
               \cup {[g_config EXCEPT !.node = v] : v \in IF shell = "node" THEN Names ELSE {}}
               \cup {[g_config EXCEPT !.ns = v] : v \in IF shell = "ns" THEN Spaces ELSE {}}

CopyEnds ==
  /\ ShellRuns /\ shell \in {"node", "ns"} /\ shell' = "idle"
  /\ g_config' \in Copied
  /\ torn' = FALSE
  /\ UNCHANGED <<cfg_io_buf, file, main, put, raced, promised, snap, sets>>

(* A channel is looked up first and written afterwards.                    *)
Put == [slot : 1..CFG_MAX_CHANNELS, entry : Entry, new : BOOLEAN]

LooksUp(p)  == SetBegins("entry") /\ put' = p /\ UNCHANGED g_config

Listed(n)   == {j \in DOMAIN g_config.channels : g_config.channels[j].name = n}
Full_Beyond == Len(g_config.channels) > CFG_MAX_CHANNELS
Full        == Len(g_config.channels) >= CFG_MAX_CHANNELS

(* A new entry, whose name is cut to fit.  When the table is full nothing  *)
(* changes: -ENOMEM, which cmd_config_set reports as "OK".                 *)
Add(n, en) ==
  ~Full /\ LooksUp([slot  |-> Len(g_config.channels) + 1, new |-> TRUE,
                    entry |-> [name |-> IF n = LongName THEN CutName ELSE n, enabled |-> en]])

SetChannel_Added(n, en) == Add(n, en)

SetChannel(n, en) ==
  IF Listed(n) = {} THEN Add(n, en)
  ELSE \E j \in Listed(n) :
         /\ \A l \in Listed(n) : j <= l
         /\ LooksUp([slot |-> j, new |-> FALSE, entry |-> [name |-> n, enabled |-> en]])

(* channels.<name>.topic; the topic itself is not followed, and a name     *)
(* that is too long is rejected.                                           *)
SetTopic(n) == Listed(n) = {} /\ Add(n, TRUE)

(* The write.  When main overtook the command, the slot may be another     *)
(* channel's, or beyond the end; and the end is the new one if             *)
(* channel_count had not been advanced yet.                                *)
InSlot == put.slot \in DOMAIN g_config.channels

Written ==
  IF ~put.new
  THEN {IF InSlot THEN [g_config EXCEPT !.channels[put.slot].enabled = put.entry.enabled]
                  ELSE g_config}
  ELSE {IF Full THEN g_config ELSE [g_config EXCEPT !.channels = Append(@, put.entry)]}
       \cup IF torn
            THEN {IF InSlot THEN [g_config EXCEPT !.channels[put.slot] = put.entry] ELSE g_config}
            ELSE {}

EntryEnds ==
  /\ ShellRuns /\ shell = "entry" /\ shell' = "idle"
  /\ g_config' \in Written
  /\ put' = None /\ torn' = FALSE
  /\ UNCHANGED <<cfg_io_buf, file, main, raced, promised, snap, sets>>

(* bridge config reset, and the same when "load" finds no readable file:   *)
(* all zero first, then field by field.                                    *)
ResetBegins ==
  /\ Command /\ shell' = "reset"
  /\ g_config' = Blank
  /\ UNCHANGED <<cfg_io_buf, file, main, race, promised, snap, sets>>

ResetEnds ==
  /\ ShellRuns /\ shell = "reset" /\ shell' = "idle"
  /\ g_config' = [Factory EXCEPT !.channels = g_config.channels]
  /\ UNCHANGED <<cfg_io_buf, file, main, race, promised, snap, sets>>

(* bridge config load.                                                     *)
ShellLoads ==
  /\ Command /\ Mounted /\ file # None
  /\ cfg_io_buf' = file
  /\ g_config' = Parsed(file, g_config)
  /\ UNCHANGED <<file, main, shell, race, promised, snap, sets>>

(* bridge config save: config_to_json, fs_open, then fs_write and fs_close.*)
(* Main may load, and use the buffer, between any two of the three.        *)
SaveBegins ==
  /\ Command /\ shell' = "save_open"
  /\ cfg_io_buf' \in Texts(g_config)
  /\ snap' = IF Mounted THEN g_config ELSE None
  /\ UNCHANGED <<g_config, file, main, race, promised, sets>>

ShellOpens(ok) ==
  /\ ShellRuns /\ shell = "save_open"
  /\ ok => Mounted
  /\ file'  = IF ok THEN Created ELSE file
  /\ shell' = IF ok THEN "save_write" ELSE "idle"
  /\ snap'  = IF ok THEN snap ELSE None
  /\ UNCHANGED <<g_config, cfg_io_buf, main, race, promised, sets>>

ShellWrites(ok) ==
  /\ ShellRuns /\ shell = "save_write" /\ shell' = "idle"
  /\ file' = IF ok THEN cfg_io_buf ELSE file
  /\ promised' = IF ok THEN snap ELSE promised
  /\ snap' = None
  /\ UNCHANGED <<g_config, cfg_io_buf, main, race, sets>>

-----------------------------------------------------------------------------
ConfigSet ==
  \/ \E v \in Names \cup {Empty} : SetNode(v)
  \/ \E v \in Spaces \cup {Empty} : SetSpace(v)
  \/ \E a \in Alphas : SetAlpha(a)
  \/ \E n \in ChannelNames : SetTopic(n)
  \/ \E n \in ChannelNames \cup {LongName}, en \in BOOLEAN : SetChannel(n, en)
  \/ CopyEnds \/ EntryEnds

Next ==
  \/ Restart \/ MountFails \/ Mount \/ Load \/ LoadFails
  \/ ConfigSet \/ ResetBegins \/ ResetEnds \/ ShellLoads \/ SaveBegins
  \/ \E ok \in BOOLEAN : MainOpens(ok) \/ MainWrites(ok) \/ ShellOpens(ok) \/ ShellWrites(ok)

Spec == Init /\ [][Next]_vars

-----------------------------------------------------------------------------
TypeOK ==
  /\ g_config \in Config /\ Len(g_config.channels) <= CFG_MAX_CHANNELS
  /\ cfg_io_buf \in Text /\ Len(cfg_io_buf.config.channels) <= CFG_MAX_CHANNELS
  /\ file \in Text \cup {None}
  /\ file # None => Len(file.config.channels) <= CFG_MAX_CHANNELS
  /\ main \in {"usb", "unmounted", "load", "save_open", "save_write", "run"}
  /\ shell \in {"idle", "node", "ns", "entry", "reset", "save_open", "save_write"}
  /\ put \in Put \cup {None} /\ (shell = "entry" => put \in Put)
  /\ torn \in BOOLEAN /\ raced \in BOOLEAN
  /\ promised \in Config \cup {None} /\ snap \in Config \cup {None}
  /\ sets \in 0..MaxSets

(* config_channel_enabled takes the first entry of a name: whatever was    *)
(* set, saved, loaded and reset, before and after the boot's own load, no  *)
(* channel has two entries, of which the second would be ignored.  Two     *)
(* cases are exempt, in which the code does list one twice: a name that    *)
(* was cut, and a "set" in the middle of which main ran config_init.       *)
UniqueChannels ==
  raced \/ \A j, l \in DOMAIN g_config.channels :
             g_config.channels[j].name = g_config.channels[l].name =>
               j = l \/ g_config.channels[j].name = CutName

(* "Use save to persist, then reboot to activate" (README.md:359): once    *)
(* "Config saved" was reported, every later boot that can read the file    *)
(* loads that configuration, with ema_alpha to two decimals, in spite of   *)
(* power losses, failed saves and what the shell set before the load.  Two *)
(* kinds of configuration are exempt, because they are not restored: one   *)
(* that may be too long for cfg_io_buf and one whose node name reads like  *)
(* the next key.                                                           *)
Plain(c) == Len(c.channels) <= SureFits /\ c.node # KeyName

PromiseKept ==
  [][main = "load" /\ main' = "run" /\ promised # None /\ Plain(promised)
       => g_config' = Rounded(promised)]_vars

(* "Reject here so bad values never reach flash" (config.c:56), said of    *)
(* the node name, without which no session can be opened.                  *)
BadNamesNeverReachFlash ==
  file # None /\ file.parts >= 1 => file.config.node \in Names
=============================================================================
